-------------------------------- MODULE Lists --------------------------------
(* What the manual promises of an array: items with keys in the order in   *)
(* which they came, and a pointer that walks over them.                    *)
EXTENDS Integers, Sequences

CONSTANTS
  Keys, Vals,
  NoKey,             \* what key() answers when there is none
  KeyOf(_),          \* the key that the n-th item gets by itself
  Apply(_, _, _),    \* what an operator makes of two values
  Arrays,            \* what may be assigned as a whole: sequences of items
  Zero,              \* what an operator takes a value that is not there for
  InOrder(_, _, _)   \* the order of sort(), by the kind of the values

VARIABLES
  items,   \* [key, val], or none at all when the variable is not set
  at,      \* the item that was passed last, 0 before the first, -1 behind the last
  kind     \* of the values

vars == <<items, at, kind>>

Item(k, v) == [key |-> k, val |-> v]
Places(k)  == {i \in DOMAIN items : items[i].key = k}

Init == items = <<>> /\ at = 0 /\ kind \in {"number", "string"}

(* An item that is set keeps its place, a new one comes last.              *)
Set(k, v) ==
  /\ items' = IF Places(k) = {} THEN Append(items, Item(k, v))
              ELSE [i \in DOMAIN items |-> IF i \in Places(k) THEN Item(k, v) ELSE items[i]]
  /\ at' = at

SetByItself(v) == Set(KeyOf(Len(items)), v)

Modify(k, op, v) ==
  LET Old == IF Places(k) = {} THEN Zero ELSE items[CHOOSE i \in Places(k) : TRUE].val IN
  Set(k, Apply(op, Old, v))

(* A whole array is assigned to a variable that has no more than one item. *)
Fill(array) ==
  /\ Len(items) <= 1
  /\ items' = array /\ at' = at

Unset == items' = <<>> /\ at' = 0

Reset == at' = 0 /\ items' = items
End   == items # <<>> /\ at' = Len(items) - 1 /\ items' = items

Forward ==
  /\ at' = IF at = -1 \/ at = Len(items) THEN -1 ELSE at + 1
  /\ items' = items

Back ==
  /\ at' = CASE at = -1 -> Len(items) [] at = 0 -> 0 [] OTHER -> at - 1
  /\ items' = items

(* The keys stay where they are, the values are put in order.              *)
Sort ==
  /\ at' = at
  /\ \E p \in [DOMAIN items -> DOMAIN items] :
       /\ \A i, j \in DOMAIN items : i < j => p[i] # p[j] /\ InOrder(kind, items[p[i]].val, items[p[j]].val)
       /\ items' = [i \in DOMAIN items |-> Item(items[i].key, items[p[i]].val)]

(* What count() and key() answer: key() that of the item which next() will *)
(* come to, or of the first when the pointer is behind the last.           *)
Count == Len(items)
Key   == LET place == IF at = -1 THEN 1 ELSE at + 1 IN
         IF place \in DOMAIN items THEN items[place].key ELSE NoKey

Next ==
  /\ \/ \E k \in Keys, v \in Vals : Set(k, v)
     \/ \E v \in Vals : SetByItself(v)
     \/ \E k \in Keys, op \in {"+", "-", "&", "|"}, v \in Vals : Modify(k, op, v)
     \/ \E array \in Arrays : Fill(array)
     \/ Unset \/ Reset \/ End \/ Forward \/ Back \/ Sort
  /\ kind' = kind

Spec == Init /\ [][Next]_vars
=============================================================================
