-------------------------------- MODULE Arrays -------------------------------
(***************************************************************************)
(* One variable of a page as an array (var.c, sort.c): a chain of nodes    *)
(* that starts with the variable itself, which also has a count, a pointer *)
(* to the last node and the cursor that next(), prev() and $a[] move.      *)
(*                                                                         *)
(* The environment is the author of the page, whose habits are given by    *)
(* the variable of that name.  How a name is found, and values that are    *)
(* empty, real or joined strings, are left out.                            *)
(***************************************************************************)
EXTENDS Integers, Sequences

CONSTANTS
  Keys, Vals,
  First,             \* the key "0"
  NoKey,             \* the answer of key() when there is none
  KeyOf(_),          \* the decimal form of a number of nodes
  Size(_),           \* the length of a value as a string
  Apply(_, _, _),    \* +=, -=, &= and |= on numbers, of a long's width
  Zero,              \* the number 0
  InOrder(_, _, _),  \* for numbers <=, for strings strcmp(...) <= 0
  Others,            \* the values and the arrays that a page assigns, sequences of items
  Pages,             \* what pages do: sets of habits
  MaxLen, MaxCount   \* bounds: of the nodes of a chain, and of the count

(* refill: an array is assigned to a variable with several items.  nest:   *)
(* an array is assigned to an item.  mixed: an item is added by itself     *)
(* though its key is taken.  named: a variable whose first key is not "0"  *)
(* is set as a whole, or copied.  void: an item is set or changed after    *)
(* unset, or changed before it is there.  masks: an item is changed with   *)
(* &= or |=.  sorts: sort() is called.                                     *)
AllHabits == {"refill", "nest", "mixed", "named", "void", "masks", "sorts"}

Ops == {"+", "-", "&", "|"}

Items == [key : Keys, val : Vals]
Long  == 1..MaxLen

ASSUME ArraysAssumption ==
  /\ First \in Keys /\ NoKey \notin Keys /\ Zero \in Vals
  /\ MaxLen \in Nat \ {0} /\ MaxCount \in Nat \ {0}
  /\ Vals \subseteq Int /\ \A u, v \in Vals : InOrder("number", u, v) <=> u <= v
  /\ \A n \in 0 .. MaxLen - 1 : KeyOf(n) \in Keys
  /\ KeyOf(0) = First
  /\ \A v \in Vals : Size(v) \in Nat \ {0}
  /\ \A op \in Ops, u, v \in Vals : Apply(op, u, v) \in Vals
  /\ \A op \in {"+", "|"}, v \in Vals : Apply(op, Zero, v) = v
  /\ \A b \in Others : \E n \in Long : b \in [1..n -> Items]
  /\ Pages \subseteq SUBSET AllHabits

VARIABLES
  nodes,     \* the chain: key, value, the size it is believed to have room for, and its room
  count,     \* count
  last,      \* lastnode: the place of the node
  cur,       \* lacc: the place of the node, 0 for (VarTree *)-1, -1 for NULL
  stale,     \* the nodes behind the first that the cursor is in, if they are cut off
  deleted,   \* deleted: the value of the first node is NULL
  kind,      \* are the values of the page numbers or strings?
  hung,      \* does the program copy a chain that grows as it is copied?
  habits

vars  == <<nodes, count, last, cur, stale, deleted, kind, hung, habits>>
chain == <<nodes, count, last, deleted>>
fixed == <<kind, hung, habits>>

Exists  == nodes # <<>>
Defined == Exists /\ ~deleted

Places(k) == {i \in DOMAIN nodes : nodes[i].key = k}

Fresh(k, v) == [key |-> k, val |-> v, alloc |-> Size(v) + 1, room |-> Size(v) + 1]

StoreTight(n, v) == IF Size(v) > n.alloc THEN Fresh(n.key, v) ELSE [n EXCEPT !.val = v]
(* The memory of a node is used again if the value is known to fit.        *)
Store(n, v) == IF Size(v) >= n.alloc THEN Fresh(n.key, v) ELSE [n EXCEPT !.val = v]

Copies(array) == [i \in 1 .. Len(array) - 1 |-> Fresh(array[i + 1].key, array[i + 1].val)]

StoreAt(i, v) == [nodes EXCEPT ![i] = Store(@, v)]

(* A cursor in the part of the chain that copyarray cuts off stays there.  *)
CutBehindFirst ==
  IF cur >= 2 /\ stale = <<>> THEN stale' = Tail(nodes) ELSE stale' = stale

Bounded == Len(nodes') <= MaxLen /\ count' <= MaxCount

-----------------------------------------------------------------------------
(* SetVar and copyarray. *)

(* $a = b, where b may be an array: copyarray adds to the count that the   *)
(* variable had.  The array may be the variable itself.                    *)
Assign(b) ==
  LET head  == IF Exists THEN Store(nodes[1], b[1].val) ELSE Fresh(First, b[1].val)
      whole == Len(b) > 1
      rest  == IF whole THEN Copies(b) ELSE IF Exists THEN Tail(nodes) ELSE <<>> IN
  /\ whole /\ Len(nodes) > 1 => "refill" \in habits
  /\ (Exists /\ nodes[1].key # First) \/ (whole /\ b[1].key # First) => "named" \in habits
  /\ nodes' = <<head>> \o rest
  /\ count' = (IF Exists THEN count ELSE 1) + Len(b) - 1
  /\ last' = IF whole \/ ~Exists THEN Len(b) ELSE last
  /\ deleted' = FALSE
  /\ IF whole THEN CutBehindFirst ELSE stale' = stale
  /\ Bounded /\ UNCHANGED <<cur, kind, hung, habits>>

AssignOther == \E b \in Others : Assign(b)
AssignSelf  == Defined /\ Len(nodes) > 1 /\ Assign(nodes)

(* Nodes are added for b and, if it is an array, for the rest of it; the   *)
(* variable's count and last node take notice of the first only.           *)
AddNodes(k, b) ==
  /\ nodes' = Append(nodes, Fresh(k, b[1].val)) \o Copies(b)
  /\ last' = Len(nodes) + 1

(* $a[] = b.                                                               *)
AppendItem(b) ==
  /\ Len(b) > 1 => "nest" \in habits
  /\ IF Defined
       THEN /\ AddNodes(KeyOf(Len(nodes)), b)
            /\ count' = count + 1
            /\ Places(KeyOf(Len(nodes))) # {} => "mixed" \in habits
       ELSE /\ nodes' = <<Fresh(First, b[1].val)>> \o Copies(b)
            /\ count' = Len(b) /\ last' = Len(b)
  /\ deleted' = FALSE
  /\ Bounded /\ UNCHANGED <<cur, stale, kind, hung, habits>>

(* $a[] = $a never comes to the end of the chain it is adding to.          *)
AppendSelf ==
  /\ "nest" \in habits /\ Defined /\ Len(nodes) > 1
  /\ hung' = TRUE
  /\ UNCHANGED <<nodes, count, last, cur, stale, deleted, kind, habits>>

(* $a[k] = b: of an array only the first value, if there is an item k.     *)
SetItem(k, b) ==
  /\ Len(b) > 1 => "nest" \in habits
  /\ deleted => "void" \in habits
  /\ IF Places(k) # {}
       THEN \E i \in Places(k) :
              /\ \A j \in Places(k) : i <= j
              /\ nodes' = StoreAt(i, b[1].val)
              /\ deleted' = (deleted /\ i # 1)
              /\ UNCHANGED <<count, last>>
       ELSE /\ IF Exists
                 THEN AddNodes(k, b) /\ count' = count + 1
                 ELSE /\ nodes' = <<Fresh(k, b[1].val)>> \o Copies(b)
                      /\ count' = Len(b) /\ last' = Len(b)
            /\ deleted' = deleted
  /\ Bounded /\ UNCHANGED <<cur, stale, kind, hung, habits>>

(* $a op= v: a variable that is not there is set to v.  A deleted one gets *)
(* a value and stays deleted.                                              *)
Modify(op, v) ==
  /\ kind = "number"
  /\ deleted \/ (~Exists /\ op \notin {"+", "|"}) => "void" \in habits
  /\ Exists /\ nodes[1].key # First => "named" \in habits
  /\ IF Exists
       THEN nodes' = StoreAt(1, Apply(op, nodes[1].val, v)) /\ UNCHANGED <<count, last>>
       ELSE nodes' = <<Fresh(First, v)>> /\ count' = 1 /\ last' = 1
  /\ UNCHANGED <<cur, stale, deleted, kind, hung, habits>>

(* $a[k] op= v: an item that is not there is made with the value v, one    *)
(* that is there is left alone by &= and |=.                               *)
ModifyItem(k, op, v) ==
  /\ kind = "number"
  /\ deleted \/ (Places(k) = {} /\ op \notin {"+", "|"}) => "void" \in habits
  /\ IF Places(k) # {}
       THEN \E i \in Places(k) :
              /\ \A j \in Places(k) : i <= j
              /\ IF op \in {"&", "|"}
                   THEN "masks" \in habits /\ nodes' = nodes
                   ELSE nodes' = StoreAt(i, Apply(op, nodes[i].val, v))
              /\ UNCHANGED <<count, last>>
       ELSE IF Exists
              THEN AddNodes(k, <<[key |-> k, val |-> v]>>) /\ count' = count + 1
              ELSE nodes' = <<Fresh(k, v)>> /\ count' = 1 /\ last' = 1
  /\ Bounded /\ UNCHANGED <<cur, stale, deleted, kind, hung, habits>>

UnSetOnly ==
  /\ Defined
  /\ nodes' = <<[nodes[1] EXCEPT !.alloc = 0, !.room = 0]>>
  /\ count' = 1 /\ last' = 1 /\ cur' = cur /\ stale' = <<>>
  /\ deleted' = TRUE
  /\ UNCHANGED fixed

UnSetKeepingCount ==
  /\ Defined
  /\ nodes' = <<[nodes[1] EXCEPT !.alloc = 0, !.room = 0]>>
  /\ count' = count /\ last' = 1 /\ cur' = 0 /\ stale' = <<>>
  /\ deleted' = TRUE
  /\ UNCHANGED fixed

(* deletearray leaves the variable in the tree, marked, with its key.      *)
UnSet ==
  /\ Defined
  /\ nodes' = <<[nodes[1] EXCEPT !.alloc = 0, !.room = 0]>>
  /\ count' = 1 /\ last' = 1 /\ cur' = 0 /\ stale' = <<>>
  /\ deleted' = TRUE
  /\ UNCHANGED fixed

-----------------------------------------------------------------------------
(* The cursor. *)

MoveTo(place, where) ==
  /\ Defined
  /\ cur' = place
  /\ stale' = IF place >= 2 THEN where ELSE <<>>
  /\ UNCHANGED <<chain, fixed>>

Behind == IF stale = <<>> THEN Len(nodes) ELSE Len(stale) + 1

EndOnLast == MoveTo(last, <<>>)
Reset    == MoveTo(0, <<>>)
End      == MoveTo(last - 1, <<>>)
NextItem == MoveTo(IF cur = -1 \/ cur = Behind THEN -1 ELSE cur + 1, stale)
PrevItem == MoveTo(CASE cur = -1 -> last [] cur = 0 -> 0 [] OTHER -> cur - 1, stale)

(* The pointers to the values are put in order, of equal ones in any; the  *)
(* nodes keep what they believe of the room.                               *)
Sort ==
  /\ Defined /\ "sorts" \in habits
  /\ \E p \in [DOMAIN nodes -> DOMAIN nodes] :
       /\ \A i, j \in DOMAIN nodes : i < j => p[i] # p[j] /\ InOrder(kind, nodes[p[i]].val, nodes[p[j]].val)
       /\ nodes' = [i \in DOMAIN nodes |-> [nodes[i] EXCEPT !.val = nodes[p[i]].val, !.room = nodes[p[i]].room]]
  /\ UNCHANGED <<count, last, cur, stale, deleted, kind, hung, habits>>

-----------------------------------------------------------------------------
(* What the functions that only read would answer. *)

Count == IF Defined THEN count ELSE 0

(* Of the first node if the cursor is NULL.                                *)
Key ==
  LET place == IF cur = -1 THEN 1 ELSE cur + 1 IN
  IF ~Defined \/ place > Behind THEN NoKey
  ELSE IF stale # <<>> /\ place >= 2 THEN stale[place - 1].key ELSE nodes[place].key

(* Strings are compared by their lengths.                                  *)
Exceeds(u, v) == IF kind = "number" THEN ~InOrder(kind, u, v) ELSE Size(u) > Size(v)

ArrayMax == nodes[CHOOSE i \in DOMAIN nodes : \A j \in DOMAIN nodes :
                   /\ ~Exceeds(nodes[j].val, nodes[i].val)
                   /\ j < i => Exceeds(nodes[i].val, nodes[j].val)].val
ArrayMin == nodes[CHOOSE i \in DOMAIN nodes : \A j \in DOMAIN nodes :
                   /\ ~Exceeds(nodes[i].val, nodes[j].val)
                   /\ j < i => Exceeds(nodes[j].val, nodes[i].val)].val

-----------------------------------------------------------------------------

Init ==
  /\ kind \in {"number", "string"}
  /\ habits \in Pages
  /\ nodes = <<>> /\ count = 0 /\ last = 0
  /\ cur = 0 /\ stale = <<>>
  /\ deleted = FALSE /\ hung = FALSE

Next ==
  /\ ~hung
  /\ \/ AssignOther \/ AssignSelf
     \/ \E b \in Others : AppendItem(b)
     \/ AppendSelf
     \/ \E k \in Keys, b \in Others : SetItem(k, b)
     \/ \E op \in Ops, v \in Vals : Modify(op, v)
     \/ \E k \in Keys, op \in Ops, v \in Vals : ModifyItem(k, op, v)
     \/ UnSet
     \/ Reset \/ End \/ NextItem \/ PrevItem
     \/ Sort

Spec == Init /\ [][Next]_vars

-----------------------------------------------------------------------------
(* Properties. *)

NodesOK == \A i \in DOMAIN nodes :
  /\ nodes[i].key \in Keys /\ nodes[i].val \in Vals
  /\ nodes[i].alloc \in Nat /\ nodes[i].room \in Nat

(* The type invariant.  NULL is a place behind the last, never a stale one.*)
TypeOK ==
  /\ Len(nodes) \in 0..MaxLen /\ NodesOK
  /\ count \in 0..MaxCount
  /\ last \in 0..Len(nodes) /\ (Exists => last >= 1)
  /\ cur \in -1..MaxLen
  /\ Len(stale) < MaxLen /\ (stale # <<>> => cur \in 2 .. Len(stale) + 1)
  /\ {deleted, hung} \subseteq BOOLEAN
  /\ kind \in {"number", "string"} /\ habits \in Pages

Without(H) == habits \cap H = {}

(* Whatever a page does except assigning an array to a variable with       *)
(* several items, next() and prev() are at a node of the array and not in  *)
(* what has been cut off (copyarray, deletearray, var.c:1508-1555).        *)
CursorInside == Without({"refill"}) => stale = <<>> /\ cur <= Len(nodes)

(* The chain of nodes is of its type and the cursor stays on it, through   *)
(* every assignment, sort and unset (var.c:66-850, 1508-1563).             *)
ArraysInv == TypeOK /\ CursorInside

(* A string and its 0 fit in the memory of the node, and a node never      *)
(* believes to have more than it has, whatever a page does except sorting  *)
(* (sort.c:93).                                                            *)
RoomHonest ==
  Without({"sorts"}) => \A i \in DOMAIN nodes :
    /\ nodes[i].alloc <= nodes[i].room
    /\ nodes[i].alloc # 0 => Size(nodes[i].val) < nodes[i].room

list == IF Defined THEN [i \in DOMAIN nodes |-> [key |-> nodes[i].key, val |-> nodes[i].val]] ELSE <<>>

L == INSTANCE Lists WITH items <- list, at <- cur, Arrays <- {b \in Others : Len(b) > 1}

(* On pages that neither refill variables nor assign arrays to items, the  *)
(* count and the key of the current item are those of the array, also      *)
(* after unset and with items of all kinds mixed, and of numbers max() and *)
(* min() are the bounds (Count, Key, ArrayMax, ArrayMin).                  *)
ReadsFaithful ==
  Without({"refill", "nest"}) =>
    /\ Count = L!Count /\ Key = L!Key
    /\ Defined /\ kind = "number" =>
         \A i \in DOMAIN nodes : nodes[i].val <= ArrayMax /\ ArrayMin <= nodes[i].val

(* On plain pages, which may sort, the chain implements the array of the   *)
(* manual (SetVar, copyarray, UnSet, Next, Prev, Sort).                    *)
Implements == L!Init /\ [][Without(AllHabits \ {"sorts"}) => L!Next]_(L!vars)
=============================================================================
