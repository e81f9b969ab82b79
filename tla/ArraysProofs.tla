---------------------------- MODULE ArraysProofs ----------------------------
(* Theorems about Arrays, for every value of its constants: on any page    *)
(* the chain, its cursor and the room of its nodes stay sound, and on      *)
(* plain pages the chain is the array of the manual.                       *)
EXTENDS Arrays, SequenceTheorems, WellFoundedInduction, TLAPS

-----------------------------------------------------------------------------
(* Sequences. *)

(* One element before others.                                              *)
LEMMA Headed ==
  ASSUME NEW T, NEW x \in T, NEW r \in Seq(T), NEW u, u = <<x>> \o r
  PROVE  /\ u \in Seq(T) /\ Len(u) = 1 + Len(r) /\ Len(r) \in Nat /\ DOMAIN u = 1 .. 1 + Len(r)
         /\ u[1] = x /\ \A i \in 1 .. Len(r) : u[i + 1] = r[i]
<1>1. <<x>> \in Seq(T) /\ Len(<<x>>) = 1 /\ <<x>>[1] = x
  OBVIOUS
<1> DEFINE s == <<x>>
<1>2. /\ s \o r \in Seq(T) /\ Len(s \o r) = Len(s) + Len(r)
      /\ \A i \in 1 .. Len(s) + Len(r) : (s \o r)[i] = IF i <= Len(s) THEN s[i] ELSE r[i - Len(s)]
  BY <1>1, ConcatProperties
<1>3. Len(s) = 1 /\ s[1] = x /\ u = s \o r
  BY <1>1
<1> HIDE DEF s
<1>4. Len(r) \in Nat
  BY LenProperties
<1>5. \A i \in 1 .. Len(r) : u[i + 1] = r[i]
  <2> TAKE i \in 1 .. Len(r)
  <2>1. i + 1 \in 1 .. Len(s) + Len(r) /\ ~(i + 1 <= Len(s)) /\ (i + 1) - Len(s) = i
    BY <1>3, <1>4
  <2>2. QED
    BY <1>2, <1>3, <2>1
<1>6. u[1] = x
  <2>1. 1 \in 1 .. Len(s) + Len(r) /\ 1 <= Len(s)
    BY <1>3, <1>4
  <2>2. QED
    BY <1>2, <1>3, <2>1
<1>7. DOMAIN u = 1 .. Len(u)
  BY <1>2, <1>3, LenProperties
<1>8. QED
  BY <1>2, <1>3, <1>4, <1>5, <1>6, <1>7

(* Others behind a sequence, the first of them named.                      *)
LEMMA Grown ==
  ASSUME NEW T, NEW s \in Seq(T), NEW x \in T, NEW r \in Seq(T), NEW u, u = Append(s, x) \o r
  PROVE  /\ u \in Seq(T) /\ Len(s) \in Nat /\ Len(r) \in Nat
         /\ Len(u) = Len(s) + 1 + Len(r) /\ DOMAIN u = 1 .. Len(s) + 1 + Len(r)
         /\ u[Len(s) + 1] = x /\ \A i \in 1 .. Len(s) : u[i] = s[i]
<1>1. PICK t : t = Append(s, x)
  OBVIOUS
<1>2. /\ t \in Seq(T) /\ Len(t) = Len(s) + 1 /\ t[Len(s) + 1] = x
      /\ \A i \in 1 .. Len(s) : t[i] = s[i]
  BY <1>1, AppendProperties
<1>3. u = t \o r
  BY <1>1
<1>4. /\ u \in Seq(T) /\ Len(u) = Len(t) + Len(r)
      /\ \A i \in 1 .. Len(t) + Len(r) : u[i] = IF i <= Len(t) THEN t[i] ELSE r[i - Len(t)]
  <2>1. t \in Seq(T)
    BY <1>2
  <2>2. /\ t \o r \in Seq(T) /\ Len(t \o r) = Len(t) + Len(r)
        /\ \A i \in 1 .. Len(t) + Len(r) : (t \o r)[i] = IF i <= Len(t) THEN t[i] ELSE r[i - Len(t)]
    BY <2>1, ConcatProperties
  <2>3. QED
    BY <1>3, <2>2
<1>5. Len(s) \in Nat /\ Len(r) \in Nat
  BY LenProperties
<1>6. \A i \in 1 .. Len(s) + 1 : u[i] = t[i]
  <2> TAKE i \in 1 .. Len(s) + 1
  <2>1. i \in 1 .. Len(t) + Len(r) /\ i <= Len(t)
    BY <1>2, <1>5
  <2>2. QED
    BY <1>4, <2>1
<1>7. /\ Len(s) + 1 \in 1 .. Len(s) + 1 /\ \A i \in 1 .. Len(s) : i \in 1 .. Len(s) + 1
  BY <1>5
<1>8. Len(u) = Len(s) + 1 + Len(r)
  BY <1>2, <1>4, <1>5
<1>9. DOMAIN u = 1 .. Len(u)
  BY <1>4, LenProperties
<1>10. QED
  BY <1>2, <1>4, <1>5, <1>6, <1>7, <1>8, <1>9

-----------------------------------------------------------------------------
(* Nodes and items. *)

(* A string and its 0 fit, if the page never sorts.                        *)
Honest(n) == n.alloc <= n.room /\ (n.alloc # 0 => Size(n.val) < n.room)

Node == {n \in [key : Keys, val : Vals, alloc : Nat, room : Nat] : Without({"sorts"}) => Honest(n)}

(* What is assigned: the items of another array, or of this one.           *)
IsItems(b) ==
  /\ Len(b) \in Nat \ {0} /\ DOMAIN b = 1 .. Len(b)
  /\ \A i \in DOMAIN b : b[i].key \in Keys /\ b[i].val \in Vals

LEMMA OthersAreItems == \A b \in Others : IsItems(b)
<1> SUFFICES ASSUME NEW b \in Others
             PROVE  IsItems(b)
  OBVIOUS
<1>1. PICK n \in Long : b \in [1..n -> Items]
  BY ArraysAssumption
<1>2. n \in Nat \ {0}
  BY ArraysAssumption DEF Long
<1>3. b \in Seq(Items) /\ Len(b) = n
  BY <1>1, <1>2
<1>4. QED
  BY <1>1, <1>2, <1>3 DEF IsItems, Items

(* A new node has the room it believes to have.                            *)
LEMMA FreshNode ==
  ASSUME NEW k \in Keys, NEW v \in Vals
  PROVE  Fresh(k, v) \in Node /\ Fresh(k, v).key = k /\ Fresh(k, v).val = v
<1>1. Size(v) \in Nat
  BY ArraysAssumption
<1>2. QED
  BY <1>1 DEF Fresh, Node, Honest

(* A value is stored in the memory of a node only if it fits.              *)
LEMMA StoredNode ==
  ASSUME NEW n \in Node, NEW v \in Vals
  PROVE  Store(n, v) \in Node /\ Store(n, v).key = n.key /\ Store(n, v).val = v
<1>1. n.key \in Keys /\ n.alloc \in Nat /\ n.room \in Nat /\ Size(v) \in Nat
      /\ n \in [key : Keys, val : Vals, alloc : Nat, room : Nat]
  BY ArraysAssumption DEF Node
<1>2. CASE Size(v) >= n.alloc
  BY <1>1, <1>2, FreshNode DEF Store
<1>3. CASE ~(Size(v) >= n.alloc)
  <2>1. Store(n, v) = [n EXCEPT !.val = v]
    BY <1>3 DEF Store
  <2>2. Without({"sorts"}) => n.alloc <= n.room /\ Size(v) < n.room
    BY <1>1, <1>3 DEF Node, Honest
  <2>3. QED
    BY <1>1, <2>1, <2>2 DEF Node, Honest
<1>4. QED
  BY <1>2, <1>3

(* The copies of all items but the first.                                  *)
LEMMA Copied ==
  ASSUME NEW b, IsItems(b)
  PROVE  /\ Copies(b) \in Seq(Node) /\ Len(Copies(b)) = Len(b) - 1
         /\ \A i \in 1 .. Len(b) - 1 : Copies(b)[i].key = b[i + 1].key /\ Copies(b)[i].val = b[i + 1].val
<1>1. Len(b) - 1 \in Nat /\ \A i \in 1 .. Len(b) - 1 : i + 1 \in DOMAIN b
  BY DEF IsItems
<1>2. \A i \in 1 .. Len(b) - 1 : b[i + 1].key \in Keys /\ b[i + 1].val \in Vals
  BY <1>1 DEF IsItems
<1>3. Copies(b) = [i \in 1 .. Len(b) - 1 |-> Fresh(b[i + 1].key, b[i + 1].val)]
  BY DEF Copies
<1>4. \A i \in 1 .. Len(b) - 1 :
        /\ Fresh(b[i + 1].key, b[i + 1].val) \in Node
        /\ Fresh(b[i + 1].key, b[i + 1].val).key = b[i + 1].key
        /\ Fresh(b[i + 1].key, b[i + 1].val).val = b[i + 1].val
  BY <1>2, FreshNode
<1>5. \A i \in 1 .. Len(b) - 1 : Copies(b)[i] = Fresh(b[i + 1].key, b[i + 1].val)
  BY <1>3
<1>6. Copies(b) \in [1 .. Len(b) - 1 -> Node]
  BY <1>3, <1>4
<1>7. Copies(b) \in Seq(Node) /\ Len(Copies(b)) = Len(b) - 1
  BY <1>1, <1>6
<1>8. QED
  BY <1>4, <1>5, <1>7

-----------------------------------------------------------------------------
(* The inductive invariant. *)

Chain ==
  /\ nodes \in Seq(Node) /\ Len(nodes) <= MaxLen
  /\ count \in 0 .. MaxCount
  /\ last \in 0 .. Len(nodes) /\ (Exists => last >= 1)

(* A variable that is not set has its cursor before the first item: only   *)
(* one that is set can be moved over, and unset puts it back.              *)
Cursor ==
  /\ cur \in Int /\ cur >= -1
  /\ stale \in Seq(Node) /\ Len(stale) < MaxLen
  /\ stale = <<>> => cur <= Len(nodes)
  /\ stale # <<>> => cur \in 2 .. Len(stale) + 1
  /\ ~Defined => cur = 0 /\ stale = <<>>
  /\ Without({"refill"}) => stale = <<>>

Marks ==
  /\ deleted \in BOOLEAN /\ hung \in BOOLEAN
  /\ kind \in {"number", "string"} /\ habits \in Pages

(* If arrays are assigned to fresh variables only and never to items.      *)
Counts == Without({"refill", "nest"}) /\ Exists => count = Len(nodes) /\ last = Len(nodes)

IInv == Chain /\ Cursor /\ Marks /\ Counts
-----------------------------------------------------------------------------
(* What the parts of the invariant give to every step. *)

LEMMA NodeStays ==
  ASSUME habits' = habits
  PROVE  Node' = Node /\ \A H : Without(H)' = Without(H)
BY DEF Node, Without, Honest

LEMMA Shape ==
  ASSUME Chain
  PROVE  /\ Len(nodes) \in Nat /\ DOMAIN nodes = 1 .. Len(nodes)
         /\ Exists <=> Len(nodes) >= 1
         /\ \A i \in DOMAIN nodes : nodes[i] \in Node /\ nodes[i].key \in Keys /\ nodes[i].val \in Vals
<1>1. Len(nodes) \in Nat /\ DOMAIN nodes = 1 .. Len(nodes) /\ nodes \in Seq(Node)
  BY LenProperties DEF Chain
<1>2. Exists <=> Len(nodes) >= 1
  BY <1>1, EmptySeq DEF Exists
<1>3. \A i \in DOMAIN nodes : nodes[i] \in Node
  BY <1>1, ElementOfSeq
<1>4. QED
  BY <1>1, <1>2, <1>3 DEF Node

(* Nodes are added only where there is room for one, so the number that    *)
(* gives the key of an item without one is small.                          *)
LEMMA RoomLeft ==
  ASSUME Chain, NEW x, NEW r \in Seq(Node), Len(Append(nodes, x) \o r) <= MaxLen
  PROVE  Len(nodes) \in 0 .. MaxLen - 1
<1> DEFINE T == Node \union {x}
<1>1. nodes \in Seq(T) /\ r \in Seq(T) /\ x \in T
  BY SeqMonotonic DEF Chain
<1>2. PICK u : u = Append(nodes, x) \o r
  OBVIOUS
<1>3. Len(nodes) \in Nat /\ Len(r) \in Nat /\ Len(u) = Len(nodes) + 1 + Len(r)
  <2> HIDE DEF T
  <2>1. QED
    BY <1>1, <1>2, Grown
<1>4. Len(u) <= MaxLen
  BY <1>2
<1>5. QED
  BY <1>3, <1>4, ArraysAssumption

(* The value of one node is replaced.                                      *)
LEMMA Stored ==
  ASSUME Chain, NEW i \in DOMAIN nodes, NEW v \in Vals, NEW u, u = StoreAt(i, v)
  PROVE  /\ u \in Seq(Node) /\ Len(u) = Len(nodes) /\ DOMAIN u = DOMAIN nodes
         /\ u[i].key = nodes[i].key /\ u[i].val = v
         /\ \A j \in DOMAIN nodes : j # i => u[j] = nodes[j]
<1>1. nodes \in Seq(Node) /\ i \in 1 .. Len(nodes) /\ nodes[i] \in Node
  BY Shape DEF Chain
<1>2. PICK e : e = Store(nodes[i], v)
  OBVIOUS
<1>3. e \in Node /\ e.key = nodes[i].key /\ e.val = v
  BY <1>1, <1>2, StoredNode
<1>4. u = [nodes EXCEPT ![i] = e]
  BY <1>2 DEF StoreAt
<1>5. /\ u \in Seq(Node) /\ Len(u) = Len(nodes)
      /\ \A j \in 1 .. Len(nodes) : u[j] = IF j = i THEN e ELSE nodes[j]
  BY <1>1, <1>3, <1>4, ExceptSeq
<1>6. DOMAIN u = 1 .. Len(u) /\ DOMAIN nodes = 1 .. Len(nodes)
  BY <1>5, Shape, LenProperties
<1>7. QED
  BY <1>1, <1>3, <1>5, <1>6

(* The chain gets longer or keeps its length, the cursor stays.            *)
LEMMA CursorStays ==
  ASSUME Chain, Cursor, Chain', Exists', ~Defined' => ~Defined,
         Defined => Len(nodes') >= Len(nodes),
         UNCHANGED <<cur, stale, habits>>
  PROVE  Cursor'
<1>1. Len(nodes) \in Nat /\ Len(nodes') \in Nat
  BY Shape, LenProperties DEF Chain
<1>2. Node' = Node /\ Without({"refill"})' = Without({"refill"})
  BY NodeStays
<1>3. stale = <<>> => cur <= Len(nodes')
  <2>1. CASE Defined
    BY <2>1, <1>1 DEF Cursor
  <2>2. CASE ~Defined
    BY <2>2, <1>1 DEF Cursor
  <2>3. QED
    BY <2>1, <2>2
<1>4. QED
  BY <1>2, <1>3 DEF Cursor

-----------------------------------------------------------------------------
(* A value or an array is assigned. *)

(* The new chain, from the array and the first node.                       *)
LEMMA AssignChain ==
  ASSUME Chain, NEW b, IsItems(b), Assign(b)
  PROVE  /\ nodes' \in Seq(Node) /\ nodes'[1].val = b[1].val
         /\ nodes'[1].key = IF Exists THEN nodes[1].key ELSE First
         /\ Len(b) > 1 => /\ Len(nodes') = Len(b)
                          /\ \A i \in 2 .. Len(b) : nodes'[i].key = b[i].key /\ nodes'[i].val = b[i].val
         /\ ~(Len(b) > 1) =>
              /\ Len(nodes') = IF Exists THEN Len(nodes) ELSE 1
              /\ \A i \in 2 .. Len(nodes) : Exists => nodes'[i] = nodes[i]
<1> DEFINE head == IF Exists THEN Store(nodes[1], b[1].val) ELSE Fresh(First, b[1].val)
           rest == IF Len(b) > 1 THEN Copies(b) ELSE IF Exists THEN Tail(nodes) ELSE <<>>
<1>1. nodes' = <<head>> \o rest
  BY DEF Assign
<1>2. b[1].val \in Vals /\ Len(b) \in Nat \ {0}
  BY DEF IsItems
<1>3. Exists => 1 \in DOMAIN nodes /\ nodes[1] \in Node
  BY Shape
<1>4. head \in Node /\ head.val = b[1].val /\ head.key = IF Exists THEN nodes[1].key ELSE First
  <2>1. CASE Exists
    BY <2>1, <1>2, <1>3, StoredNode
  <2>2. CASE ~Exists
    BY <2>2, <1>2, FreshNode, ArraysAssumption
  <2>3. QED
    BY <2>1, <2>2
<1>5. /\ rest \in Seq(Node)
      /\ Len(b) > 1 => /\ Len(rest) = Len(b) - 1
                       /\ \A i \in 1 .. Len(b) - 1 : rest[i].key = b[i + 1].key /\ rest[i].val = b[i + 1].val
      /\ ~(Len(b) > 1) /\ Exists => /\ Len(rest) = Len(nodes) - 1
                                    /\ \A i \in 1 .. Len(nodes) - 1 : rest[i] = nodes[i + 1]
      /\ ~(Len(b) > 1) /\ ~Exists => Len(rest) = 0
  <2>1. CASE Len(b) > 1
    BY <2>1, Copied
  <2>2. CASE ~(Len(b) > 1) /\ Exists
    <3>1. rest = Tail(nodes) /\ nodes \in Seq(Node) /\ nodes # <<>>
      BY <2>2 DEF Exists, Chain
    <3>2. /\ Tail(nodes) \in Seq(Node) /\ Len(Tail(nodes)) = Len(nodes) - 1
          /\ \A i \in 1 .. Len(Tail(nodes)) : Tail(nodes)[i] = nodes[i + 1]
      BY <3>1, HeadTailProperties
    <3>3. QED
      BY <2>2, <3>1, <3>2
  <2>3. CASE ~(Len(b) > 1) /\ ~Exists
    <3>1. rest = <<>>
      BY <2>3
    <3>2. QED
      BY <2>3, <3>1, EmptySeq
  <2>4. QED
    BY <2>1, <2>2, <2>3
<1> HIDE DEF head, rest
<1>6. PICK u : u = nodes'
  OBVIOUS
<1>7. /\ u \in Seq(Node) /\ Len(u) = 1 + Len(rest) /\ Len(rest) \in Nat
      /\ u[1] = head /\ \A i \in 1 .. Len(rest) : u[i + 1] = rest[i]
  BY <1>1, <1>4, <1>5, <1>6, Headed
<1>8. Len(nodes) \in Nat
  BY Shape
<1>9. Len(b) > 1 => /\ Len(u) = Len(b)
                    /\ \A i \in 2 .. Len(b) : u[i].key = b[i].key /\ u[i].val = b[i].val
  <2> SUFFICES ASSUME Len(b) > 1
               PROVE  /\ Len(u) = Len(b)
                      /\ \A i \in 2 .. Len(b) : u[i].key = b[i].key /\ u[i].val = b[i].val
    OBVIOUS
  <2>1. Len(u) = Len(b) /\ Len(rest) = Len(b) - 1
    BY <1>2, <1>5, <1>7
  <2>2. ASSUME NEW i \in 2 .. Len(b)
        PROVE  u[i].key = b[i].key /\ u[i].val = b[i].val
    <3>1. PICK j : j = i - 1
      OBVIOUS
    <3>2. j \in 1 .. Len(b) - 1 /\ j + 1 = i
      BY <3>1, <1>2
    <3>3. u[j + 1] = rest[j] /\ rest[j].key = b[j + 1].key /\ rest[j].val = b[j + 1].val
      BY <3>2, <2>1, <1>5, <1>7
    <3>4. QED
      BY <3>2, <3>3
  <2>3. QED
    BY <2>1, <2>2
<1>10. ~(Len(b) > 1) => /\ Len(u) = IF Exists THEN Len(nodes) ELSE 1
                        /\ \A i \in 2 .. Len(nodes) : Exists => u[i] = nodes[i]
  <2> SUFFICES ASSUME ~(Len(b) > 1)
               PROVE  /\ Len(u) = IF Exists THEN Len(nodes) ELSE 1
                      /\ \A i \in 2 .. Len(nodes) : Exists => u[i] = nodes[i]
    OBVIOUS
  <2>1. Len(u) = IF Exists THEN Len(nodes) ELSE 1
    BY <1>5, <1>7, <1>8
  <2>2. ASSUME NEW i \in 2 .. Len(nodes), Exists
        PROVE  u[i] = nodes[i]
    <3>1. PICK j : j = i - 1
      OBVIOUS
    <3>2. j \in 1 .. Len(nodes) - 1 /\ j + 1 = i /\ Len(rest) = Len(nodes) - 1
      BY <3>1, <2>2, <1>5, <1>8
    <3>3. u[j + 1] = rest[j] /\ rest[j] = nodes[j + 1]
      BY <3>2, <2>2, <1>5, <1>7
    <3>4. QED
      BY <3>2, <3>3
  <2>3. QED
    BY <2>1, <2>2
<1>11. QED
  BY <1>4, <1>6, <1>7, <1>9, <1>10

LEMMA AssignKeeps ==
  ASSUME IInv, NEW b, IsItems(b), Assign(b)
  PROVE  IInv'
<1> USE DEF IInv
<1>1. PICK n : n = Len(nodes)
  OBVIOUS
<1>2. PICK m : m = Len(b)
  OBVIOUS
<1>3. PICK w : w = Len(nodes')
  OBVIOUS
<1>4. n \in Nat /\ (Exists <=> n >= 1) /\ m \in Nat \ {0}
  BY <1>1, <1>2, Shape DEF IsItems
<1>5. /\ nodes' \in Seq(Node) /\ (m > 1 => w = m)
      /\ (~(m > 1) => w = IF Exists THEN n ELSE 1)
  BY <1>1, <1>2, <1>3, AssignChain
<1>6. w \in Nat \ {0} /\ w <= MaxLen
  BY <1>3, <1>4, <1>5 DEF Assign, Bounded
<1>7. Exists'
  BY <1>3, <1>5, <1>6, EmptySeq DEF Exists
<1>8. Node' = Node /\ \A H : Without(H)' = Without(H)
  BY NodeStays DEF Assign
<1>9. count' \in 0 .. MaxCount
  <2>1. count' = (IF Exists THEN count ELSE 1) + m - 1 /\ count' <= MaxCount
    BY <1>2 DEF Assign, Bounded
  <2>2. QED
    BY <2>1, <1>4, ArraysAssumption DEF Chain
<1>10. last' \in 1 .. w
  <2>1. last' = IF m > 1 \/ ~Exists THEN m ELSE last
    BY <1>2 DEF Assign
  <2>2. last \in 0 .. n /\ (Exists => last >= 1)
    BY <1>1 DEF Chain
  <2>3. QED
    BY <2>1, <2>2, <1>4, <1>5
<1>11. Chain'
  BY <1>3, <1>5, <1>6, <1>8, <1>9, <1>10 DEF Chain
<1>12. Marks'
  BY DEF Assign, Marks
<1>13. Counts'
  <2> SUFFICES ASSUME Without({"refill", "nest"})
               PROVE  count' = w /\ last' = w
    BY <1>3, <1>8 DEF Counts
  <2>1. Exists => count = n /\ last = n
    BY <1>1 DEF Counts
  <2>2. ~(m > 1 /\ n > 1)
    BY <1>1, <1>2 DEF Assign, Without
  <2>3. count' = (IF Exists THEN count ELSE 1) + m - 1 /\ last' = IF m > 1 \/ ~Exists THEN m ELSE last
    BY <1>2 DEF Assign
  <2>4. QED
    BY <2>1, <2>2, <2>3, <1>4, <1>5
<1>14. Defined'
  BY <1>7 DEF Assign, Defined
<1>15. Cursor'
  <2>1. cur' = cur
    BY DEF Assign
  <2>2. CASE ~(m > 1 /\ cur >= 2 /\ stale = <<>>)
    <3>1. stale' = stale
      BY <2>2, <1>2 DEF Assign, CutBehindFirst
    <3>2. stale = <<>> => cur <= w
      <4>1. CASE m > 1
        BY <4>1, <2>2, <1>6 DEF Cursor
      <4>2. CASE ~(m > 1) /\ Exists
        BY <4>2, <1>1, <1>5 DEF Cursor
      <4>3. CASE ~Exists
        BY <4>3, <1>6 DEF Cursor, Defined
      <4>4. QED
        BY <4>1, <4>2, <4>3
    <3>3. QED
      BY <1>3, <1>8, <1>14, <2>1, <3>1, <3>2 DEF Cursor
  <2>3. CASE m > 1 /\ cur >= 2 /\ stale = <<>>
    <3>1. cur <= n /\ cur \in Int /\ n >= 2 /\ n <= MaxLen
      BY <2>3, <1>1, <1>4 DEF Cursor, Chain
    <3>2. stale' = Tail(nodes)
      <4>1. Len(b) > 1
        BY <2>3, <1>2
      <4>2. CutBehindFirst
        BY <4>1 DEF Assign
      <4>3. QED
        BY <2>3, <4>2 DEF CutBehindFirst
    <3>3. nodes \in Seq(Node) /\ nodes # <<>>
      BY <3>1, <1>1, <1>4 DEF Chain, Exists
    <3>4. PICK t : t = Tail(nodes)
      OBVIOUS
    <3>5. t \in Seq(Node) /\ Len(t) = n - 1
      <4>1. Tail(nodes) \in Seq(Node) /\ Len(Tail(nodes)) = Len(nodes) - 1
        BY <3>3, HeadTailProperties
      <4>2. QED
        BY <4>1, <3>4, <1>1
    <3>6. t # <<>>
      BY <3>1, <3>5, <1>4, EmptySeq
    <3>7. ~Without({"refill"})
      BY <2>3, <3>1, <1>1, <1>2 DEF Assign, Without
    <3>8. Len(t) < MaxLen /\ cur \in 2 .. Len(t) + 1
      BY <2>3, <3>1, <3>5, <1>4, ArraysAssumption
    <3>9. stale' = t
      BY <3>2, <3>4
    <3>10. cur >= -1
      BY <2>3, <3>1
    <3>11. QED
      BY <1>8, <1>14, <2>1, <3>1, <3>5, <3>6, <3>7, <3>8, <3>9, <3>10 DEF Cursor
  <2>4. QED
    BY <2>2, <2>3
<1>16. QED
  BY <1>11, <1>12, <1>13, <1>15
-----------------------------------------------------------------------------
(* Items are added and changed: the chain does not get shorter and the     *)
(* cursor stays.                                                           *)

LEMMA ItemsKeep ==
  ASSUME IInv, nodes' \in Seq(Node), Len(nodes') \in 1 .. MaxLen, count' \in 0 .. MaxCount,
         last' \in 1 .. Len(nodes'), deleted' \in BOOLEAN, deleted' => ~Defined,
         Defined => Len(nodes') >= Len(nodes), UNCHANGED <<cur, stale, kind, hung, habits>>,
         Without({"refill", "nest"}) => count' = Len(nodes') /\ last' = Len(nodes')
  PROVE  IInv'
<1>1. Node' = Node /\ \A H : Without(H)' = Without(H)
  BY NodeStays
<1>2. Exists'
  BY EmptySeq DEF Exists
<1>3. Chain'
  BY <1>1 DEF Chain
<1>4. Cursor'
  <2>1. ~Defined' => ~Defined
    BY <1>2 DEF Defined
  <2>2. QED
    BY <1>2, <1>3, <2>1, CursorStays DEF IInv
<1>5. Marks'
  BY DEF IInv, Marks
<1>6. Counts'
  BY <1>1 DEF Counts
<1>7. QED
  BY <1>3, <1>4, <1>5, <1>6 DEF IInv

LEMMA AddedChain ==
  ASSUME Chain, NEW k \in Keys, NEW b, IsItems(b), AddNodes(k, b)
  PROVE  /\ nodes' \in Seq(Node) /\ Len(nodes') = Len(nodes) + Len(b) /\ last' = Len(nodes) + 1
         /\ nodes'[Len(nodes) + 1].key = k /\ nodes'[Len(nodes) + 1].val = b[1].val
         /\ \A i \in DOMAIN nodes : nodes'[i] = nodes[i]
<1>1. b[1].val \in Vals /\ Len(b) \in Nat \ {0}
  BY DEF IsItems
<1>2. PICK x : x = Fresh(k, b[1].val)
  OBVIOUS
<1>3. x \in Node /\ x.key = k /\ x.val = b[1].val
  BY <1>1, <1>2, FreshNode
<1>4. PICK r : r = Copies(b)
  OBVIOUS
<1>5. r \in Seq(Node) /\ Len(r) = Len(b) - 1
  BY <1>4, Copied
<1>6. PICK u : u = nodes'
  OBVIOUS
<1>7. u = Append(nodes, x) \o r /\ last' = Len(nodes) + 1
  BY <1>2, <1>4, <1>6 DEF AddNodes
<1>8. nodes \in Seq(Node)
  BY DEF Chain
<1>9. /\ u \in Seq(Node) /\ Len(u) = Len(nodes) + 1 + Len(r) /\ Len(nodes) \in Nat
      /\ u[Len(nodes) + 1] = x /\ \A i \in 1 .. Len(nodes) : u[i] = nodes[i]
  <2>1. x \in Node /\ r \in Seq(Node) /\ u = Append(nodes, x) \o r
    BY <1>3, <1>5, <1>7
  <2>2. /\ u \in Seq(Node) /\ Len(nodes) \in Nat /\ Len(u) = Len(nodes) + 1 + Len(r)
        /\ u[Len(nodes) + 1] = x /\ \A i \in 1 .. Len(nodes) : u[i] = nodes[i]
    <3>1. PICK s : s = nodes
      OBVIOUS
    <3>2. PICK T : T = Node
      OBVIOUS
    <3>3. s \in Seq(T) /\ x \in T /\ r \in Seq(T) /\ u = Append(s, x) \o r
      BY <1>8, <2>1, <3>1, <3>2
    <3>4. /\ u \in Seq(T) /\ Len(s) \in Nat /\ Len(u) = Len(s) + 1 + Len(r)
          /\ u[Len(s) + 1] = x /\ \A i \in 1 .. Len(s) : u[i] = s[i]
      BY <3>3, Grown
    <3>5. QED
      BY <3>1, <3>2, <3>4
  <2>3. QED
    BY <2>2
<1>10. Len(u) = Len(nodes) + Len(b)
  BY <1>1, <1>5, <1>9
<1>11. QED
  BY <1>3, <1>6, <1>7, <1>9, <1>10, Shape

LEMMA FirstChain ==
  ASSUME NEW k \in Keys, NEW b, IsItems(b), nodes' = <<Fresh(k, b[1].val)>> \o Copies(b)
  PROVE  /\ nodes' \in Seq(Node) /\ Len(nodes') = Len(b)
         /\ nodes'[1].key = k /\ nodes'[1].val = b[1].val
<1>1. b[1].val \in Vals /\ Len(b) \in Nat \ {0}
  BY DEF IsItems
<1>2. PICK x : x = Fresh(k, b[1].val)
  OBVIOUS
<1>3. x \in Node /\ x.key = k /\ x.val = b[1].val
  BY <1>1, <1>2, FreshNode
<1>4. PICK r : r = Copies(b)
  OBVIOUS
<1>5. r \in Seq(Node) /\ Len(r) = Len(b) - 1
  BY <1>4, Copied
<1>6. PICK u : u = nodes'
  OBVIOUS
<1>7. u = <<x>> \o r
  BY <1>2, <1>4, <1>6
<1>8. u \in Seq(Node) /\ Len(u) = 1 + Len(r) /\ u[1] = x
  BY <1>3, <1>5, <1>7, Headed
<1>9. QED
  BY <1>1, <1>3, <1>5, <1>6, <1>8

LEMMA OneNode ==
  ASSUME NEW k \in Keys, NEW v \in Vals, nodes' = <<Fresh(k, v)>>
  PROVE  /\ nodes' \in Seq(Node) /\ Len(nodes') = 1
         /\ nodes'[1].key = k /\ nodes'[1].val = v
<1>1. PICK x : x = Fresh(k, v)
  OBVIOUS
<1>2. x \in Node /\ x.key = k /\ x.val = v
  BY <1>1, FreshNode
<1>3. <<x>> \in Seq(Node) /\ Len(<<x>>) = 1 /\ <<x>>[1] = x
  BY <1>2
<1>4. nodes' = <<x>>
  BY <1>1
<1>5. QED
  BY <1>2, <1>3, <1>4

LEMMA AppendKeeps ==
  ASSUME IInv, NEW b \in Others, AppendItem(b)
  PROVE  IInv'
<1>1. IsItems(b) /\ Len(b) \in Nat \ {0} /\ Chain
  BY OthersAreItems DEF IsItems, IInv
<1>2. PICK n : n = Len(nodes)
  OBVIOUS
<1>3. PICK m : m = Len(b)
  OBVIOUS
<1>4. PICK w : w = Len(nodes')
  OBVIOUS
<1>5. n \in Nat /\ m \in Nat \ {0} /\ w <= MaxLen /\ count' <= MaxCount /\ count \in Nat
  BY <1>1, <1>2, <1>3, <1>4, Shape DEF AppendItem, Bounded, Chain
<1>6. Without({"refill", "nest"}) => m = 1
  BY <1>3, <1>5 DEF AppendItem, Without
<1>7. CASE Defined
  <2>1. AddNodes(KeyOf(n), b) /\ count' = count + 1
    BY <1>2, <1>7 DEF AppendItem
  <2>2. KeyOf(n) \in Keys
    <3>1. PICK x : x = Fresh(KeyOf(n), b[1].val)
      OBVIOUS
    <3>2. nodes' = Append(nodes, x) \o Copies(b)
      BY <2>1, <3>1 DEF AddNodes
    <3>3. Len(Append(nodes, x) \o Copies(b)) <= MaxLen /\ Copies(b) \in Seq(Node)
      BY <1>1, <1>4, <1>5, <3>2, Copied
    <3>4. n \in 0 .. MaxLen - 1
      BY <1>1, <1>2, <3>3, RoomLeft
    <3>5. QED
      BY <3>4, ArraysAssumption
  <2>3. nodes' \in Seq(Node) /\ w = n + m /\ last' = n + 1
    BY <1>1, <1>2, <1>3, <1>4, <2>1, <2>2, AddedChain
  <2>4. Without({"refill", "nest"}) => count = n
    BY <1>2, <1>7 DEF IInv, Counts, Defined
  <2>5. /\ w \in 1 .. MaxLen /\ count' \in 0 .. MaxCount /\ last' \in 1 .. w /\ w >= n
        /\ Without({"refill", "nest"}) => count' = w /\ last' = w
    BY <1>5, <1>6, <2>1, <2>3, <2>4, ArraysAssumption
  <2>6. QED
    BY <1>2, <1>4, <2>3, <2>5, ItemsKeep DEF AppendItem
<1>8. CASE ~Defined
  <2>1. nodes' = <<Fresh(First, b[1].val)>> \o Copies(b) /\ count' = m /\ last' = m
    BY <1>3, <1>8 DEF AppendItem
  <2>2. nodes' \in Seq(Node) /\ w = m
    BY <1>1, <1>3, <1>4, <2>1, FirstChain, ArraysAssumption
  <2>3. w \in 1 .. MaxLen /\ count' \in 0 .. MaxCount /\ last' \in 1 .. w /\ count' = w /\ last' = w
    BY <1>5, <2>1, <2>2, ArraysAssumption
  <2>4. QED
    BY <1>4, <1>8, <2>2, <2>3, ItemsKeep DEF AppendItem
<1>9. QED
  BY <1>7, <1>8

(* An item with a key of its own, at the end of the chain or by itself.    *)
LEMMA NewItemKeeps ==
  ASSUME IInv, NEW k \in Keys, NEW b, IsItems(b), Len(b) > 1 => "nest" \in habits,
         IF Exists THEN AddNodes(k, b) /\ count' = count + 1
         ELSE nodes' = <<Fresh(k, b[1].val)>> \o Copies(b) /\ count' = Len(b) /\ last' = Len(b),
         deleted' = deleted, Bounded, UNCHANGED <<cur, stale, kind, hung, habits>>
  PROVE  IInv'
<1>1. Chain /\ deleted \in BOOLEAN
  BY DEF IInv, Marks
<1>2. PICK n : n = Len(nodes)
  OBVIOUS
<1>3. PICK m : m = Len(b)
  OBVIOUS
<1>4. PICK w : w = Len(nodes')
  OBVIOUS
<1>5. n \in Nat /\ m \in Nat \ {0} /\ w <= MaxLen /\ count' <= MaxCount /\ count \in Nat
  BY <1>1, <1>2, <1>3, <1>4, Shape DEF IsItems, Bounded, Chain
<1>6. Without({"refill", "nest"}) => m = 1
  BY <1>3, <1>5 DEF Without
<1>7. deleted' \in BOOLEAN /\ (deleted' => ~Defined)
  BY <1>1 DEF Defined
<1>8. CASE Exists
  <2>1. AddNodes(k, b) /\ count' = count + 1
    BY <1>8
  <2>2. nodes' \in Seq(Node) /\ w = n + m /\ last' = n + 1
    BY <1>1, <1>2, <1>3, <1>4, <2>1, AddedChain
  <2>3. Without({"refill", "nest"}) => count = n
    BY <1>2, <1>8 DEF IInv, Counts
  <2>4. /\ w \in 1 .. MaxLen /\ count' \in 0 .. MaxCount /\ last' \in 1 .. w /\ w >= n
        /\ Without({"refill", "nest"}) => count' = w /\ last' = w
    BY <1>5, <1>6, <2>1, <2>2, <2>3, ArraysAssumption
  <2>5. QED
    BY <1>2, <1>4, <1>7, <2>2, <2>4, ItemsKeep
<1>9. CASE ~Exists
  <2>1. nodes' = <<Fresh(k, b[1].val)>> \o Copies(b) /\ count' = m /\ last' = m
    BY <1>3, <1>9
  <2>2. nodes' \in Seq(Node) /\ w = m
    BY <1>1, <1>3, <1>4, <2>1, FirstChain
  <2>3. w \in 1 .. MaxLen /\ count' \in 0 .. MaxCount /\ last' \in 1 .. w /\ count' = w /\ last' = w
    BY <1>5, <2>1, <2>2, ArraysAssumption
  <2>4. ~Defined
    BY <1>9 DEF Defined
  <2>5. QED
    BY <1>4, <1>7, <2>2, <2>3, <2>4, ItemsKeep
<1>10. QED
  BY <1>8, <1>9

(* The value of an item is replaced, or none is.                           *)
LEMMA StoredKeeps ==
  ASSUME IInv, nodes' = nodes \/ \E i \in DOMAIN nodes, v \in Vals : nodes' = StoreAt(i, v),
         Exists, UNCHANGED <<count, last, cur, stale, kind, hung, habits>>,
         deleted' \in BOOLEAN, deleted' => deleted
  PROVE  IInv'
<1>1. Chain /\ nodes \in Seq(Node)
  BY DEF IInv, Chain
<1>2. nodes' \in Seq(Node) /\ Len(nodes') = Len(nodes)
  <2>1. CASE nodes' = nodes
    BY <1>1, <2>1
  <2>2. CASE \E i \in DOMAIN nodes, v \in Vals : nodes' = StoreAt(i, v)
    <3>1. PICK i \in DOMAIN nodes, v \in Vals : nodes' = StoreAt(i, v)
      BY <2>2
    <3>2. QED
      BY <1>1, <3>1, Stored
  <2>3. QED
    BY <2>1, <2>2
<1>3. /\ Len(nodes') \in 1 .. MaxLen /\ count' \in 0 .. MaxCount
      /\ last' \in 1 .. Len(nodes') /\ Len(nodes') >= Len(nodes)
  BY <1>1, <1>2, Shape, ArraysAssumption DEF Chain
<1>4. Without({"refill", "nest"}) => count' = Len(nodes') /\ last' = Len(nodes')
  BY <1>2 DEF IInv, Counts
<1>5. deleted' => ~Defined
  BY DEF Defined
<1>6. QED
  BY <1>2, <1>3, <1>4, <1>5, ItemsKeep

LEMMA SetKeeps ==
  ASSUME IInv, NEW k \in Keys, NEW b \in Others, SetItem(k, b)
  PROVE  IInv'
<1>1. IsItems(b) /\ b[1].val \in Vals
  BY OthersAreItems DEF IsItems
<1>2. CASE Places(k) # {}
  <2>1. PICK i \in Places(k) :
          nodes' = StoreAt(i, b[1].val) /\ deleted' = (deleted /\ i # 1) /\ UNCHANGED <<count, last>>
    BY <1>2 DEF SetItem
  <2>2. i \in DOMAIN nodes /\ Exists
    BY <2>1 DEF Places, Exists
  <2>3. UNCHANGED <<cur, stale, kind, hung, habits>>
    BY DEF SetItem
  <2>4. nodes' = nodes \/ \E j \in DOMAIN nodes, v \in Vals : nodes' = StoreAt(j, v)
    BY <1>1, <2>1, <2>2
  <2>5. UNCHANGED <<count, last, cur, stale, kind, hung, habits>>
    BY <2>1, <2>3
  <2>6. deleted' \in BOOLEAN /\ (deleted' => deleted)
    BY <2>1
  <2>7. QED
    BY <2>2, <2>4, <2>5, <2>6, StoredKeeps
<1>3. CASE Places(k) = {}
  BY <1>1, <1>3, NewItemKeeps DEF SetItem
<1>4. QED
  BY <1>2, <1>3

LEMMA ModifyKeeps ==
  ASSUME IInv, NEW op \in Ops, NEW v \in Vals, Modify(op, v)
  PROVE  IInv'
<1>1. Chain /\ deleted \in BOOLEAN
  BY DEF IInv, Marks
<1>2. CASE Exists
  <2>1. 1 \in DOMAIN nodes /\ nodes[1].val \in Vals
    BY <1>1, <1>2, Shape
  <2>2. Apply(op, nodes[1].val, v) \in Vals
    BY <2>1, ArraysAssumption
  <2>3. nodes' = StoreAt(1, Apply(op, nodes[1].val, v)) /\ UNCHANGED <<count, last>>
    BY <1>2 DEF Modify
  <2>4. nodes' = nodes \/ \E j \in DOMAIN nodes, u \in Vals : nodes' = StoreAt(j, u)
    BY <2>1, <2>2, <2>3
  <2>5. UNCHANGED <<count, last, cur, stale, kind, hung, habits>> /\ deleted' = deleted
    BY <2>3 DEF Modify
  <2>6. QED
    BY <1>1, <1>2, <2>4, <2>5, StoredKeeps
<1>3. CASE ~Exists
  <2>1. nodes' = <<Fresh(First, v)>> /\ count' = 1 /\ last' = 1
    BY <1>3 DEF Modify
  <2>2. nodes' \in Seq(Node) /\ Len(nodes') = 1
    BY <2>1, OneNode, ArraysAssumption
  <2>3. Len(nodes') \in 1 .. MaxLen /\ count' \in 0 .. MaxCount /\ last' \in 1 .. Len(nodes')
    BY <2>1, <2>2, ArraysAssumption
  <2>4. ~Defined
    BY <1>3 DEF Defined
  <2>5. deleted' \in BOOLEAN /\ UNCHANGED <<cur, stale, kind, hung, habits>>
    BY <1>1 DEF Modify
  <2>6. QED
    BY <2>1, <2>2, <2>3, <2>4, <2>5, ItemsKeep
<1>4. QED
  BY <1>2, <1>3

LEMMA ModifyItemKeeps ==
  ASSUME IInv, NEW k \in Keys, NEW op \in Ops, NEW v \in Vals, ModifyItem(k, op, v)
  PROVE  IInv'
<1>1. Chain /\ deleted \in BOOLEAN
  BY DEF IInv, Marks
<1>2. UNCHANGED <<cur, stale, kind, hung, habits>> /\ deleted' = deleted /\ Bounded
  BY DEF ModifyItem
<1>3. CASE Places(k) # {}
  <2>1. PICK i \in Places(k) :
          /\ IF op \in {"&", "|"} THEN nodes' = nodes ELSE nodes' = StoreAt(i, Apply(op, nodes[i].val, v))
          /\ UNCHANGED <<count, last>>
    BY <1>3 DEF ModifyItem
  <2>2. i \in DOMAIN nodes /\ Exists /\ nodes[i].val \in Vals
    BY <1>1, <2>1, Shape DEF Places, Exists
  <2>3. Apply(op, nodes[i].val, v) \in Vals
    BY <2>2, ArraysAssumption
  <2>4. nodes' = nodes \/ \E j \in DOMAIN nodes, u \in Vals : nodes' = StoreAt(j, u)
    BY <2>1, <2>2, <2>3
  <2>5. UNCHANGED <<count, last, cur, stale, kind, hung, habits>>
    BY <1>2, <2>1
  <2>6. QED
    BY <1>1, <1>2, <2>2, <2>4, <2>5, StoredKeeps
<1>4. CASE Places(k) = {}
  <2>1. PICK b : b = <<[key |-> k, val |-> v]>>
    OBVIOUS
  <2>2. Len(b) = 1 /\ DOMAIN b = 1 .. 1 /\ b[1].key = k /\ b[1].val = v
    BY <2>1
  <2>3. IsItems(b)
    BY <2>2 DEF IsItems
  <2>4. CASE Exists
    <3>1. AddNodes(k, b) /\ count' = count + 1
      BY <1>4, <2>1, <2>4 DEF ModifyItem
    <3>2. Len(b) > 1 => "nest" \in habits
      BY <2>2
    <3>3. QED
      BY <1>2, <2>3, <2>4, <3>1, <3>2, NewItemKeeps
  <2>5. CASE ~Exists
    <3>1. nodes' = <<Fresh(k, v)>> /\ count' = 1 /\ last' = 1
      BY <1>4, <2>5 DEF ModifyItem
    <3>2. nodes' \in Seq(Node) /\ Len(nodes') = 1
      BY <3>1, OneNode
    <3>3. Len(nodes') \in 1 .. MaxLen /\ count' \in 0 .. MaxCount /\ last' \in 1 .. Len(nodes')
      BY <3>1, <3>2, ArraysAssumption
    <3>4. ~Defined
      BY <2>5 DEF Defined
    <3>5. QED
      BY <1>1, <1>2, <3>1, <3>2, <3>3, <3>4, ItemsKeep
  <2>6. QED
    BY <2>4, <2>5
<1>5. QED
  BY <1>3, <1>4

(* sort() permutes the values and what belongs to them, on pages that may. *)
LEMMA SortKeeps ==
  ASSUME IInv, Sort
  PROVE  IInv'
<1>1. Chain /\ deleted \in BOOLEAN /\ Exists
  BY DEF IInv, Marks, Sort, Defined
<1>2. PICK p \in [DOMAIN nodes -> DOMAIN nodes] :
        nodes' = [i \in DOMAIN nodes |-> [nodes[i] EXCEPT !.val = nodes[p[i]].val, !.room = nodes[p[i]].room]]
  BY DEF Sort
<1>3. Len(nodes) \in Nat /\ DOMAIN nodes = 1 .. Len(nodes) /\ ~Without({"sorts"})
  BY <1>1, Shape DEF Sort, Without
<1>4. ASSUME NEW i \in DOMAIN nodes
      PROVE  [nodes[i] EXCEPT !.val = nodes[p[i]].val, !.room = nodes[p[i]].room] \in Node
  <2>1. p[i] \in DOMAIN nodes
    BY <1>2
  <2>2. nodes[i] \in [key : Keys, val : Vals, alloc : Nat, room : Nat]
    BY <1>1, Shape DEF Node
  <2>3. nodes[p[i]] \in [key : Keys, val : Vals, alloc : Nat, room : Nat]
    BY <1>1, <2>1, Shape DEF Node
  <2>4. [nodes[i] EXCEPT !.val = nodes[p[i]].val, !.room = nodes[p[i]].room]
          \in [key : Keys, val : Vals, alloc : Nat, room : Nat]
    BY <2>2, <2>3
  <2>5. QED
    BY <1>3, <2>4 DEF Node
<1>5. nodes' \in [1 .. Len(nodes) -> Node]
  BY <1>2, <1>3, <1>4
<1>6. nodes' \in Seq(Node) /\ Len(nodes') = Len(nodes)
  BY <1>3, <1>5
<1>7. UNCHANGED <<count, last, cur, stale, deleted, kind, hung, habits>>
  BY DEF Sort
<1>8. /\ Len(nodes') \in 1 .. MaxLen /\ count' \in 0 .. MaxCount
      /\ last' \in 1 .. Len(nodes') /\ Len(nodes') >= Len(nodes)
  BY <1>1, <1>3, <1>6, <1>7, Shape, ArraysAssumption DEF Chain
<1>9. Without({"refill", "nest"}) => count' = Len(nodes') /\ last' = Len(nodes')
  BY <1>1, <1>6, <1>7 DEF IInv, Counts
<1>10. deleted' => ~Defined
  BY <1>7 DEF Defined
<1>11. QED
  BY <1>1, <1>6, <1>7, <1>8, <1>9, <1>10, ItemsKeep
-----------------------------------------------------------------------------
(* unset() and the functions that move the cursor. *)

LEMMA UnSetKeeps ==
  ASSUME IInv, UnSet
  PROVE  IInv'
<1>1. Chain /\ Exists /\ Marks
  BY DEF IInv, UnSet, Defined
<1>2. 1 \in DOMAIN nodes /\ nodes[1] \in Node
  BY <1>1, Shape
<1>3. PICK x : x = [nodes[1] EXCEPT !.alloc = 0, !.room = 0]
  OBVIOUS
<1>4. x \in Node
  <2>1. nodes[1] \in [key : Keys, val : Vals, alloc : Nat, room : Nat]
    BY <1>2 DEF Node
  <2>2. x \in [key : Keys, val : Vals, alloc : Nat, room : Nat] /\ x.alloc = 0 /\ x.room = 0
    BY <1>3, <2>1
  <2>3. Honest(x)
    BY <2>2 DEF Honest
  <2>4. QED
    BY <2>2, <2>3 DEF Node
<1>5. <<x>> \in Seq(Node) /\ Len(<<x>>) = 1
  BY <1>4
<1>6. nodes' = <<x>> /\ count' = 1 /\ last' = 1 /\ cur' = 0 /\ stale' = <<>> /\ deleted' = TRUE
  BY <1>3 DEF UnSet
<1>7. UNCHANGED <<kind, hung, habits>>
  BY DEF UnSet, fixed
<1>8. Node' = Node /\ \A H : Without(H)' = Without(H)
  BY <1>7, NodeStays
<1>9. nodes' \in Seq(Node) /\ Len(nodes') = 1
  BY <1>5, <1>6
<1>10. Chain'
  BY <1>6, <1>8, <1>9, ArraysAssumption DEF Chain
<1>11. Cursor'
  <2>1. <<>> \in Seq(Node) /\ Len(<<>>) = 0
    BY EmptySeq
  <2>2. QED
    BY <1>6, <1>8, <1>9, <2>1, ArraysAssumption DEF Cursor
<1>12. Marks'
  BY <1>1, <1>6, <1>7 DEF Marks
<1>13. Counts'
  BY <1>6, <1>9 DEF Counts
<1>14. QED
  BY <1>10, <1>11, <1>12, <1>13 DEF IInv

(* A place in the chain, or in the part of it that is cut off.             *)
LEMMA MoveKeeps ==
  ASSUME IInv, NEW place \in Int, NEW where, MoveTo(place, where), where = stale \/ where = <<>>,
         place >= -1, where = <<>> => place <= Len(nodes), where # <<>> => place <= Len(where) + 1
  PROVE  IInv'
<1>1. Chain /\ Cursor /\ Marks /\ Counts /\ Exists /\ Defined
  BY DEF IInv, MoveTo, Defined
<1>2. UNCHANGED <<nodes, count, last, deleted, kind, hung, habits>> /\ cur' = place
  BY DEF MoveTo, chain, fixed
<1>3. Node' = Node /\ \A H : Without(H)' = Without(H)
  BY <1>2, NodeStays
<1>4. stale' = IF place >= 2 THEN where ELSE <<>>
  BY DEF MoveTo
<1>5. Len(nodes) \in Nat /\ Len(nodes) >= 1
  BY <1>1, Shape
<1>6. <<>> \in Seq(Node) /\ Len(<<>>) = 0
  BY EmptySeq
<1>7. where \in Seq(Node) /\ Len(where) < MaxLen
  <2>1. CASE where = stale
    BY <1>1, <2>1 DEF Cursor
  <2>2. CASE where = <<>>
    BY <1>6, <2>2, ArraysAssumption
  <2>3. QED
    BY <2>1, <2>2
<1>8. stale' \in Seq(Node) /\ Len(stale') < MaxLen
  BY <1>4, <1>6, <1>7, ArraysAssumption
<1>9. stale' = <<>> => place <= Len(nodes)
  BY <1>4, <1>5
<1>10. stale' # <<>> => place \in 2 .. Len(stale') + 1
  BY <1>4, <1>7, LenProperties
<1>11. Without({"refill"}) => stale' = <<>>
  BY <1>1, <1>4 DEF Cursor
<1>12. Cursor'
  BY <1>1, <1>2, <1>3, <1>8, <1>9, <1>10, <1>11 DEF Cursor, Defined, Exists
<1>13. Chain'
  BY <1>1, <1>2, <1>3 DEF Chain, Exists
<1>14. Marks' /\ Counts'
  BY <1>1, <1>2, <1>3 DEF Marks, Counts, Exists
<1>15. QED
  BY <1>12, <1>13, <1>14 DEF IInv

LEMMA CursorKeeps ==
  ASSUME IInv, Reset \/ End \/ NextItem \/ PrevItem
  PROVE  IInv'
<1>1. Len(nodes) \in Nat /\ last \in 0 .. Len(nodes) /\ stale \in Seq(Node) /\ cur \in Int /\ cur >= -1
  BY Shape DEF IInv, Chain, Cursor
<1>2. Len(stale) \in Nat
  BY <1>1, LenProperties
<1>3. Exists /\ Defined => last >= 1 /\ Len(nodes) >= 1
  BY Shape DEF IInv, Chain
<1>4. stale = <<>> => cur <= Len(nodes)
  BY DEF IInv, Cursor
<1>5. stale # <<>> => cur \in 2 .. Len(stale) + 1
  BY DEF IInv, Cursor
<1>6. CASE Reset
  <2>1. MoveTo(0, <<>>) /\ 0 \in Int /\ 0 >= -1 /\ 0 <= Len(nodes)
    BY <1>1, <1>6 DEF Reset
  <2>2. QED
    BY <2>1, MoveKeeps
<1>7. CASE End
  <2>1. PICK place : place = last - 1
    OBVIOUS
  <2>2. MoveTo(place, <<>>)
    BY <1>7, <2>1 DEF End
  <2>3. place \in Int /\ place >= -1 /\ place <= Len(nodes)
    BY <1>1, <2>1
  <2>4. QED
    BY <2>2, <2>3, MoveKeeps
<1>8. CASE NextItem
  <2>1. PICK place : place = IF cur = -1 \/ cur = Behind THEN -1 ELSE cur + 1
    OBVIOUS
  <2>2. MoveTo(place, stale)
    BY <1>8, <2>1 DEF NextItem
  <2>3. place \in Int /\ place >= -1
    BY <1>1, <2>1
  <2>4. stale = <<>> => place <= Len(nodes)
    BY <1>1, <1>4, <2>1 DEF Behind
  <2>5. stale # <<>> => place <= Len(stale) + 1
    BY <1>1, <1>2, <1>5, <2>1 DEF Behind
  <2>6. QED
    BY <2>2, <2>3, <2>4, <2>5, MoveKeeps
<1>9. CASE PrevItem
  <2>1. PICK place : place = CASE cur = -1 -> last [] cur = 0 -> 0 [] OTHER -> cur - 1
    OBVIOUS
  <2>2. MoveTo(place, stale)
    BY <1>9, <2>1 DEF PrevItem
  <2>3. place = IF cur = -1 THEN last ELSE IF cur = 0 THEN 0 ELSE cur - 1
    BY <2>1
  <2>4. place \in Int /\ place >= -1
    BY <1>1, <2>3
  <2>5. stale = <<>> => place <= Len(nodes)
    BY <1>1, <1>4, <2>3
  <2>6. stale # <<>> => place <= Len(stale) + 1
    BY <1>1, <1>2, <1>5, <2>3
  <2>7. QED
    BY <2>2, <2>4, <2>5, <2>6, MoveKeeps
<1>10. QED
  BY <1>6, <1>7, <1>8, <1>9

-----------------------------------------------------------------------------
(* The chain and its cursor on any page. *)

LEMMA InitInvariant == Init => IInv
<1> SUFFICES ASSUME Init
             PROVE  IInv
  OBVIOUS
<1>1. <<>> \in Seq(Node) /\ Len(<<>>) = 0
  BY EmptySeq
<1>2. Chain /\ Cursor
  BY <1>1, ArraysAssumption DEF Init, Chain, Cursor, Exists
<1>3. Marks /\ Counts
  BY DEF Init, Marks, Counts, Exists
<1>4. QED
  BY <1>2, <1>3 DEF IInv

LEMMA NextInvariant ==
  ASSUME IInv, [Next]_vars
  PROVE  IInv'
<1>1. CASE AssignOther
  BY <1>1, AssignKeeps, OthersAreItems DEF AssignOther
<1>2. CASE AssignSelf
  <2>1. Len(nodes) \in Nat \ {0} /\ DOMAIN nodes = 1 .. Len(nodes)
    BY <1>2, Shape DEF IInv, AssignSelf, Defined
  <2>2. \A i \in DOMAIN nodes : nodes[i].key \in Keys /\ nodes[i].val \in Vals
    BY Shape DEF IInv
  <2>3. IsItems(nodes)
    BY <2>1, <2>2 DEF IsItems
  <2>4. QED
    BY <1>2, <2>3, AssignKeeps DEF AssignSelf
<1>3. CASE \E b \in Others : AppendItem(b)
  BY <1>3, AppendKeeps
<1>4. CASE AppendSelf
  <2>1. UNCHANGED <<nodes, count, last, cur, stale, deleted, kind, habits>> /\ hung' = TRUE
    BY <1>4 DEF AppendSelf
  <2>2. Node' = Node /\ \A H : Without(H)' = Without(H)
    BY <2>1, NodeStays
  <2>3. Chain' /\ Cursor' /\ Marks' /\ Counts'
    BY <2>1, <2>2 DEF IInv, Chain, Cursor, Marks, Counts, Exists, Defined
  <2>4. QED
    BY <2>3 DEF IInv
<1>5. CASE \E k \in Keys, b \in Others : SetItem(k, b)
  BY <1>5, SetKeeps
<1>6. CASE \E op \in Ops, v \in Vals : Modify(op, v)
  BY <1>6, ModifyKeeps
<1>7. CASE \E k \in Keys, op \in Ops, v \in Vals : ModifyItem(k, op, v)
  BY <1>7, ModifyItemKeeps
<1>8. CASE UnSet
  BY <1>8, UnSetKeeps
<1>9. CASE Reset \/ End \/ NextItem \/ PrevItem
  BY <1>9, CursorKeeps
<1>10. CASE Sort
  BY <1>10, SortKeeps
<1>11. CASE UNCHANGED vars
  <2>1. UNCHANGED <<nodes, count, last, cur, stale, deleted, kind, hung, habits>>
    BY <1>11 DEF vars
  <2>2. Node' = Node /\ \A H : Without(H)' = Without(H)
    BY <2>1, NodeStays
  <2>3. Chain' /\ Cursor' /\ Marks' /\ Counts'
    BY <2>1, <2>2 DEF IInv, Chain, Cursor, Marks, Counts, Exists, Defined
  <2>4. QED
    BY <2>3 DEF IInv
<1>12. QED
  BY <1>1, <1>2, <1>3, <1>4, <1>5, <1>6, <1>7, <1>8, <1>9, <1>10, <1>11 DEF Next

(* The chain is a sequence of nodes whose count and last node agree with   *)
(* it on pages without "refill" and "nest", and the cursor is on it or on  *)
(* the nodes that were cut off (var.c:66-850, 1036-1100, 1508-1563).       *)
THEOREM ArraysInvariant == Spec => []IInv
<1>1. Init => IInv
  BY InitInvariant
<1>2. IInv /\ [Next]_vars => IInv'
  BY NextInvariant
<1>3. QED
  BY <1>1, <1>2, PTL DEF Spec

LEMMA InvariantSound ==
  ASSUME IInv
  PROVE  ArraysInv /\ RoomHonest
<1>1. /\ Len(nodes) \in Nat /\ DOMAIN nodes = 1 .. Len(nodes) /\ Len(nodes) <= MaxLen
      /\ \A i \in DOMAIN nodes : nodes[i] \in Node
  BY Shape DEF IInv, Chain
<1>2. stale \in Seq(Node) /\ Len(stale) \in Nat
  BY LenProperties DEF IInv, Cursor
<1>3. NodesOK
  BY <1>1 DEF NodesOK, Node
<1>4. cur \in -1 .. MaxLen
  <2>1. CASE stale = <<>>
    BY <2>1, <1>1, ArraysAssumption DEF IInv, Cursor
  <2>2. CASE stale # <<>>
    <3>1. cur \in 2 .. Len(stale) + 1 /\ Len(stale) < MaxLen
      BY <2>2 DEF IInv, Cursor
    <3>2. QED
      BY <3>1, <1>2, ArraysAssumption
  <2>3. QED
    BY <2>1, <2>2
<1>5. TypeOK
  BY <1>1, <1>3, <1>4, ArraysAssumption DEF IInv, Chain, Cursor, Marks, TypeOK
<1>6. CursorInside
  BY DEF CursorInside, IInv, Cursor
<1>7. RoomHonest
  BY <1>1 DEF RoomHonest, Node, Honest
<1>8. QED
  BY <1>5, <1>6, <1>7 DEF ArraysInv

(* The chain is of its type, and next() and prev() stay on it on pages     *)
(* that assign no array to a variable with several items.                  *)
THEOREM ArraysSound == Spec => []ArraysInv
<1>1. IInv => ArraysInv
  BY InvariantSound
<1>2. QED
  BY <1>1, ArraysInvariant, PTL

(* On pages that do not sort no value is longer than the memory it is in   *)
(* (var.c:159-183, 524-552, 1508-1536).                                    *)
THEOREM ArraysRoom == Spec => []RoomHonest
<1>1. IInv => RoomHonest
  BY InvariantSound
<1>2. QED
  BY <1>1, ArraysInvariant, PTL
-----------------------------------------------------------------------------
(* What count(), key(), max() and min() answer. *)

(* One of some numbers is as large as any, and the first that is.          *)
LEMMA Largest ==
  ASSUME NEW n \in Nat \ {0}, NEW f \in [1..n -> Int]
  PROVE  \E i \in 1..n : \A j \in 1..n : f[j] <= f[i] /\ (j < i => f[j] < f[i])
<1> DEFINE Has(m) == \E i \in 1..m : \A j \in 1..m : f[j] <= f[i] /\ (j < i => f[j] < f[i])
           Bad    == {m \in 1..n : ~Has(m)}
           R      == OpToRel(<, Nat)
<1>1. SUFFICES ASSUME Bad # {}
               PROVE  FALSE
  <2>1. n \in 1..n
    OBVIOUS
  <2>2. Bad = {} => Has(n)
    BY <2>1
  <2>3. QED
    BY <1>1, <2>2
<1>2. IsWellFoundedOn(R, Nat)
  BY NatLessThanWellFounded
<1>3. \A j, i \in Nat : j < i => <<j, i>> \in R
  BY DEF OpToRel
<1> HIDE DEF R
<1>4. Bad \in SUBSET Nat
  OBVIOUS
<1>5. PICK m \in Bad : \A j \in Bad : ~(<<j, m>> \in R)
  <2> HIDE DEF Bad
  <2>1. QED
    BY <1>1, <1>2, <1>4, WFMin
<1>6. m \in 1..n /\ ~Has(m)
  BY <1>5
<1>7. m # 1
  <2>1. f[1] \in Int
    OBVIOUS
  <2>2. Has(1)
    BY <2>1
  <2>3. QED
    BY <1>6, <2>2
<1>8. PICK l : l = m - 1
  OBVIOUS
<1>9. l \in 1..n /\ l \in Nat /\ m = l + 1
  BY <1>6, <1>7, <1>8
<1>10. l \notin Bad
  <2>1. <<l, m>> \in R
    BY <1>3, <1>9
  <2>2. QED
    BY <1>5, <2>1
<1>11. Has(l)
  BY <1>9, <1>10
<1>12. PICK i \in 1..l : \A j \in 1..l : f[j] <= f[i] /\ (j < i => f[j] < f[i])
  BY <1>11
<1>13. f[i] \in Int /\ f[m] \in Int /\ i \in 1..m /\ m \in 1..m /\ \A j \in 1..m : f[j] \in Int /\ (j = m \/ j \in 1..l)
  BY <1>6, <1>9
<1>14. CASE f[m] > f[i]
  <2>1. ASSUME NEW j \in 1..m
        PROVE  f[j] <= f[m] /\ (j < m => f[j] < f[m])
    <3>1. CASE j = m
      BY <3>1, <1>13
    <3>2. CASE j \in 1..l
      <4>1. f[j] <= f[i] /\ f[j] \in Int
        BY <3>2, <1>12, <1>13
      <4>2. QED
        BY <4>1, <1>13, <1>14
    <3>3. QED
      BY <3>1, <3>2, <1>13
  <2>2. QED
    BY <2>1, <1>6, <1>13
<1>15. CASE ~(f[m] > f[i])
  <2>1. ASSUME NEW j \in 1..m
        PROVE  f[j] <= f[i] /\ (j < i => f[j] < f[i])
    <3>1. CASE j = m
      BY <3>1, <1>9, <1>13, <1>15
    <3>2. CASE j \in 1..l
      BY <3>2, <1>12
    <3>3. QED
      BY <3>1, <3>2, <1>13
  <2>2. QED
    BY <2>1, <1>6, <1>13
<1>16. QED
  BY <1>14, <1>15

(* Of numbers, max() and min() are a value of the array each and bound     *)
(* them all.                                                               *)
LEMMA Bounds ==
  ASSUME IInv, Defined, kind = "number"
  PROVE  \A i \in DOMAIN nodes : nodes[i].val <= ArrayMax /\ ArrayMin <= nodes[i].val
<1>1. PICK n : n = Len(nodes)
  OBVIOUS
<1>2. n \in Nat \ {0} /\ DOMAIN nodes = 1..n /\ \A i \in 1..n : nodes[i].val \in Vals
  BY <1>1, Shape DEF IInv, Defined
<1>3. \A u, v \in Vals : (Exceeds(u, v) <=> u > v) /\ u \in Int
  BY ArraysAssumption DEF Exceeds
<1> DEFINE f == [i \in 1..n |-> nodes[i].val]
           g == [i \in 1..n |-> -nodes[i].val]
<1>4. f \in [1..n -> Int] /\ g \in [1..n -> Int]
  BY <1>2, <1>3
<1>5. /\ \A i \in 1..n : f[i] = nodes[i].val /\ g[i] = -nodes[i].val
      /\ \A i \in 1..n : nodes[i].val \in Int
  BY <1>2, <1>3
<1> HIDE DEF f, g
<1>6. \A i \in DOMAIN nodes : nodes[i].val <= ArrayMax
  <2> DEFINE P(i) == \A j \in DOMAIN nodes : /\ ~Exceeds(nodes[j].val, nodes[i].val)
                                             /\ j < i => Exceeds(nodes[i].val, nodes[j].val)
  <2>1. PICK i \in 1..n : \A j \in 1..n : f[j] <= f[i] /\ (j < i => f[j] < f[i])
    BY <1>2, <1>4, Largest
  <2>2. \A j \in 1..n : nodes[j].val <= nodes[i].val /\ (j < i => nodes[j].val < nodes[i].val)
    BY <2>1, <1>5
  <2>3. i \in DOMAIN nodes /\ P(i)
    <3>1. ASSUME NEW j \in 1..n
          PROVE  /\ ~Exceeds(nodes[j].val, nodes[i].val)
                 /\ j < i => Exceeds(nodes[i].val, nodes[j].val)
      BY <2>2, <1>2, <1>3, <1>5
    <3>2. QED
      BY <3>1, <1>2
  <2>4. PICK k : k = CHOOSE x \in DOMAIN nodes : P(x)
    OBVIOUS
  <2>5. k \in DOMAIN nodes /\ P(k) /\ ArrayMax = nodes[k].val
    <3>1. k \in DOMAIN nodes /\ P(k)
      BY <2>3, <2>4
    <3>2. QED
      BY <3>1, <2>4 DEF ArrayMax
  <2>6. QED
    BY <2>5, <1>2, <1>3, <1>5
<1>7. \A i \in DOMAIN nodes : ArrayMin <= nodes[i].val
  <2> DEFINE P(i) == \A j \in DOMAIN nodes : /\ ~Exceeds(nodes[i].val, nodes[j].val)
                                             /\ j < i => Exceeds(nodes[j].val, nodes[i].val)
  <2>1. PICK i \in 1..n : \A j \in 1..n : g[j] <= g[i] /\ (j < i => g[j] < g[i])
    BY <1>2, <1>4, Largest
  <2>2. \A j \in 1..n : nodes[i].val <= nodes[j].val /\ (j < i => nodes[i].val < nodes[j].val)
    BY <2>1, <1>5
  <2>3. i \in DOMAIN nodes /\ P(i)
    <3>1. ASSUME NEW j \in 1..n
          PROVE  /\ ~Exceeds(nodes[i].val, nodes[j].val)
                 /\ j < i => Exceeds(nodes[j].val, nodes[i].val)
      BY <2>2, <1>2, <1>3, <1>5
    <3>2. QED
      BY <3>1, <1>2
  <2>4. PICK k : k = CHOOSE x \in DOMAIN nodes : P(x)
    OBVIOUS
  <2>5. k \in DOMAIN nodes /\ P(k) /\ ArrayMin = nodes[k].val
    <3>1. k \in DOMAIN nodes /\ P(k)
      BY <2>3, <2>4
    <3>2. QED
      BY <3>1, <2>4 DEF ArrayMin
  <2>6. QED
    BY <2>5, <1>2, <1>3, <1>5
<1>8. QED
  BY <1>6, <1>7

LEMMA ListShape ==
  ASSUME IInv
  PROVE  /\ ~Defined => list = <<>>
         /\ Defined => /\ DOMAIN list = DOMAIN nodes /\ Len(list) = Len(nodes)
                       /\ list = [i \in DOMAIN nodes |-> [key |-> nodes[i].key, val |-> nodes[i].val]]
<1>1. Len(nodes) \in Nat /\ DOMAIN nodes = 1 .. Len(nodes)
  BY Shape DEF IInv
<1>2. ASSUME Defined
      PROVE  /\ DOMAIN list = DOMAIN nodes /\ Len(list) = Len(nodes)
             /\ list = [i \in DOMAIN nodes |-> [key |-> nodes[i].key, val |-> nodes[i].val]]
  <2>1. list = [i \in DOMAIN nodes |-> [key |-> nodes[i].key, val |-> nodes[i].val]]
    BY <1>2 DEF list
  <2>2. QED
    BY <1>1, <2>1
<1>3. QED
  BY <1>2 DEF list

(* On pages that neither refill variables nor assign arrays to items the   *)
(* answers are those of the array that the manual describes (var.c:        *)
(* 1059-1070, 1185-1309).                                                  *)
THEOREM ArraysReads == Spec => []ReadsFaithful
<1>1. ASSUME IInv, Without({"refill", "nest"})
      PROVE  Count = L!Count
  <2>1. CASE Defined
    BY <1>1, <2>1, ListShape DEF Count, L!Count, IInv, Counts, Defined
  <2>2. CASE ~Defined
    BY <1>1, <2>2, ListShape, EmptySeq DEF Count, L!Count
  <2>3. QED
    BY <2>1, <2>2
<1>2. ASSUME IInv, Without({"refill", "nest"})
      PROVE  Key = L!Key
  <2>1. PICK place : place = IF cur = -1 THEN 1 ELSE cur + 1
    OBVIOUS
  <2>2. /\ Key = IF ~Defined \/ place > Behind THEN NoKey
                 ELSE IF stale # <<>> /\ place >= 2 THEN stale[place - 1].key ELSE nodes[place].key
        /\ L!Key = IF place \in DOMAIN list THEN list[place].key ELSE NoKey
    BY <2>1 DEF Key, L!Key
  <2>3. stale = <<>> /\ cur \in Int /\ cur >= -1
    <3>1. Without({"refill"})
      BY <1>2 DEF Without
    <3>2. QED
      BY <1>2, <3>1 DEF IInv, Cursor
  <2>4. Len(nodes) \in Nat /\ DOMAIN nodes = 1 .. Len(nodes) /\ place \in Int /\ place >= 1
    BY <1>2, <2>1, <2>3, Shape DEF IInv
  <2>5. CASE ~Defined
    <3>1. list = <<>>
      BY <2>5 DEF list
    <3>2. place \notin DOMAIN list
      BY <3>1
    <3>3. QED
      BY <2>2, <2>5, <3>2
  <2>6. CASE Defined
    <3>1. list = [i \in DOMAIN nodes |-> [key |-> nodes[i].key, val |-> nodes[i].val]]
      BY <2>6 DEF list
    <3>2. Behind = Len(nodes)
      BY <2>3 DEF Behind
    <3>3. CASE place > Behind
      <4>1. place \notin DOMAIN list
        BY <2>4, <3>1, <3>2, <3>3
      <4>2. QED
        BY <2>2, <3>3, <4>1
    <3>4. CASE ~(place > Behind)
      <4>1. place \in DOMAIN nodes
        BY <2>4, <3>2, <3>4
      <4>2. place \in DOMAIN list /\ list[place].key = nodes[place].key
        BY <3>1, <4>1
      <4>3. QED
        BY <2>2, <2>3, <2>6, <3>4, <4>2
    <3>5. QED
      BY <3>3, <3>4
  <2>7. QED
    BY <2>5, <2>6
<1>3. IInv => ReadsFaithful
  BY <1>1, <1>2, Bounds DEF ReadsFaithful
<1>4. QED
  BY <1>3, ArraysInvariant, PTL
-----------------------------------------------------------------------------
(* On plain pages the chain is the array of the manual. *)

Plain == Without(AllHabits \ {"sorts"})

(* No key is in an array twice.                                            *)
Apart(a) == \A i, j \in DOMAIN a : a[i].key = a[j].key => i = j

PlainInv == Plain => Apart(nodes) /\ (deleted => Len(nodes) = 1)

LEMMA PlainHabits ==
  ASSUME Plain
  PROVE  /\ "refill" \notin habits /\ "nest" \notin habits /\ "mixed" \notin habits
         /\ "named" \notin habits /\ "void" \notin habits /\ "masks" \notin habits
         /\ Without({"refill"}) /\ Without({"refill", "nest"})
<1>1. \A h \in AllHabits \ {"sorts"} : h \notin habits
  BY DEF Plain, Without
<1>2. {"refill", "nest", "mixed", "named", "void", "masks"} \subseteq AllHabits \ {"sorts"}
  BY DEF AllHabits
<1>3. QED
  BY <1>1, <1>2 DEF Without

(* The new value of a variable that has several items replaces the first.  *)
(* In both worlds the item keeps its place.                                *)
LEMMA ReplacesItem ==
  ASSUME IInv, Plain, Apart(nodes), Defined, NEW k \in Keys, NEW v \in Vals,
         NEW i \in DOMAIN nodes, nodes[i].key = k,
         nodes' \in Seq(Node), Len(nodes') = Len(nodes), nodes'[i].key = k, nodes'[i].val = v,
         \A j \in DOMAIN nodes : j # i => nodes'[j] = nodes[j],
         ~deleted', cur' = cur
  PROVE  L!Set(k, v) /\ Apart(nodes)'
<1>1. DOMAIN nodes = 1 .. Len(nodes) /\ Len(nodes) >= 1 /\ Len(nodes) \in Nat
  BY Shape DEF IInv, Defined
<1>2. DOMAIN nodes' = DOMAIN nodes
  <2>1. DOMAIN nodes' = 1 .. Len(nodes')
    BY LenProperties
  <2>2. QED
    BY <1>1, <2>1
<1>3. Defined'
  BY <1>1, EmptySeq DEF Defined, Exists
<1>4. list' = [j \in DOMAIN nodes |-> [key |-> nodes'[j].key, val |-> nodes'[j].val]]
  BY <1>2, <1>3 DEF list
<1>5. list = [j \in DOMAIN nodes |-> [key |-> nodes[j].key, val |-> nodes[j].val]]
  BY DEF list
<1>6. L!Places(k) = {i}
  BY <1>5 DEF L!Places, Apart
<1>7. list' = [j \in DOMAIN list |-> IF j \in L!Places(k) THEN L!Item(k, v) ELSE list[j]]
  <2>1. ASSUME NEW j \in DOMAIN nodes
        PROVE  [key |-> nodes'[j].key, val |-> nodes'[j].val] =
                 IF j \in L!Places(k) THEN L!Item(k, v) ELSE list[j]
    <3>1. CASE j = i
      BY <1>6, <3>1 DEF L!Item
    <3>2. CASE j # i
      BY <1>5, <1>6, <3>2
    <3>3. QED
      BY <3>1, <3>2
  <2>2. DOMAIN list = DOMAIN nodes
    BY <1>5
  <2>3. QED
    BY <1>4, <2>1, <2>2
<1>8. L!Set(k, v)
  BY <1>6, <1>7 DEF L!Set
<1>9. \A j \in DOMAIN nodes : nodes'[j].key = nodes[j].key
  OBVIOUS
<1>10. Apart(nodes)'
  BY <1>2, <1>9 DEF Apart
<1>11. QED
  BY <1>8, <1>10

(* An item with a key that is not there comes last.                        *)
LEMMA AddsItem ==
  ASSUME IInv, Apart(nodes), Defined, NEW k \in Keys, NEW v \in Vals, Places(k) = {},
         nodes' \in Seq(Node), Len(nodes') = Len(nodes) + 1,
         nodes'[Len(nodes) + 1].key = k, nodes'[Len(nodes) + 1].val = v,
         \A j \in DOMAIN nodes : nodes'[j] = nodes[j],
         ~deleted', cur' = cur
  PROVE  L!Set(k, v) /\ Apart(nodes)'
<1>1. PICK n : n = Len(nodes)
  OBVIOUS
<1>2. DOMAIN nodes = 1 .. n /\ n >= 1 /\ n \in Nat
  BY <1>1, Shape DEF IInv, Defined
<1>3. DOMAIN nodes' = 1 .. n + 1
  <2>1. DOMAIN nodes' = 1 .. Len(nodes')
    BY LenProperties
  <2>2. QED
    BY <1>1, <2>1
<1>4. Defined'
  BY <1>1, <1>2, EmptySeq DEF Defined, Exists
<1>5. PICK x : x = L!Item(k, v)
  OBVIOUS
<1>6. x = [key |-> k, val |-> v]
  BY <1>5 DEF L!Item
<1>7. list' = [j \in 1 .. n + 1 |-> [key |-> nodes'[j].key, val |-> nodes'[j].val]]
  BY <1>3, <1>4 DEF list
<1>8. list = [j \in 1 .. n |-> [key |-> nodes[j].key, val |-> nodes[j].val]]
  BY <1>2 DEF list
<1>9. L!Places(k) = {}
  BY <1>2, <1>8 DEF L!Places, Places
<1>10. list' = Append(list, x)
  <2>1. PICK l : l = list
    OBVIOUS
  <2>2. l = [j \in 1 .. n |-> [key |-> nodes[j].key, val |-> nodes[j].val]]
    BY <1>8, <2>1
  <2> DEFINE T == {[key |-> nodes[j].key, val |-> nodes[j].val] : j \in 1 .. n} \union {x}
  <2>3. l \in [1 .. n -> T] /\ x \in T
    BY <2>2
  <2> HIDE DEF T
  <2>4. l \in Seq(T) /\ Len(l) = n
    BY <1>2, <2>2, <2>3
  <2>5. PICK u : u = Append(l, x)
    OBVIOUS
  <2>6. u \in Seq(T) /\ Len(u) = n + 1 /\ u[n + 1] = x /\ \A j \in 1 .. n : u[j] = l[j]
    BY <2>3, <2>4, <2>5, AppendProperties
  <2>7. DOMAIN u = 1 .. n + 1
    BY <2>6, LenProperties
  <2>8. u \in [1 .. n + 1 -> T]
    BY <2>6, LenProperties
  <2>9. ASSUME NEW j \in 1 .. n + 1
        PROVE  u[j] = [key |-> nodes'[j].key, val |-> nodes'[j].val]
    <3>1. CASE j = n + 1
      BY <3>1, <1>1, <1>6, <2>6
    <3>2. CASE j # n + 1
      <4>1. j \in 1 .. n /\ j \in DOMAIN nodes
        BY <3>2, <1>2
      <4>2. u[j] = l[j] /\ l[j] = [key |-> nodes[j].key, val |-> nodes[j].val]
        BY <4>1, <2>2, <2>6
      <4>3. QED
        BY <4>1, <4>2
    <3>3. QED
      BY <3>1, <3>2
  <2>10. u = [j \in 1 .. n + 1 |-> [key |-> nodes'[j].key, val |-> nodes'[j].val]]
    BY <2>8, <2>9
  <2>11. QED
    BY <1>7, <2>1, <2>5, <2>10
<1>11. L!Set(k, v)
  BY <1>5, <1>9, <1>10 DEF L!Set
<1>12. Apart(nodes)'
  <2>1. \A j \in 1 .. n : nodes'[j].key = nodes[j].key /\ nodes[j].key # k
    BY <1>2 DEF Places
  <2>2. nodes'[n + 1].key = k
    BY <1>1
  <2>3. ASSUME NEW a \in 1 .. n + 1, NEW b \in 1 .. n + 1, nodes'[a].key = nodes'[b].key
        PROVE  a = b
    <3>1. a \in 1 .. n \/ a = n + 1
      BY <1>2
    <3>2. b \in 1 .. n \/ b = n + 1
      BY <1>2
    <3>3. QED
      BY <1>2, <2>1, <2>2, <2>3, <3>1, <3>2 DEF Apart
  <2>4. QED
    BY <1>3, <2>3 DEF Apart
<1>13. QED
  BY <1>11, <1>12

(* A variable that was not set gets its first item.                        *)
LEMMA MakesItem ==
  ASSUME IInv, ~Defined, NEW k \in Keys, NEW v \in Vals,
         nodes' \in Seq(Node), Len(nodes') = 1, nodes'[1].key = k, nodes'[1].val = v,
         ~deleted', cur' = cur
  PROVE  L!Set(k, v) /\ Apart(nodes)'
<1>1. DOMAIN nodes' = 1 .. 1
  BY LenProperties
<1>2. Defined'
  <2>1. ASSUME nodes' = <<>>
        PROVE  FALSE
    <3>1. Len(nodes') = 0
      BY <2>1
    <3>2. QED
      BY <3>1
  <2>2. nodes' # <<>>
    BY <2>1
  <2>3. QED
    BY <2>2 DEF Defined, Exists
<1>3. PICK x : x = L!Item(k, v)
  OBVIOUS
<1>4. x = [key |-> k, val |-> v]
  BY <1>3 DEF L!Item
<1>5. list = <<>>
  BY DEF list
<1>6. list' = [j \in 1 .. 1 |-> [key |-> nodes'[j].key, val |-> nodes'[j].val]]
  BY <1>1, <1>2 DEF list
<1>7. list' = <<x>>
  BY <1>4, <1>6
<1>8. L!Places(k) = {}
  BY <1>5 DEF L!Places
<1>9. L!Set(k, v)
  <2>1. Append(<<>>, x) = <<x>>
    OBVIOUS
  <2>2. list' = Append(list, L!Item(k, v))
    BY <1>3, <1>5, <1>7, <2>1
  <2>3. QED
    BY <1>8, <2>2 DEF L!Set
<1>10. Apart(nodes)'
  BY <1>1 DEF Apart
<1>11. QED
  BY <1>9, <1>10
(* A value or an array is assigned to the variable as a whole.             *)
LEMMA AssignImplements ==
  ASSUME IInv, PlainInv, Plain, NEW b \in Others, Apart(b), Assign(b)
  PROVE  L!Next /\ Apart(nodes)' /\ ~deleted'
<1>1. IsItems(b) /\ Len(b) \in Nat \ {0} /\ b[1].val \in Vals /\ DOMAIN b = 1 .. Len(b)
  BY OthersAreItems DEF IsItems
<1>2. Chain /\ Apart(nodes) /\ (deleted => Len(nodes) = 1)
  BY DEF IInv, PlainInv
<1>3. Len(nodes) \in Nat /\ DOMAIN nodes = 1 .. Len(nodes) /\ (Exists <=> Len(nodes) >= 1)
  BY <1>2, Shape
<1>4. ~deleted' /\ cur' = cur /\ kind' = kind
  BY DEF Assign
<1>5. Exists => nodes[1].key = First
  BY PlainHabits DEF Assign
<1>6. Len(b) > 1 => Len(nodes) <= 1 /\ b[1].key = First
  BY <1>3, PlainHabits DEF Assign
<1>7. /\ nodes' \in Seq(Node) /\ nodes'[1].val = b[1].val /\ nodes'[1].key = First
      /\ Len(b) > 1 => /\ Len(nodes') = Len(b)
                       /\ \A i \in 2 .. Len(b) : nodes'[i].key = b[i].key /\ nodes'[i].val = b[i].val
      /\ ~(Len(b) > 1) => /\ Len(nodes') = IF Exists THEN Len(nodes) ELSE 1
                          /\ \A i \in 2 .. Len(nodes) : Exists => nodes'[i] = nodes[i]
  BY <1>1, <1>2, <1>5, AssignChain
<1>8. First \in Keys
  BY ArraysAssumption
<1>9. CASE Len(b) > 1
  <2>1. Len(nodes') = Len(b) /\ DOMAIN nodes' = 1 .. Len(b)
    <3>1. nodes' \in Seq(Node) /\ Len(nodes') = Len(b)
      BY <1>7, <1>9
    <3>2. QED
      BY <3>1, LenProperties
  <2>2. Defined'
    BY <1>1, <1>4, <2>1, EmptySeq DEF Defined, Exists
  <2>3. \A i \in 1 .. Len(b) : nodes'[i].key = b[i].key /\ nodes'[i].val = b[i].val
    <3> TAKE i \in 1 .. Len(b)
    <3>1. i = 1 \/ i \in 2 .. Len(b)
      BY <1>1
    <3>2. QED
      BY <3>1, <1>6, <1>7, <1>9
  <2>4. b \in [1 .. Len(b) -> Items]
    <3>1. PICK n \in Long : b \in [1 .. n -> Items]
      BY ArraysAssumption
    <3>2. n \in Nat
      BY ArraysAssumption DEF Long
    <3>3. QED
      BY <3>1, <3>2, <1>1
  <2>5. list' = [i \in 1 .. Len(b) |-> [key |-> nodes'[i].key, val |-> nodes'[i].val]]
    BY <2>1, <2>2 DEF list
  <2>6. \A i \in 1 .. Len(b) : b[i] = [key |-> nodes'[i].key, val |-> nodes'[i].val]
    BY <2>3, <2>4 DEF Items
  <2>7. list' = b
    BY <2>4, <2>5, <2>6
  <2>8. Len(list) <= 1
    <3>1. CASE Defined
      BY <3>1, <1>6, <1>9, ListShape
    <3>2. CASE ~Defined
      BY <3>2, ListShape, EmptySeq
    <3>3. QED
      BY <3>1, <3>2
  <2>9. L!Fill(b) /\ b \in {a \in Others : Len(a) > 1}
    BY <1>4, <1>9, <2>7, <2>8 DEF L!Fill
  <2>10. L!Next
    BY <1>4, <2>9 DEF L!Next
  <2>11. Apart(nodes)'
    BY <1>1, <2>1, <2>3 DEF Apart
  <2>12. QED
    BY <1>4, <2>10, <2>11
<1>10. CASE ~(Len(b) > 1) /\ Defined
  <2>1. Exists /\ 1 \in DOMAIN nodes /\ nodes[1].key = First
    BY <1>3, <1>5, <1>10 DEF Defined
  <2>2. Len(nodes') = Len(nodes) /\ \A j \in DOMAIN nodes : j # 1 => nodes'[j] = nodes[j]
    BY <1>3, <1>7, <1>10, <2>1
  <2>3. L!Set(First, b[1].val) /\ Apart(nodes)'
    BY <1>1, <1>2, <1>4, <1>7, <1>8, <1>10, <2>1, <2>2, ReplacesItem
  <2>4. QED
    BY <1>1, <1>4, <1>8, <2>3 DEF L!Next
<1>11. CASE ~(Len(b) > 1) /\ ~Defined
  <2>1. Len(nodes') = 1
    BY <1>2, <1>7, <1>11 DEF Defined
  <2>2. L!Set(First, b[1].val) /\ Apart(nodes)'
    BY <1>1, <1>4, <1>7, <1>8, <1>11, <2>1, MakesItem
  <2>3. QED
    BY <1>1, <1>4, <1>8, <2>2 DEF L!Next
<1>12. QED
  BY <1>9, <1>10, <1>11

LEMMA OneItem ==
  ASSUME Plain, NEW b \in Others, Len(b) > 1 => "nest" \in habits
  PROVE  IsItems(b) /\ Len(b) = 1 /\ b[1].val \in Vals
<1>1. IsItems(b) /\ Len(b) \in Nat \ {0} /\ DOMAIN b = 1 .. Len(b)
  BY OthersAreItems DEF IsItems
<1>2. Len(b) = 1
  BY <1>1, PlainHabits
<1>3. QED
  BY <1>1, <1>2 DEF IsItems

LEMMA AppendImplements ==
  ASSUME IInv, PlainInv, Plain, NEW b \in Others, AppendItem(b)
  PROVE  L!Next /\ Apart(nodes)' /\ ~deleted'
<1>1. IsItems(b) /\ Len(b) = 1 /\ b[1].val \in Vals
  BY OneItem DEF AppendItem
<1>2. Chain /\ Apart(nodes) /\ Len(nodes) \in Nat
  BY Shape DEF IInv, PlainInv
<1>3. ~deleted' /\ cur' = cur /\ kind' = kind
  BY DEF AppendItem
<1>4. CASE Defined
  <2>1. PICK k : k = KeyOf(Len(nodes))
    OBVIOUS
  <2>2. AddNodes(k, b) /\ Places(k) = {}
    BY <1>4, <2>1, PlainHabits DEF AppendItem
  <2>3. k \in Keys
    <3>1. PICK x : x = Fresh(k, b[1].val)
      OBVIOUS
    <3>2. nodes' = Append(nodes, x) \o Copies(b)
      BY <2>2, <3>1 DEF AddNodes
    <3>3. Len(Append(nodes, x) \o Copies(b)) <= MaxLen /\ Copies(b) \in Seq(Node)
      BY <1>1, <3>2, Copied DEF AppendItem, Bounded
    <3>4. Len(nodes) \in 0 .. MaxLen - 1
      BY <1>2, <3>3, RoomLeft
    <3>5. QED
      BY <2>1, <3>4, ArraysAssumption
  <2>4. /\ nodes' \in Seq(Node) /\ Len(nodes') = Len(nodes) + 1
        /\ nodes'[Len(nodes) + 1].key = k /\ nodes'[Len(nodes) + 1].val = b[1].val
        /\ \A j \in DOMAIN nodes : nodes'[j] = nodes[j]
    BY <1>1, <1>2, <2>2, <2>3, AddedChain
  <2>5. L!Set(k, b[1].val) /\ Apart(nodes)'
    BY <1>1, <1>2, <1>3, <1>4, <2>2, <2>3, <2>4, AddsItem
  <2>6. L!SetByItself(b[1].val)
    BY <1>4, <2>1, <2>5, ListShape DEF L!SetByItself
  <2>7. QED
    BY <1>1, <1>3, <2>5, <2>6 DEF L!Next
<1>5. CASE ~Defined
  <2>1. First \in Keys /\ nodes' = <<Fresh(First, b[1].val)>> \o Copies(b)
    BY <1>5, ArraysAssumption DEF AppendItem
  <2>2. nodes' \in Seq(Node) /\ Len(nodes') = 1 /\ nodes'[1].key = First /\ nodes'[1].val = b[1].val
    BY <1>1, <2>1, FirstChain
  <2>3. L!Set(First, b[1].val) /\ Apart(nodes)'
    BY <1>1, <1>3, <1>5, <2>1, <2>2, MakesItem
  <2>4. QED
    BY <1>1, <1>3, <2>1, <2>3 DEF L!Next
<1>6. QED
  BY <1>4, <1>5

LEMMA SetImplements ==
  ASSUME IInv, PlainInv, Plain, NEW k \in Keys, NEW b \in Others, SetItem(k, b)
  PROVE  L!Next /\ Apart(nodes)' /\ ~deleted'
<1>1. IsItems(b) /\ Len(b) = 1 /\ b[1].val \in Vals
  BY OneItem DEF SetItem
<1>2. Chain /\ Apart(nodes) /\ Len(nodes) \in Nat
  BY Shape DEF IInv, PlainInv
<1>3. ~deleted /\ ~deleted' /\ cur' = cur /\ kind' = kind
  BY PlainHabits DEF SetItem
<1>4. L!Set(k, b[1].val) /\ Apart(nodes)'
  <2>1. CASE Places(k) # {}
    <3>1. PICK i \in Places(k) : nodes' = StoreAt(i, b[1].val)
      BY <2>1 DEF SetItem
    <3>2. i \in DOMAIN nodes /\ nodes[i].key = k /\ Defined
      BY <1>3, <3>1 DEF Places, Defined, Exists
    <3>3. /\ nodes' \in Seq(Node) /\ Len(nodes') = Len(nodes)
          /\ nodes'[i].key = k /\ nodes'[i].val = b[1].val
          /\ \A j \in DOMAIN nodes : j # i => nodes'[j] = nodes[j]
      BY <1>1, <1>2, <3>1, <3>2, Stored
    <3>4. QED
      BY <1>1, <1>2, <1>3, <3>2, <3>3, ReplacesItem
  <2>2. CASE Places(k) = {} /\ Exists
    <3>1. AddNodes(k, b) /\ Defined
      BY <1>3, <2>2 DEF SetItem, Defined
    <3>2. /\ nodes' \in Seq(Node) /\ Len(nodes') = Len(nodes) + 1
          /\ nodes'[Len(nodes) + 1].key = k /\ nodes'[Len(nodes) + 1].val = b[1].val
          /\ \A j \in DOMAIN nodes : nodes'[j] = nodes[j]
      BY <1>1, <1>2, <3>1, AddedChain
    <3>3. QED
      BY <1>1, <1>2, <1>3, <2>2, <3>1, <3>2, AddsItem
  <2>3. CASE Places(k) = {} /\ ~Exists
    <3>1. nodes' = <<Fresh(k, b[1].val)>> \o Copies(b)
      BY <2>3 DEF SetItem
    <3>2. nodes' \in Seq(Node) /\ Len(nodes') = 1 /\ nodes'[1].key = k /\ nodes'[1].val = b[1].val
      BY <1>1, <3>1, FirstChain
    <3>3. ~Defined
      BY <2>3 DEF Defined
    <3>4. QED
      BY <1>1, <1>3, <3>2, <3>3, MakesItem
  <2>4. QED
    BY <2>1, <2>2, <2>3
<1>5. QED
  BY <1>1, <1>3, <1>4 DEF L!Next
(* +=, -=, &= and |= on the variable, which is its first item.             *)
LEMMA ModifyImplements ==
  ASSUME IInv, PlainInv, Plain, NEW op \in Ops, NEW v \in Vals, Modify(op, v)
  PROVE  L!Next /\ Apart(nodes)' /\ ~deleted'
<1>1. Chain /\ Apart(nodes) /\ Len(nodes) \in Nat /\ First \in Keys
  BY Shape, ArraysAssumption DEF IInv, PlainInv
<1>2. ~deleted /\ ~deleted' /\ cur' = cur /\ kind' = kind
  BY PlainHabits DEF Modify
<1>3. L!Modify(First, op, v) /\ Apart(nodes)'
  <2>1. CASE Exists
    <3>1. Defined /\ nodes[1].key = First
      BY <1>2, <2>1, PlainHabits DEF Defined, Modify
    <3>2. 1 \in DOMAIN nodes /\ nodes[1].val \in Vals
      BY <1>1, <2>1, Shape
    <3>3. PICK u : u = Apply(op, nodes[1].val, v)
      OBVIOUS
    <3>4. u \in Vals /\ nodes' = StoreAt(1, u)
      BY <2>1, <3>2, <3>3, ArraysAssumption DEF Modify
    <3>5. /\ nodes' \in Seq(Node) /\ Len(nodes') = Len(nodes)
          /\ nodes'[1].key = First /\ nodes'[1].val = u
          /\ \A j \in DOMAIN nodes : j # 1 => nodes'[j] = nodes[j]
      BY <1>1, <3>1, <3>2, <3>4, Stored
    <3>6. L!Set(First, u) /\ Apart(nodes)'
      BY <1>1, <1>2, <3>1, <3>2, <3>4, <3>5, ReplacesItem
    <3>7. list = [j \in DOMAIN nodes |-> [key |-> nodes[j].key, val |-> nodes[j].val]]
      BY <3>1 DEF list
    <3>8. L!Places(First) = {1}
      BY <1>1, <3>1, <3>2, <3>7 DEF L!Places, Apart
    <3>9. list[CHOOSE j \in L!Places(First) : TRUE].val = nodes[1].val
      BY <3>2, <3>7, <3>8
    <3>10. QED
      BY <3>3, <3>6, <3>8, <3>9 DEF L!Modify
  <2>2. CASE ~Exists
    <3>1. nodes' = <<Fresh(First, v)>> /\ op \in {"+", "|"} /\ ~Defined
      BY <2>2, PlainHabits DEF Modify, Defined
    <3>2. nodes' \in Seq(Node) /\ Len(nodes') = 1 /\ nodes'[1].key = First /\ nodes'[1].val = v
      BY <1>1, <3>1, OneNode
    <3>3. L!Set(First, v) /\ Apart(nodes)'
      BY <1>1, <1>2, <3>1, <3>2, MakesItem
    <3>4. list = <<>>
      BY <3>1 DEF list
    <3>5. L!Places(First) = {}
      BY <3>4 DEF L!Places
    <3>6. Apply(op, Zero, v) = v
      BY <3>1, ArraysAssumption
    <3>7. QED
      BY <3>3, <3>5, <3>6 DEF L!Modify
  <2>3. QED
    BY <2>1, <2>2
<1>4. QED
  BY <1>1, <1>2, <1>3 DEF L!Next, Ops

(* The same on one item.                                                   *)
LEMMA ModifyItemImplements ==
  ASSUME IInv, PlainInv, Plain, NEW k \in Keys, NEW op \in Ops, NEW v \in Vals, ModifyItem(k, op, v)
  PROVE  L!Next /\ Apart(nodes)' /\ ~deleted'
<1>1. Chain /\ Apart(nodes) /\ Len(nodes) \in Nat /\ DOMAIN nodes = 1 .. Len(nodes)
  BY Shape DEF IInv, PlainInv
<1>2. ~deleted /\ ~deleted' /\ cur' = cur /\ kind' = kind
  BY PlainHabits DEF ModifyItem
<1>3. L!Modify(k, op, v) /\ Apart(nodes)'
  <2>1. CASE Places(k) # {}
    <3>1. PICK i \in Places(k) : nodes' = StoreAt(i, Apply(op, nodes[i].val, v))
      BY <2>1, PlainHabits DEF ModifyItem
    <3>2. i \in DOMAIN nodes /\ nodes[i].key = k /\ Defined
      BY <1>2, <3>1 DEF Places, Defined, Exists
    <3>3. nodes[i].val \in Vals
      BY <1>1, <3>2, Shape
    <3>4. PICK u : u = Apply(op, nodes[i].val, v)
      OBVIOUS
    <3>5. u \in Vals /\ nodes' = StoreAt(i, u)
      BY <3>1, <3>3, <3>4, ArraysAssumption
    <3>6. /\ nodes' \in Seq(Node) /\ Len(nodes') = Len(nodes)
          /\ nodes'[i].key = k /\ nodes'[i].val = u
          /\ \A j \in DOMAIN nodes : j # i => nodes'[j] = nodes[j]
      BY <1>1, <3>2, <3>5, Stored
    <3>7. L!Set(k, u) /\ Apart(nodes)'
      BY <1>1, <1>2, <3>2, <3>5, <3>6, ReplacesItem
    <3>8. list = [j \in DOMAIN nodes |-> [key |-> nodes[j].key, val |-> nodes[j].val]]
      BY <3>2 DEF list
    <3>9. L!Places(k) = {i}
      BY <1>1, <3>2, <3>8 DEF L!Places, Apart
    <3>10. list[CHOOSE j \in L!Places(k) : TRUE].val = nodes[i].val
      BY <3>2, <3>8, <3>9
    <3>11. QED
      BY <3>4, <3>7, <3>9, <3>10 DEF L!Modify
  <2>2. CASE Places(k) = {}
    <3>1. op \in {"+", "|"}
      BY <2>2, PlainHabits DEF ModifyItem
    <3>2. Apply(op, Zero, v) = v
      BY <3>1, ArraysAssumption
    <3>3. L!Places(k) = {}
      <4>1. CASE Defined
        BY <2>2, <4>1 DEF list, L!Places, Places
      <4>2. CASE ~Defined
        <5>1. list = <<>>
          BY <4>2 DEF list
        <5>2. QED
          BY <5>1 DEF L!Places
      <4>3. QED
        BY <4>1, <4>2
    <3>4. L!Set(k, v) /\ Apart(nodes)'
      <4>1. CASE Exists
        <5>1. PICK b : b = <<[key |-> k, val |-> v]>>
          OBVIOUS
        <5>2. Len(b) = 1 /\ DOMAIN b = 1 .. 1 /\ b[1].key = k /\ b[1].val = v
          BY <5>1
        <5>3. IsItems(b)
          BY <5>2 DEF IsItems
        <5>4. AddNodes(k, b) /\ Defined
          BY <1>2, <2>2, <4>1, <5>1 DEF ModifyItem, Defined
        <5>5. /\ nodes' \in Seq(Node) /\ Len(nodes') = Len(nodes) + 1
              /\ nodes'[Len(nodes) + 1].key = k /\ nodes'[Len(nodes) + 1].val = v
              /\ \A j \in DOMAIN nodes : nodes'[j] = nodes[j]
          BY <1>1, <5>2, <5>3, <5>4, AddedChain
        <5>6. QED
          BY <1>1, <1>2, <2>2, <5>4, <5>5, AddsItem
      <4>2. CASE ~Exists
        <5>1. nodes' = <<Fresh(k, v)>> /\ ~Defined
          BY <2>2, <4>2 DEF ModifyItem, Defined
        <5>2. nodes' \in Seq(Node) /\ Len(nodes') = 1 /\ nodes'[1].key = k /\ nodes'[1].val = v
          BY <5>1, OneNode
        <5>3. QED
          BY <1>2, <5>1, <5>2, MakesItem
      <4>3. QED
        BY <4>1, <4>2
    <3>5. QED
      BY <3>2, <3>3, <3>4 DEF L!Modify
  <2>3. QED
    BY <2>1, <2>2
<1>4. QED
  BY <1>2, <1>3 DEF L!Next, Ops

LEMMA UnSetImplements ==
  ASSUME UnSet
  PROVE  L!Next /\ Apart(nodes)' /\ Len(nodes') = 1
<1>1. PICK x : x = [nodes[1] EXCEPT !.alloc = 0, !.room = 0]
  OBVIOUS
<1>2. nodes' = <<x>> /\ cur' = 0 /\ deleted' /\ kind' = kind
  BY <1>1 DEF UnSet, fixed
<1>3. DOMAIN nodes' = 1 .. 1 /\ Len(nodes') = 1
  BY <1>2
<1>4. list' = <<>>
  BY <1>2 DEF list, Defined
<1>5. L!Unset
  BY <1>2, <1>4 DEF L!Unset
<1>6. QED
  BY <1>2, <1>3, <1>5 DEF Apart, L!Next

(* On plain pages the cursor is never in a part that has been cut off.     *)
LEMMA CursorImplements ==
  ASSUME IInv, Plain, Reset \/ End \/ NextItem \/ PrevItem
  PROVE  L!Next /\ nodes' = nodes /\ deleted' = deleted
<1>1. /\ Defined /\ Defined' /\ nodes' = nodes /\ deleted' = deleted /\ kind' = kind
      /\ list' = list
  BY DEF Reset, End, NextItem, PrevItem, MoveTo, chain, fixed, list, Defined, Exists
<1>2. stale = <<>> /\ Behind = Len(nodes)
  BY PlainHabits DEF IInv, Cursor, Behind
<1>3. Len(list) = Len(nodes) /\ last = Len(nodes) /\ Len(nodes) >= 1
  BY <1>1, PlainHabits, ListShape, Shape DEF IInv, Counts, Defined
<1>4. CASE Reset
  BY <1>1, <1>4 DEF Reset, MoveTo, L!Reset, L!Next
<1>5. CASE End
  <2>1. Len(<<>>) = 0
    OBVIOUS
  <2>2. list # <<>>
    BY <1>3, <2>1
  <2>3. L!End
    BY <1>1, <1>3, <1>5, <2>2 DEF End, MoveTo, L!End
  <2>4. QED
    BY <1>1, <2>3 DEF L!Next
<1>6. CASE NextItem
  <2>1. L!Forward
    BY <1>1, <1>2, <1>3, <1>6 DEF NextItem, MoveTo, L!Forward
  <2>2. QED
    BY <1>1, <2>1 DEF L!Next
<1>7. CASE PrevItem
  <2>1. L!Back
    BY <1>1, <1>3, <1>7 DEF PrevItem, MoveTo, L!Back
  <2>2. QED
    BY <1>1, <2>1 DEF L!Next
<1>8. QED
  BY <1>1, <1>4, <1>5, <1>6, <1>7

LEMMA SortImplements ==
  ASSUME IInv, PlainInv, Plain, Sort
  PROVE  L!Next /\ Apart(nodes)' /\ ~deleted'
<1>1. Defined /\ Apart(nodes) /\ UNCHANGED <<cur, deleted, kind>>
  BY DEF Sort, PlainInv
<1>2. Len(nodes) \in Nat /\ DOMAIN nodes = 1 .. Len(nodes) /\ Len(nodes) >= 1
  BY <1>1, Shape DEF IInv, Defined
<1>3. PICK p \in [DOMAIN nodes -> DOMAIN nodes] :
        /\ \A i, j \in DOMAIN nodes : i < j => p[i] # p[j] /\ InOrder(kind, nodes[p[i]].val, nodes[p[j]].val)
        /\ nodes' = [i \in DOMAIN nodes |-> [nodes[i] EXCEPT !.val = nodes[p[i]].val, !.room = nodes[p[i]].room]]
  BY DEF Sort
<1>4. DOMAIN nodes' = DOMAIN nodes
  BY <1>3
<1>5. \A i \in DOMAIN nodes : nodes'[i].key = nodes[i].key /\ nodes'[i].val = nodes[p[i]].val
  <2> TAKE i \in DOMAIN nodes
  <2>1. nodes[i] \in [key : Keys, val : Vals, alloc : Nat, room : Nat]
    BY Shape DEF IInv, Node
  <2>2. nodes'[i] = [nodes[i] EXCEPT !.val = nodes[p[i]].val, !.room = nodes[p[i]].room]
    BY <1>3
  <2>3. QED
    BY <2>1, <2>2
<1>6. Defined'
  <2>1. nodes' # <<>>
    BY <1>2, <1>4
  <2>2. QED
    BY <1>1, <2>1 DEF Defined, Exists
<1>7. list = [i \in DOMAIN nodes |-> [key |-> nodes[i].key, val |-> nodes[i].val]]
  BY <1>1 DEF list
<1>8. list' = [i \in DOMAIN nodes |-> [key |-> nodes[i].key, val |-> nodes[p[i]].val]]
  BY <1>4, <1>5, <1>6 DEF list
<1>9. L!Sort
  <2>1. DOMAIN list = DOMAIN nodes /\ \A i \in DOMAIN nodes : list[i].key = nodes[i].key /\ list[i].val = nodes[i].val
    BY <1>7
  <2>2. \A i \in DOMAIN nodes : p[i] \in DOMAIN nodes
    BY <1>3
  <2>3. list' = [i \in DOMAIN list |-> L!Item(list[i].key, list[p[i]].val)]
    BY <1>8, <2>1, <2>2 DEF L!Item
  <2>4. \A i, j \in DOMAIN list :
          i < j => p[i] # p[j] /\ InOrder(kind, list[p[i]].val, list[p[j]].val)
    BY <1>3, <2>1, <2>2
  <2>5. p \in [DOMAIN list -> DOMAIN list] /\ cur' = cur
    BY <1>1, <2>1
  <2>6. QED
    BY <2>3, <2>4, <2>5 DEF L!Sort
<1>10. L!Next
  BY <1>1, <1>9 DEF L!Next
<1>11. Apart(nodes)'
  BY <1>1, <1>4, <1>5 DEF Apart
<1>12. QED
  BY <1>1, <1>10, <1>11 DEF Defined

-----------------------------------------------------------------------------

LEMMA StepImplements ==
  ASSUME IInv, PlainInv, \A b \in Others : Apart(b), [Next]_vars
  PROVE  PlainInv' /\ ((Plain => L!Next) \/ UNCHANGED L!vars)
<1>1. habits' = habits
  BY DEF Next, vars, AssignOther, AssignSelf, Assign, AppendItem, AppendSelf, SetItem, Modify,
         ModifyItem, UnSet, fixed, Reset, End, NextItem, PrevItem, MoveTo, Sort
<1>2. Plain' = Plain
  BY <1>1 DEF Plain, Without
<1>3. CASE ~Plain
  BY <1>2, <1>3 DEF PlainInv
<1>4. CASE UNCHANGED vars
  <2>1. nodes' = nodes /\ deleted' = deleted /\ cur' = cur /\ kind' = kind
    BY <1>4 DEF vars
  <2>2. PlainInv'
    BY <1>2, <2>1 DEF PlainInv, Apart
  <2>3. list' = list
    BY <2>1 DEF list, Defined, Exists
  <2>4. QED
    BY <2>1, <2>2, <2>3 DEF L!vars
<1>5. CASE Plain /\ Next
  <2>1. L!Next /\ Apart(nodes)' /\ (deleted' => Len(nodes') = 1)
    <3>1. CASE AssignOther
      BY <1>5, <3>1, AssignImplements DEF AssignOther
    <3>2. CASE AssignSelf
      <4>1. Len(nodes) > 1 /\ Assign(nodes)
        BY <3>2 DEF AssignSelf
      <4>2. "refill" \in habits
        BY <4>1 DEF Assign
      <4>3. QED
        BY <1>5, <4>2, PlainHabits
    <3>3. CASE \E b \in Others : AppendItem(b)
      BY <1>5, <3>3, AppendImplements
    <3>4. CASE AppendSelf
      BY <1>5, <3>4, PlainHabits DEF AppendSelf
    <3>5. CASE \E k \in Keys, b \in Others : SetItem(k, b)
      BY <1>5, <3>5, SetImplements
    <3>6. CASE \E op \in Ops, v \in Vals : Modify(op, v)
      BY <1>5, <3>6, ModifyImplements
    <3>7. CASE \E k \in Keys, op \in Ops, v \in Vals : ModifyItem(k, op, v)
      BY <1>5, <3>7, ModifyItemImplements
    <3>8. CASE UnSet
      BY <3>8, UnSetImplements
    <3>9. CASE Reset \/ End \/ NextItem \/ PrevItem
      BY <1>5, <3>9, CursorImplements DEF PlainInv, Apart
    <3>10. CASE Sort
      BY <1>5, <3>10, SortImplements
    <3>11. QED
      BY <1>5, <3>1, <3>2, <3>3, <3>4, <3>5, <3>6, <3>7, <3>8, <3>9, <3>10 DEF Next
  <2>2. QED
    BY <2>1 DEF PlainInv
<1>6. QED
  BY <1>3, <1>4, <1>5

(* If no array that is assigned has a key twice - and no array of a plain  *)
(* page has, as PlainInv says - then on plain pages the chain, its cursor  *)
(* and its deleted mark are the array of the manual, step by step (SetVar, *)
(* copyarray, UnSet, Next, Prev, Sort).                                    *)
THEOREM ArraysImplements ==
  ASSUME \A b \in Others : Apart(b)
  PROVE  Spec => Implements
<1>1. Init => L!Init /\ PlainInv
  <2> SUFFICES ASSUME Init
               PROVE  L!Init /\ PlainInv
    OBVIOUS
  <2>1. nodes = <<>> /\ ~Defined /\ cur = 0 /\ kind \in {"number", "string"} /\ ~deleted
    BY DEF Init, Defined, Exists
  <2>2. list = <<>>
    BY <2>1 DEF list
  <2>3. L!Init
    BY <2>1, <2>2 DEF L!Init
  <2>4. QED
    BY <2>1, <2>3 DEF PlainInv, Apart
<1>2. IInv /\ PlainInv /\ [Next]_vars => PlainInv' /\ [Plain => L!Next]_(L!vars)
  BY StepImplements
<1>3. QED
  BY <1>1, <1>2, ArraysInvariant, PTL DEF Spec, Implements, Plain
=============================================================================
