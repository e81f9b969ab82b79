--------------------------- MODULE FlatFileProofs ---------------------------
(* Theorems about FlatFile, for every value of its constants: the file is  *)
(* the map that its writer makes of it, and an iteration over it is exact, *)
(* if pages insert only keys that are not there.                           *)
EXTENDS FlatFile, SequenceTheorems, WellFoundedInduction, TLAPS

-----------------------------------------------------------------------------
(* The first of some places.                                               *)
LEMMA LeastOf ==
  ASSUME NEW T \in SUBSET Nat, T # {}
  PROVE  Least(T) \in T /\ \A j \in T : Least(T) <= j
<1> DEFINE R == OpToRel(<, Nat)
<1>1. IsWellFoundedOn(R, Nat)
  BY NatLessThanWellFounded
<1>2. \A j, i \in Nat : j < i => <<j, i>> \in R
  BY DEF OpToRel
<1> HIDE DEF R
<1>3. PICK i \in T : \A j \in T : ~(<<j, i>> \in R)
  BY <1>1, WFMin
<1>4. \A j \in T : i <= j
  <2> TAKE j \in T
  <2>1. i \in Nat /\ j \in Nat /\ ~(j < i)
    BY <1>2, <1>3
  <2>2. QED
    BY <2>1
<1>5. QED
  BY <1>4 DEF Least

(* A record behind the others.                                             *)
LEMMA OneMore ==
  ASSUME NEW T, NEW s \in Seq(T), NEW r \in T, NEW u, u = Append(s, r)
  PROVE  /\ u \in Seq(T) /\ Len(s) \in Nat /\ Len(u) = Len(s) + 1
         /\ DOMAIN s = 1..Len(s) /\ DOMAIN u = 1 .. Len(s) + 1
         /\ u[Len(s) + 1] = r /\ \A i \in DOMAIN s : u[i] = s[i]
  BY AppendProperties, LenProperties

-----------------------------------------------------------------------------
(* The inductive invariant.  Of the types: while a record waits to be      *)
(* appended all others are complete.                                       *)

Waiting ==
  /\ pending # <<>> =>
       /\ \E k \in Keys, c \in Contents : pending = <<NewRecord(k, c)>>
       /\ \A i \in DOMAIN recs : recs[i].part = 4

(* A key is in one record at most, which has what the map says, and what   *)
(* the map has is in a record or about to be appended.                     *)
Once ==
  /\ \A i, j \in DOMAIN recs : recs[i].key \in Keys /\ recs[i].key = recs[j].key => i = j
  /\ \A i \in DOMAIN recs : recs[i].key \in Keys => recs[i].content = map[recs[i].key]
  /\ \A k \in Keys : map[k] # NoContent =>
       (\E i \in DOMAIN recs : recs[i].key = k) \/ (pending # <<>> /\ pending[1].key = k)
  /\ pending # <<>> =>
       /\ map[pending[1].key] = pending[1].content
       /\ \A i \in DOMAIN recs : recs[i].key # pending[1].key
       /\ \A p \in Procs : pending[1].key \in iter[p].may

(* What an iteration still comes to may be returned, and what it must      *)
(* return it still comes to.                                               *)
Ahead ==
  \A p \in Procs :
    /\ \A j \in DOMAIN recs : j > pos[p] /\ recs[j].key \in Keys =>
         recs[j].key \in iter[p].owed \union iter[p].may
    /\ \A k \in iter[p].owed : \E j \in Places(k) : j > pos[p]

TInv == TypeOK /\ Waiting

IInv == TInv /\ (~Presents => Once /\ Ahead)

LEMMA Domains ==
  ASSUME TypeOK
  PROVE  /\ Len(recs) \in Nat /\ DOMAIN recs = 1..Len(recs) /\ recs \in Seq(Record)
         /\ (recs = <<>> <=> Len(recs) = 0)
         /\ \A i \in DOMAIN recs : recs[i] \in Record /\ i \in Nat
  BY LenProperties, ElementOfSeq, EmptySeq DEF TypeOK

(* Between two calls of the writer every record is complete.               *)
LEMMA Complete ==
  ASSUME TypeOK, ~Busy
  PROVE  pending = <<>> /\ \A i \in DOMAIN recs : recs[i].part = 4
<1>1. pending = <<>> /\ (recs = <<>> \/ ~(recs[Len(recs)].part < 4))
  BY DEF Busy
<1>2. \A i \in DOMAIN recs : i < Len(recs) => recs[i].part = 4
  BY DEF TypeOK
<1>3. ASSUME NEW i \in DOMAIN recs
      PROVE  recs[i].part = 4
  <2>1. CASE i < Len(recs)
    BY <1>2, <2>1
  <2>2. CASE i = Len(recs)
    <3>1. recs[i].part \in 1..4 /\ recs # <<>>
      BY Domains DEF Record
    <3>2. QED
      BY <1>1, <2>2, <3>1
  <2>3. QED
    BY <2>1, <2>2, Domains
<1>4. QED
  BY <1>1, <1>3

(* Wiping a key changes nothing but the key of one record, which is the    *)
(* only one that has it if no key is there twice.                          *)
LEMMA WipedType ==
  ASSUME TypeOK, NEW k \in Keys, recs' = flatfilewipekey(k)
  PROVE  /\ recs' \in Seq(Record) /\ Len(recs') = Len(recs) /\ DOMAIN recs' = DOMAIN recs
         /\ \A i \in DOMAIN recs : recs'[i].part = recs[i].part /\ recs'[i].content = recs[i].content
         /\ \A i \in DOMAIN recs :
              recs'[i] = IF i \in Places(k) /\ i = Least(Places(k)) THEN [recs[i] EXCEPT !.key = Wiped] ELSE recs[i]
<1>1. CASE Places(k) = {}
  BY <1>1, Domains DEF flatfilewipekey
<1>2. CASE Places(k) # {}
  <2>1. PICK i \in Places(k) : i = Least(Places(k))
    <3>1. Places(k) \in SUBSET Nat
      BY Domains DEF Places
    <3>2. QED
      BY <1>2, <3>1, LeastOf
  <2>2. i \in DOMAIN recs /\ recs' = [recs EXCEPT ![i].key = Wiped]
    BY <1>2, <2>1 DEF flatfilewipekey, Places
  <2>3. [recs[i] EXCEPT !.key = Wiped] \in Record
    BY <2>2, Domains DEF Record
  <2>4. /\ DOMAIN recs' = DOMAIN recs /\ recs'[i] = [recs[i] EXCEPT !.key = Wiped]
        /\ \A j \in DOMAIN recs : j # i => recs'[j] = recs[j]
    BY <2>2, Domains
  <2>5. recs' \in Seq(Record) /\ Len(recs') = Len(recs)
    <3>1. recs' = [recs EXCEPT ![i] = [recs[i] EXCEPT !.key = Wiped]]
      BY <2>2
    <3>2. QED
      BY <2>2, <2>3, <3>1, Domains, ExceptSeq
  <2>6. \A j \in DOMAIN recs : recs[j] \in Record
    BY Domains
  <2>7. QED
    BY <2>1, <2>2, <2>4, <2>5, <2>6 DEF Record
<1>3. QED
  BY <1>1, <1>2

LEMMA WipedOnce ==
  ASSUME TypeOK, Once, ~Busy, NEW k \in Keys, recs' = flatfilewipekey(k)
  PROVE  /\ DOMAIN recs' = DOMAIN recs
         /\ \A i \in DOMAIN recs : recs[i].key # k => recs'[i] = recs[i]
         /\ \A i \in DOMAIN recs : recs[i].key = k => recs'[i].key = Wiped /\ recs'[i].part = 4
<1>1. \A i \in DOMAIN recs : recs[i].part = 4
  BY Complete
<1>2. Places(k) = {i \in DOMAIN recs : recs[i].key = k}
  BY <1>1 DEF Places
<1>3. ASSUME NEW i \in DOMAIN recs, recs[i].key = k
      PROVE  i \in Places(k) /\ i = Least(Places(k))
  <2>1. Places(k) = {i}
    BY <1>2, <1>3 DEF Once
  <2>2. Places(k) \in SUBSET Nat
    BY Domains DEF Places
  <2>3. QED
    BY <2>1, <2>2, LeastOf
<1>4. \A i \in DOMAIN recs : recs[i].key # k => i \notin Places(k)
  BY <1>2
<1>5. \A i \in DOMAIN recs : recs[i] \in Record
  BY Domains
<1>6. QED
  BY <1>1, <1>3, <1>4, <1>5, WipedType DEF Record

-----------------------------------------------------------------------------
(* Types, for pages of both kinds. *)

LEMMA TypeStep ==
  ASSUME TInv, [Next]_vars
  PROVE  TInv'
<1> USE FlatAssumption DEF Lost
<1>1. TypeOK /\ Waiting
  BY DEF TInv
<1>2. /\ content \in [Procs -> Contents \union {NoContent, Torn}]
      /\ pos \in [Procs -> Lost..Len(recs)]
      /\ map \in [Keys -> Contents \union {NoContent}]
      /\ iter \in [Procs -> [owed : SUBSET Keys, may : SUBSET Keys]]
  BY <1>1 DEF TypeOK
<1>3. ASSUME NEW k \in Keys, NEW c \in Contents
      PROVE  NewRecord(k, c) \in Record /\ NewRecord(k, c).part = 1
  BY DEF NewRecord, Record
<1>4. ASSUME NEW k \in Keys, NEW gone \in SUBSET Keys, Touch(k, gone)
      PROVE  iter' \in [Procs -> [owed : SUBSET Keys, may : SUBSET Keys]]
  <2>1. \A p \in Procs : iter[p].owed \in SUBSET Keys /\ iter[p].may \in SUBSET Keys
    BY <1>2
  <2>2. QED
    BY <1>4, <2>1 DEF Touch
<1>5. ASSUME NEW k \in Keys, NEW c \in Contents, recs' = Append(recs, NewRecord(k, c)),
             \A i \in DOMAIN recs : recs[i].part = 4, pos' = pos
      PROVE  /\ recs' \in Seq(Record) /\ \A i \in DOMAIN recs' : i < Len(recs') => recs'[i].part = 4
             /\ pos' \in [Procs -> Lost..Len(recs')]
  <2>1. /\ recs' \in Seq(Record) /\ Len(recs) \in Nat /\ Len(recs') = Len(recs) + 1
        /\ DOMAIN recs = 1..Len(recs) /\ DOMAIN recs' = 1 .. Len(recs) + 1
        /\ \A i \in DOMAIN recs : recs'[i] = recs[i]
    BY <1>1, <1>3, <1>5, OneMore DEF TypeOK
  <2>2. \A p \in Procs : pos[p] \in Lost..Len(recs')
    BY <1>2, <2>1
  <2>3. QED
    BY <1>2, <1>5, <2>1, <2>2
<1>6. ASSUME NEW k \in Keys, recs' = flatfilewipekey(k), \A i \in DOMAIN recs : recs[i].part = 4, pos' = pos
      PROVE  /\ recs' \in Seq(Record) /\ \A i \in DOMAIN recs' : recs'[i].part = 4
             /\ pos' \in [Procs -> Lost..Len(recs')]
  BY <1>1, <1>2, <1>6, WipedType
<1>7. ASSUME NEW k \in Keys, NEW c \in Contents, Insert(k, c)
      PROVE  TInv'
  <2>1. pending' = pending /\ content' = content /\ pos' = pos /\ recs' = Append(recs, NewRecord(k, c))
    BY <1>7 DEF Insert
  <2>2. map' \in [Keys -> Contents \union {NoContent}] /\ Touch(k, {})
    BY <1>2, <1>7 DEF Insert
  <2>3. pending = <<>> /\ \A i \in DOMAIN recs : recs[i].part = 4
    BY <1>1, <1>7, Complete DEF Insert
  <2>4. iter' \in [Procs -> [owed : SUBSET Keys, may : SUBSET Keys]]
    BY <1>4, <2>2
  <2>5. /\ recs' \in Seq(Record) /\ \A i \in DOMAIN recs' : i < Len(recs') => recs'[i].part = 4
        /\ pos' \in [Procs -> Lost..Len(recs')]
    BY <1>5, <2>1, <2>3
  <2>6. QED
    BY <1>2, <2>1, <2>2, <2>3, <2>4, <2>5 DEF TInv, TypeOK, Waiting
<1>8. ASSUME NEW k \in Keys, NEW c \in Contents, Replace(k, c)
      PROVE  TInv'
  <2>1. /\ pending' = <<NewRecord(k, c)>> /\ content' = content /\ pos' = pos /\ recs' = flatfilewipekey(k)
        /\ Touch(k, {k}) /\ map' = [map EXCEPT ![k] = c]
    BY <1>8 DEF Replace
  <2>2. map' \in [Keys -> Contents \union {NoContent}]
    BY <1>2, <2>1
  <2>3. \A i \in DOMAIN recs : recs[i].part = 4
    BY <1>1, <1>8, Complete DEF Replace
  <2>4. iter' \in [Procs -> [owed : SUBSET Keys, may : SUBSET Keys]]
    BY <1>4, <2>1
  <2>5. /\ recs' \in Seq(Record) /\ \A i \in DOMAIN recs' : recs'[i].part = 4
        /\ pos' \in [Procs -> Lost..Len(recs')]
    BY <1>6, <2>1, <2>3
  <2>6. Len(pending') = 1 /\ pending'[1] \in Record
    BY <1>3, <2>1
  <2>7. QED
    BY <1>2, <2>1, <2>2, <2>4, <2>5, <2>6 DEF TInv, TypeOK, Waiting
<1>9. ASSUME NEW k \in Keys, Delete(k)
      PROVE  TInv'
  <2>1. /\ pending' = pending /\ content' = content /\ pos' = pos /\ recs' = flatfilewipekey(k)
        /\ Touch(k, {k}) /\ map' = [map EXCEPT ![k] = NoContent]
    BY <1>9 DEF Delete
  <2>2. map' \in [Keys -> Contents \union {NoContent}]
    BY <1>2, <2>1
  <2>3. pending = <<>> /\ \A i \in DOMAIN recs : recs[i].part = 4
    BY <1>1, <1>9, Complete DEF Delete
  <2>4. iter' \in [Procs -> [owed : SUBSET Keys, may : SUBSET Keys]]
    BY <1>4, <2>1
  <2>5. /\ recs' \in Seq(Record) /\ \A i \in DOMAIN recs' : recs'[i].part = 4
        /\ pos' \in [Procs -> Lost..Len(recs')]
    BY <1>6, <2>1, <2>3
  <2>6. QED
    BY <1>2, <2>1, <2>2, <2>3, <2>4, <2>5 DEF TInv, TypeOK, Waiting
<1>10. CASE AppendPending
  <2>1. /\ pending # <<>> /\ recs' = recs \o pending /\ pending' = <<>>
        /\ content' = content /\ pos' = pos /\ map' = map /\ iter' = iter
    BY <1>10 DEF AppendPending
  <2>2. PICK k \in Keys, c \in Contents : pending = <<NewRecord(k, c)>>
    BY <1>1, <2>1 DEF Waiting
  <2>3. recs' = Append(recs, NewRecord(k, c))
    BY <1>1, <1>3, <2>1, <2>2, AppendIsConcat DEF TypeOK
  <2>4. \A i \in DOMAIN recs : recs[i].part = 4
    BY <1>1, <2>1 DEF Waiting
  <2>5. /\ recs' \in Seq(Record) /\ \A i \in DOMAIN recs' : i < Len(recs') => recs'[i].part = 4
        /\ pos' \in [Procs -> Lost..Len(recs')]
    BY <1>5, <2>1, <2>3, <2>4
  <2>6. QED
    BY <1>2, <2>1, <2>5 DEF TInv, TypeOK, Waiting
<1>11. CASE WriteOn
  <2>1. /\ recs # <<>> /\ recs[Len(recs)].part < 4 /\ recs' = [recs EXCEPT ![Len(recs)].part = @ + 1]
        /\ pending' = pending /\ content' = content /\ pos' = pos /\ map' = map /\ iter' = iter
    BY <1>11 DEF WriteOn
  <2>2. PICK n \in DOMAIN recs : n = Len(recs)
    BY <1>1, <2>1, Domains
  <2>3. PICK r \in Record : r = [recs[n] EXCEPT !.part = @ + 1]
    <3>1. recs[n] \in Record
      BY <1>1, Domains
    <3>2. recs[n].part + 1 \in 1..4
      BY <2>1, <2>2, <3>1 DEF Record
    <3>3. [recs[n] EXCEPT !.part = @ + 1] \in Record
      BY <3>1, <3>2 DEF Record
    <3>4. QED
      BY <3>3
  <2>4. recs' = [recs EXCEPT ![n] = r]
    BY <2>1, <2>2, <2>3
  <2>5. recs' \in Seq(Record) /\ Len(recs') = Len(recs) /\ DOMAIN recs' = DOMAIN recs
        /\ \A i \in DOMAIN recs : i # n => recs'[i] = recs[i]
    BY <1>1, <2>4, Domains, ExceptSeq
  <2>6. pending = <<>>
    BY <1>1, <2>1, <2>2 DEF Waiting
  <2>7. QED
    BY <1>1, <1>2, <2>1, <2>2, <2>5, <2>6 DEF TInv, TypeOK, Waiting
<1>12. ASSUME NEW p \in Procs, NEW k \in Keys, Fetch(p, k)
       PROVE  TInv'
  <2>1. Read(p, k) \in Contents \union {NoContent, Torn}
    <3>1. CASE Places(k) = {}
      BY <1>2, <3>1 DEF Read
    <3>2. CASE Places(k) # {}
      <4>1. Places(k) \in SUBSET Nat
        BY <1>1, Domains DEF Places
      <4>2. Least(Places(k)) \in DOMAIN recs
        BY <3>2, <4>1, LeastOf DEF Places
      <4>3. recs[Least(Places(k))].content \in Contents
        BY <1>1, <4>2, Domains DEF Record
      <4>4. QED
        BY <1>2, <3>2, <4>3 DEF Read
    <3>3. QED
      BY <3>1, <3>2
  <2>2. content' = [content EXCEPT ![p] = Read(p, k)] /\ UNCHANGED <<recs, pending, pos, map, iter>>
    BY <1>12 DEF Fetch
  <2>3. content' \in [Procs -> Contents \union {NoContent, Torn}]
    BY <1>2, <2>1, <2>2
  <2>4. QED
    BY <1>1, <2>2, <2>3 DEF TInv, TypeOK, Waiting
<1>13. ASSUME NEW p \in Procs, NEW k \in Keys, FetchDies(p, k)
       PROVE  TInv'
  <2>1. /\ content' = [content EXCEPT ![p] = NoContent] /\ pos' = [pos EXCEPT ![p] = 0]
        /\ iter' = [iter EXCEPT ![p] = NoIteration] /\ UNCHANGED <<recs, pending, map>>
    BY <1>13 DEF FetchDies
  <2>2. content' \in [Procs -> Contents \union {NoContent, Torn}]
    BY <1>2, <2>1
  <2>3. 0 \in 0..Len(recs)
    BY <1>1, Domains
  <2>4. pos' \in [Procs -> Lost..Len(recs)]
    BY <1>2, <2>1, <2>3
  <2>5. iter' \in [Procs -> [owed : SUBSET Keys, may : SUBSET Keys]]
    BY <1>2, <2>1 DEF NoIteration
  <2>6. QED
    BY <1>1, <2>1, <2>2, <2>4, <2>5 DEF TInv, TypeOK, Waiting
<1>14. ASSUME NEW m \in Nat, Later(m) # {}
       PROVE  Least(Later(m)) \in 0..Len(recs)
  <2>1. Later(m) \in SUBSET Nat
    BY <1>1, Domains DEF Later
  <2>2. Least(Later(m)) \in DOMAIN recs
    BY <1>14, <2>1, LeastOf DEF Later
  <2>3. QED
    BY <1>1, <2>2, Domains
<1>15. ASSUME NEW p \in Procs, FirstKey(p)
       PROVE  TInv'
  <2>1. pos' = [pos EXCEPT ![p] = Least(Later(0))] /\ UNCHANGED <<recs, pending, content, map>>
    BY <1>15 DEF FirstKey, GoTo
  <2>2. Least(Later(0)) \in 0..Len(recs)
    BY <1>14, <1>15 DEF FirstKey, Ends
  <2>3. pos' \in [Procs -> Lost..Len(recs)]
    BY <1>2, <2>1, <2>2
  <2>4. iter' \in [Procs -> [owed : SUBSET Keys, may : SUBSET Keys]]
    BY <1>2, <1>15 DEF FirstKey
  <2>5. QED
    BY <1>1, <2>1, <2>3, <2>4 DEF TInv, TypeOK, Waiting
<1>16. ASSUME NEW p \in Procs, NextKey(p)
       PROVE  TInv'
  <2> DEFINE i == Least(Later(pos[p]))
  <2>1. /\ pos' = [pos EXCEPT ![p] = i] /\ iter' = [iter EXCEPT ![p].owed = @ \ {recs[i].key}]
        /\ UNCHANGED <<recs, pending, content, map>>
    BY <1>16 DEF NextKey, GoTo
  <2>2. i \in 0..Len(recs)
    <3>1. pos[p] \in Nat
      BY <1>1, <1>2, <1>16, Domains DEF NextKey
    <3>2. QED
      BY <1>14, <1>16, <3>1 DEF NextKey, Ends
  <2> HIDE DEF i
  <2>3. pos' \in [Procs -> Lost..Len(recs)]
    BY <1>2, <2>1, <2>2
  <2>4. iter' \in [Procs -> [owed : SUBSET Keys, may : SUBSET Keys]]
    BY <1>2, <2>1
  <2>5. QED
    BY <1>1, <2>1, <2>3, <2>4 DEF TInv, TypeOK, Waiting
<1>17. ASSUME NEW p \in Procs, NEW at \in Lost..Len(recs), Astray(p, at)
       PROVE  TInv'
  <2>1. /\ pos' = [pos EXCEPT ![p] = at] /\ iter' = [iter EXCEPT ![p] = NoIteration]
        /\ UNCHANGED <<recs, pending, content, map>>
    BY <1>17 DEF Astray
  <2>2. pos' \in [Procs -> Lost..Len(recs)]
    BY <1>2, <2>1
  <2>3. iter' \in [Procs -> [owed : SUBSET Keys, may : SUBSET Keys]]
    BY <1>2, <2>1 DEF NoIteration
  <2>4. QED
    BY <1>1, <2>1, <2>2, <2>3 DEF TInv, TypeOK, Waiting
<1>18. ASSUME NEW p \in Procs, FirstKeyCut(p) \/ NextKeyCut(p)
       PROVE  TInv'
  <2>1. Lost \in Lost..Len(recs)
    BY <1>1, Domains
  <2>2. Astray(p, Lost)
    BY <1>18 DEF FirstKeyCut, NextKeyCut
  <2>3. QED
    BY <1>17, <2>1, <2>2
<1>19. ASSUME NEW p \in Procs, NextKeyAstray(p)
       PROVE  TInv'
  <2>1. PICK at \in {pos[p], Lost} \union {i \in DOMAIN recs : recs[i].part >= 2} : Astray(p, at)
    BY <1>19 DEF NextKeyAstray
  <2>2. at \in Lost..Len(recs)
    BY <1>1, <1>2, Domains
  <2>3. QED
    BY <1>17, <2>1, <2>2
<1>20. CASE UNCHANGED vars
  BY <1>1, <1>20 DEF vars, TInv, TypeOK, Waiting
<1>21. QED
  BY <1>7, <1>8, <1>9, <1>10, <1>11, <1>12, <1>13, <1>15, <1>16, <1>18, <1>19, <1>20 DEF Next

-----------------------------------------------------------------------------
(* Contents, for pages that insert only keys that are not there.           *)

LEMMA Grows ==
  ASSUME TypeOK, Once, Ahead, NEW k \in Keys, NEW c \in Contents,
         recs' = Append(recs, NewRecord(k, c)), \A i \in DOMAIN recs : recs[i].key # k,
         pending = <<>> \/ pending[1].key = k, pending' = <<>>,
         map'[k] = c, \A q \in Keys \ {k} : map'[q] = map[q], pos' = pos,
         \A p \in Procs : iter'[p].owed = iter[p].owed /\ iter[p].may \union {k} \subseteq iter'[p].may
  PROVE  Once' /\ Ahead'
<1> DEFINE n == Len(recs)
<1>1. NewRecord(k, c) \in Record /\ NewRecord(k, c).key = k /\ NewRecord(k, c).content = c
  BY DEF NewRecord, Record
<1>2. /\ n \in Nat /\ DOMAIN recs = 1..n /\ DOMAIN recs' = 1 .. n + 1
      /\ recs'[n + 1].key = k /\ recs'[n + 1].content = c
      /\ \A i \in DOMAIN recs : recs'[i] = recs[i]
  BY <1>1, OneMore DEF TypeOK
<1> HIDE DEF n
<1>3. \A i \in DOMAIN recs' : i = n + 1 \/ i \in DOMAIN recs
  BY <1>2
<1>4. n + 1 \in DOMAIN recs' /\ \A i \in DOMAIN recs : i \in DOMAIN recs'
  BY <1>2
<1>5. Once'
  <2>1. \A i, j \in DOMAIN recs' : recs'[i].key \in Keys /\ recs'[i].key = recs'[j].key => i = j
    <3> SUFFICES ASSUME NEW i \in DOMAIN recs', NEW j \in DOMAIN recs',
                        recs'[i].key \in Keys, recs'[i].key = recs'[j].key
                 PROVE  i = j
      OBVIOUS
    <3>1. CASE i = n + 1
      BY <1>2, <1>3, <3>1
    <3>2. CASE j = n + 1
      BY <1>2, <1>3, <3>2
    <3>3. CASE i \in DOMAIN recs /\ j \in DOMAIN recs
      BY <1>2, <3>3 DEF Once
    <3>4. QED
      BY <1>3, <3>1, <3>2, <3>3
  <2>2. \A i \in DOMAIN recs' : recs'[i].key \in Keys => recs'[i].content = map'[recs'[i].key]
    <3> TAKE i \in DOMAIN recs'
    <3>1. CASE i = n + 1
      BY <1>2, <3>1
    <3>2. CASE i \in DOMAIN recs
      BY <1>2, <3>2 DEF Once
    <3>3. QED
      BY <1>3, <3>1, <3>2
  <2>3. \A q \in Keys : map'[q] # NoContent => \E i \in DOMAIN recs' : recs'[i].key = q
    <3> SUFFICES ASSUME NEW q \in Keys, map'[q] # NoContent
                 PROVE  \E i \in DOMAIN recs' : recs'[i].key = q
      OBVIOUS
    <3>1. CASE q = k
      BY <1>2, <1>4, <3>1
    <3>2. CASE q # k
      <4>1. PICK i \in DOMAIN recs : recs[i].key = q
        BY <3>2 DEF Once
      <4>2. QED
        BY <1>2, <1>4, <4>1
    <3>3. QED
      BY <3>1, <3>2
  <2>4. QED
    BY <2>1, <2>2, <2>3 DEF Once
<1>6. Ahead'
  <2> SUFFICES ASSUME NEW p \in Procs
               PROVE  /\ \A j \in DOMAIN recs' : j > pos[p] /\ recs'[j].key \in Keys =>
                            recs'[j].key \in iter'[p].owed \union iter'[p].may
                      /\ \A q \in iter[p].owed : \E j \in Places(q)' : j > pos[p]
    BY DEF Ahead
  <2>1. \A j \in DOMAIN recs' : j > pos[p] /\ recs'[j].key \in Keys =>
                            recs'[j].key \in iter'[p].owed \union iter'[p].may
    <3> TAKE j \in DOMAIN recs'
    <3>1. CASE j = n + 1
      BY <1>2, <3>1
    <3>2. CASE j \in DOMAIN recs
      BY <1>2, <3>2 DEF Ahead
    <3>3. QED
      BY <1>3, <3>1, <3>2
  <2>2. \A q \in iter[p].owed : \E j \in Places(q)' : j > pos[p]
    <3> TAKE q \in iter[p].owed
    <3>1. PICK j \in Places(q) : j > pos[p]
      BY DEF Ahead
    <3>2. j \in Places(q)'
      BY <1>2, <1>4, <3>1 DEF Places
    <3>3. QED
      BY <3>1, <3>2
  <2>3. QED
    BY <2>1, <2>2
<1>7. QED
  BY <1>5, <1>6

LEMMA Wipes ==
  ASSUME TypeOK, ~Busy, Once, Ahead, NEW k \in Keys, recs' = flatfilewipekey(k), Touch(k, {k}), pos' = pos,
         \A q \in Keys \ {k} : map'[q] = map[q],
         \/ pending' = <<>> /\ map'[k] = NoContent
         \/ \E c \in Contents : pending' = <<NewRecord(k, c)>> /\ map'[k] = c
  PROVE  Once' /\ Ahead'
<1> USE FlatAssumption
<1>1. /\ DOMAIN recs' = DOMAIN recs
      /\ \A i \in DOMAIN recs : recs[i].key # k => recs'[i] = recs[i]
      /\ \A i \in DOMAIN recs : recs[i].key = k => recs'[i].key = Wiped
  BY WipedOnce
<1>2. Wiped # k /\ \A i \in DOMAIN recs : recs'[i].key # k
  BY <1>1
<1>3. \A i \in DOMAIN recs : recs'[i].key \in Keys => recs[i].key # k /\ recs'[i] = recs[i]
  BY <1>1
<1>4. pending = <<>>
  BY Complete
<1>5. /\ \A p \in Procs : iter'[p].owed = iter[p].owed \ {k} /\ iter'[p].may = iter[p].may \union {k}
  BY DEF Touch
<1>6. Once'
  <2>1. \A i, j \in DOMAIN recs' : recs'[i].key \in Keys /\ recs'[i].key = recs'[j].key => i = j
    BY <1>1, <1>3 DEF Once
  <2>2. \A i \in DOMAIN recs' : recs'[i].key \in Keys => recs'[i].content = map'[recs'[i].key]
    BY <1>1, <1>3 DEF Once
  <2>3. \A q \in Keys : map'[q] # NoContent =>
           (\E i \in DOMAIN recs' : recs'[i].key = q) \/ (pending' # <<>> /\ pending'[1].key = q)
    <3> SUFFICES ASSUME NEW q \in Keys, map'[q] # NoContent
                 PROVE  (\E i \in DOMAIN recs' : recs'[i].key = q) \/ (pending' # <<>> /\ pending'[1].key = q)
      OBVIOUS
    <3>1. CASE q = k
      BY <3>1 DEF NewRecord
    <3>2. CASE q # k
      <4>1. PICK i \in DOMAIN recs : recs[i].key = q
        BY <1>4, <3>2 DEF Once
      <4>2. QED
        BY <1>1, <3>2, <4>1
    <3>3. QED
      BY <3>1, <3>2
  <2>4. ASSUME pending' # <<>>
        PROVE  /\ map'[pending'[1].key] = pending'[1].content
               /\ \A i \in DOMAIN recs' : recs'[i].key # pending'[1].key
               /\ \A p \in Procs : pending'[1].key \in iter'[p].may
    <3>1. PICK c \in Contents : pending' = <<NewRecord(k, c)>> /\ map'[k] = c
      BY <2>4
    <3>2. pending'[1].key = k /\ pending'[1].content = c
      BY <3>1 DEF NewRecord
    <3>3. QED
      BY <1>1, <1>2, <1>5, <3>1, <3>2
  <2>5. QED
    BY <2>1, <2>2, <2>3, <2>4 DEF Once
<1>7. Ahead'
  <2> SUFFICES ASSUME NEW p \in Procs
               PROVE  /\ \A j \in DOMAIN recs' : j > pos[p] /\ recs'[j].key \in Keys =>
                            recs'[j].key \in iter'[p].owed \union iter'[p].may
                      /\ \A q \in iter'[p].owed : \E j \in Places(q)' : j > pos[p]
    BY DEF Ahead
  <2>1. \A j \in DOMAIN recs' : j > pos[p] /\ recs'[j].key \in Keys =>
                            recs'[j].key \in iter'[p].owed \union iter'[p].may
    BY <1>1, <1>3, <1>5 DEF Ahead
  <2>2. \A q \in iter'[p].owed : \E j \in Places(q)' : j > pos[p]
    <3> TAKE q \in iter'[p].owed
    <3>1. q # k /\ q \in iter[p].owed
      BY <1>5
    <3>2. PICK j \in Places(q) : j > pos[p]
      BY <3>1 DEF Ahead
    <3>3. j \in Places(q)'
      BY <1>1, <3>1, <3>2 DEF Places
    <3>4. QED
      BY <3>2, <3>3
  <2>3. QED
    BY <2>1, <2>2
<1>8. QED
  BY <1>6, <1>7

(* The record that an iteration comes to next.                             *)
LEMMA NextRecord ==
  ASSUME TypeOK, NEW m \in Nat, ~Ends(m)
  PROVE  LET i == Least(Later(m)) IN
         /\ i \in DOMAIN recs /\ i > m /\ recs[i].key \in Keys
         /\ \A j \in DOMAIN recs : j > m /\ recs[j].key \in Keys => i <= j
<1> USE FlatAssumption
<1>1. Later(m) \in SUBSET Nat /\ Later(m) # {}
  BY Domains DEF Later, Ends
<1>2. Least(Later(m)) \in Later(m) /\ \A j \in Later(m) : Least(Later(m)) <= j
  BY <1>1, LeastOf
<1>3. PICK i : i = Least(Later(m))
  OBVIOUS
<1>4. i \in DOMAIN recs /\ i > m /\ recs[i].key # Wiped
  BY <1>2, <1>3 DEF Later
<1>5. recs[i].key \in Keys
  BY <1>4, Domains DEF Record
<1>6. \A j \in DOMAIN recs : j > m /\ recs[j].key \in Keys => j \in Later(m)
  BY DEF Later
<1>7. QED
  BY <1>2, <1>3, <1>4, <1>5, <1>6

(* Where it ends no key of a later record can be read: only the last record*)
(* can have no more than the size of its key.                              *)
LEMMA NothingLater ==
  ASSUME TypeOK, NEW m \in Nat, Ends(m), NEW k \in Keys, NEW j \in Places(k), j > m
  PROVE  FALSE
<1> USE FlatAssumption
<1>1. j \in DOMAIN recs /\ recs[j].key = k /\ recs[j].part >= 2 /\ j \in Later(m)
  BY DEF Places, Later
<1>2. recs[Least(Later(m))].part = 1
  BY <1>1 DEF Ends, OnlySize
<1>3. PICK i : i = Least(Later(m))
  OBVIOUS
<1>4. i \in DOMAIN recs /\ i <= j
  <2>1. Later(m) \in SUBSET Nat /\ Later(m) # {}
    BY <1>1, Domains DEF Later
  <2>2. Least(Later(m)) \in Later(m) /\ \A l \in Later(m) : Least(Later(m)) <= l
    BY <2>1, LeastOf
  <2>3. QED
    BY <1>1, <1>3, <2>2 DEF Later
<1>5. ~(i < Len(recs))
  BY <1>2, <1>3, <1>4 DEF TypeOK
<1>6. i = j
  BY <1>1, <1>4, <1>5, Domains
<1>7. QED
  BY <1>1, <1>2, <1>3, <1>6

(* When it ends nothing is left that it must return: what is not yet       *)
(* readable was never owed.                                                *)
LEMMA NothingOwed ==
  ASSUME TypeOK, Ahead, NEW p \in Procs, pos[p] > 0, Ends(pos[p])
  PROVE  iter[p].owed = {}
<1> SUFFICES ASSUME NEW k \in iter[p].owed
             PROVE  FALSE
  OBVIOUS
<1>1. PICK j \in Places(k) : j > pos[p]
  BY DEF Ahead
<1>2. k \in Keys /\ pos[p] \in Nat
  BY Domains DEF TypeOK, Lost
<1>3. QED
  BY <1>1, <1>2, NothingLater

LEMMA OnceStep ==
  ASSUME ~Presents, TInv, Once, Ahead, [Next]_vars
  PROVE  Once' /\ Ahead'
<1> USE FlatAssumption
<1>1. TypeOK /\ Waiting
  BY DEF TInv
<1>2. \A i \in DOMAIN recs : recs[i].content \in Contents
  BY <1>1, Domains DEF Record
<1>3. ASSUME NEW k \in Keys, NEW c \in Contents, Insert(k, c)
      PROVE  Once' /\ Ahead'
  <2>1. pending = <<>>
    BY <1>1, <1>3, Complete DEF Insert
  <2>2. /\ recs' = Append(recs, NewRecord(k, c)) /\ map[k] = NoContent /\ map' = [map EXCEPT ![k] = c]
        /\ Touch(k, {}) /\ pending' = <<>> /\ pos' = pos
    BY <1>3, <2>1 DEF Insert
  <2>3. \A i \in DOMAIN recs : recs[i].key # k
    BY <1>2, <2>2 DEF Once
  <2>4. map'[k] = c /\ \A q \in Keys \ {k} : map'[q] = map[q]
    BY <1>1, <2>2 DEF TypeOK
  <2>5. \A p \in Procs : iter'[p].owed = iter[p].owed /\ iter[p].may \union {k} \subseteq iter'[p].may
    BY <2>2 DEF Touch
  <2>6. QED
    BY <1>1, <2>1, <2>2, <2>3, <2>4, <2>5, Grows
<1>4. ASSUME NEW k \in Keys, NEW c \in Contents, Replace(k, c)
      PROVE  Once' /\ Ahead'
  <2>1. /\ ~Busy /\ recs' = flatfilewipekey(k) /\ pending' = <<NewRecord(k, c)>>
        /\ map' = [map EXCEPT ![k] = c] /\ Touch(k, {k}) /\ pos' = pos
    BY <1>4 DEF Replace
  <2>2. map'[k] = c /\ \A q \in Keys \ {k} : map'[q] = map[q]
    BY <1>1, <2>1 DEF TypeOK
  <2>3. QED
    BY <1>1, <2>1, <2>2, Wipes
<1>5. ASSUME NEW k \in Keys, Delete(k)
      PROVE  Once' /\ Ahead'
  <2>1. /\ ~Busy /\ recs' = flatfilewipekey(k) /\ pending' = pending
        /\ map' = [map EXCEPT ![k] = NoContent] /\ Touch(k, {k}) /\ pos' = pos
    BY <1>5 DEF Delete
  <2>2. map'[k] = NoContent /\ \A q \in Keys \ {k} : map'[q] = map[q]
    BY <1>1, <2>1 DEF TypeOK
  <2>3. pending = <<>>
    BY <1>1, <2>1, Complete
  <2>4. QED
    BY <1>1, <2>1, <2>2, <2>3, Wipes
<1>6. CASE AppendPending
  <2>1. /\ pending # <<>> /\ recs' = recs \o pending /\ pending' = <<>>
        /\ pos' = pos /\ map' = map /\ iter' = iter
    BY <1>6 DEF AppendPending
  <2>2. PICK k \in Keys, c \in Contents : pending = <<NewRecord(k, c)>>
    BY <1>1, <2>1 DEF Waiting
  <2>3. NewRecord(k, c) \in Record /\ pending[1].key = k /\ pending[1].content = c
    BY <2>2 DEF NewRecord, Record
  <2>4. recs' = Append(recs, NewRecord(k, c))
    BY <1>1, <2>1, <2>2, <2>3, AppendIsConcat DEF TypeOK
  <2>5. \A i \in DOMAIN recs : recs[i].key # k
    BY <2>1, <2>3 DEF Once
  <2>6. map'[k] = c /\ \A p \in Procs : k \in iter[p].may
    BY <2>1, <2>3 DEF Once
  <2>7. QED
    BY <1>1, <2>1, <2>3, <2>4, <2>5, <2>6, Grows
<1>7. CASE WriteOn
  <2>1. /\ recs # <<>> /\ recs' = [recs EXCEPT ![Len(recs)].part = @ + 1]
        /\ pending' = pending /\ pos' = pos /\ map' = map /\ iter' = iter
    BY <1>7 DEF WriteOn
  <2>2. PICK n \in DOMAIN recs : n = Len(recs)
    BY <1>1, <2>1, Domains
  <2>3. \A i \in DOMAIN recs : recs[i] \in Record
    BY <1>1, Domains
  <2>4. DOMAIN recs' = DOMAIN recs /\ recs'[n] = [recs[n] EXCEPT !.part = @ + 1]
        /\ \A i \in DOMAIN recs : i # n => recs'[i] = recs[i]
    BY <2>1, <2>2
  <2>5. \A i \in DOMAIN recs : /\ recs'[i].key = recs[i].key /\ recs'[i].content = recs[i].content
                               /\ recs[i].part >= 2 => recs'[i].part >= 2
    BY <2>3, <2>4 DEF Record
  <2>6. Once'
    BY <2>1, <2>4, <2>5 DEF Once
  <2>7. \A k : Places(k) \subseteq Places(k)'
    BY <2>4, <2>5 DEF Places
  <2>8. Ahead'
    BY <2>1, <2>4, <2>5, <2>7 DEF Ahead
  <2>9. QED
    BY <2>6, <2>8
<1>8. ASSUME NEW p \in Procs, NEW k \in Keys, Fetch(p, k)
      PROVE  Once' /\ Ahead'
  BY <1>8 DEF Fetch, Once, Ahead, Places
<1>9. ASSUME NEW p \in Procs, UNCHANGED <<recs, pending, map>>,
             NEW at, pos' = [pos EXCEPT ![p] = at], NEW it, iter' = [iter EXCEPT ![p] = it],
             \A j \in DOMAIN recs : j > at /\ recs[j].key \in Keys => recs[j].key \in it.owed \union it.may,
             \A k \in it.owed : \E j \in Places(k) : j > at,
             pending # <<>> => pending[1].key \in it.may
      PROVE  Once' /\ Ahead'
  <2>1. /\ pos'[p] = at /\ iter'[p] = it
        /\ \A q \in Procs \ {p} : pos'[q] = pos[q] /\ iter'[q] = iter[q]
    BY <1>1, <1>9 DEF TypeOK
  <2>2. Once'
    BY <1>9, <2>1 DEF Once
  <2>3. \A k : Places(k)' = Places(k)
    BY <1>9 DEF Places
  <2>4. Ahead'
    BY <1>9, <2>1, <2>3 DEF Ahead
  <2>5. QED
    BY <2>2, <2>4
<1>10. \A k \in Keys : pending # <<>> /\ pending[1].key = k => Places(k) = {}
  BY DEF Once, Places
<1>11. pending # <<>> => pending[1].key \in Keys
  BY <1>1 DEF Waiting, NewRecord
<1>12. ASSUME NEW p \in Procs, NEW k \in Keys, FetchDies(p, k)
       PROVE  Once' /\ Ahead'
  <2>1. /\ pos' = [pos EXCEPT ![p] = 0] /\ iter' = [iter EXCEPT ![p] = NoIteration]
        /\ UNCHANGED <<recs, pending, map>>
    BY <1>12 DEF FetchDies
  <2>2. NoIteration.owed = {} /\ NoIteration.may = Keys
    BY DEF NoIteration
  <2>3. QED
    BY <1>9, <1>11, <2>1, <2>2
<1>13. ASSUME NEW p \in Procs, FirstKey(p)
       PROVE  Once' /\ Ahead'
  <2>1. PICK i : i = Least(Later(0))
    OBVIOUS
  <2>2. PICK it : it = [owed |-> {k \in Keys \ {recs[i].key} : Places(k) # {}},
                        may |-> {k \in Keys : Places(k) = {}}]
    OBVIOUS
  <2>3. /\ pos' = [pos EXCEPT ![p] = i] /\ iter' = [iter EXCEPT ![p] = it]
        /\ UNCHANGED <<recs, pending, map>>
    BY <1>13, <2>1, <2>2 DEF FirstKey, GoTo
  <2>4. /\ i \in DOMAIN recs /\ recs[i].key \in Keys
        /\ \A j \in DOMAIN recs : j > 0 /\ recs[j].key \in Keys => i <= j
    BY <1>1, <1>13, <2>1, NextRecord DEF FirstKey
  <2>5. \A j \in DOMAIN recs : j > i /\ recs[j].key \in Keys => recs[j].key \in it.owed \union it.may
    BY <1>1, <2>2, <2>4, Domains DEF Once
  <2>6. \A k \in it.owed : \E j \in Places(k) : j > i
    <3> TAKE k \in it.owed
    <3>1. k \in Keys /\ k # recs[i].key
      BY <2>2
    <3>2. PICK j \in Places(k) : TRUE
      BY <2>2
    <3>3. j \in DOMAIN recs /\ recs[j].key = k /\ j # i /\ j > 0
      BY <1>1, <3>1, <3>2, Domains DEF Places
    <3>4. j > i
      BY <1>1, <2>4, <3>1, <3>3, Domains
    <3>5. QED
      BY <3>4
  <2>7. pending # <<>> => pending[1].key \in it.may
    BY <1>10, <1>11, <2>2
  <2>8. QED
    BY <1>9, <2>3, <2>5, <2>6, <2>7
<1>14. ASSUME NEW p \in Procs, NextKey(p)
       PROVE  Once' /\ Ahead'
  <2>1. PICK i : i = Least(Later(pos[p]))
    OBVIOUS
  <2>2. iter[p] \in [owed : SUBSET Keys, may : SUBSET Keys] /\ pos[p] \in Nat
    BY <1>1, <1>14, Domains DEF TypeOK, NextKey, Lost
  <2>3. PICK it : it = [iter[p] EXCEPT !.owed = @ \ {recs[i].key}]
    OBVIOUS
  <2>4. it.owed = iter[p].owed \ {recs[i].key} /\ it.may = iter[p].may
    BY <2>2, <2>3
  <2>5. /\ pos' = [pos EXCEPT ![p] = i] /\ iter' = [iter EXCEPT ![p] = it]
        /\ UNCHANGED <<recs, pending, map>>
    BY <1>14, <2>1, <2>3 DEF NextKey, GoTo
  <2>6. /\ i \in DOMAIN recs /\ recs[i].key \in Keys /\ i > pos[p]
        /\ \A j \in DOMAIN recs : j > pos[p] /\ recs[j].key \in Keys => i <= j
    BY <1>1, <1>14, <2>1, <2>2, NextRecord DEF NextKey
  <2>7. \A j \in DOMAIN recs : j > i /\ recs[j].key \in Keys => recs[j].key \in it.owed \union it.may
    <3> SUFFICES ASSUME NEW j \in DOMAIN recs, j > i, recs[j].key \in Keys
                 PROVE  recs[j].key \in it.owed \union it.may
      OBVIOUS
    <3>1. i \in Nat /\ j \in Nat /\ j # i
      BY <1>1, <2>6, Domains
    <3>2. recs[j].key \in iter[p].owed \union iter[p].may
      BY <2>2, <2>6, <3>1 DEF Ahead
    <3>3. recs[j].key # recs[i].key
      BY <2>6, <3>1 DEF Once
    <3>4. QED
      BY <2>4, <3>2, <3>3
  <2>8. \A k \in it.owed : \E j \in Places(k) : j > i
    <3> TAKE k \in it.owed
    <3>1. k \in Keys /\ k # recs[i].key /\ k \in iter[p].owed
      BY <2>2, <2>4
    <3>2. PICK j \in Places(k) : j > pos[p]
      BY <3>1 DEF Ahead
    <3>3. j \in DOMAIN recs /\ recs[j].key = k /\ j # i
      BY <3>1, <3>2 DEF Places
    <3>4. j > i
      BY <1>1, <2>6, <3>1, <3>2, <3>3, Domains
    <3>5. QED
      BY <3>4
  <2>9. pending # <<>> => pending[1].key \in it.may
    BY <2>4 DEF Once
  <2>10. QED
    BY <1>9, <2>5, <2>7, <2>8, <2>9
<1>15. ASSUME NEW p \in Procs, NEW at, Astray(p, at)
       PROVE  Once' /\ Ahead'
  <2>1. /\ pos' = [pos EXCEPT ![p] = at] /\ iter' = [iter EXCEPT ![p] = NoIteration]
        /\ UNCHANGED <<recs, pending, map>>
    BY <1>15 DEF Astray
  <2>2. NoIteration.owed = {} /\ NoIteration.may = Keys
    BY DEF NoIteration
  <2>3. QED
    BY <1>9, <1>11, <2>1, <2>2
<1>16. ASSUME NEW p \in Procs, FirstKeyCut(p) \/ NextKeyCut(p) \/ NextKeyAstray(p)
       PROVE  Once' /\ Ahead'
  BY <1>15, <1>16 DEF FirstKeyCut, NextKeyCut, NextKeyAstray
<1>17. CASE UNCHANGED vars
  BY <1>17 DEF vars, Once, Ahead, Places
<1>18. QED
  BY <1>3, <1>4, <1>5, <1>6, <1>7, <1>8, <1>12, <1>13, <1>14, <1>16, <1>17 DEF Next

-----------------------------------------------------------------------------
(* The theorems. *)

(* The inductive invariant: a key is in one record at most, which says     *)
(* what the map says, or is about to be appended (db.c:550-1135).          *)
THEOREM FlatInvariant == Spec => []IInv
<1>1. Init => IInv
  <2> SUFFICES ASSUME Init
               PROVE  IInv
    OBVIOUS
  <2>1. recs = <<>> /\ pending = <<>> /\ DOMAIN recs = {} /\ \A k \in Keys : map[k] = NoContent
    BY DEF Init
  <2>2. TypeOK
    BY <2>1, EmptySeq DEF Init, TypeOK, NoIteration, Lost
  <2>3. Waiting /\ Once
    BY <2>1 DEF Waiting, Once
  <2>4. Ahead
    BY <2>1 DEF Init, Ahead, NoIteration
  <2>5. QED
    BY <2>2, <2>3, <2>4 DEF IInv, TInv
<1>2. IInv /\ [Next]_vars => IInv'
  BY TypeStep, OnceStep DEF IInv
<1>3. QED
  BY <1>1, <1>2, PTL DEF Spec

(* Between two calls of the writer the file is the map that inserts,       *)
(* replaces and deletes describe, however many records have been wiped, if *)
(* pages insert only keys that are not there (db.c:600-780).               *)
THEOREM FlatFaithful == ASSUME ~Presents PROVE Spec => []FlatInv
<1>1. IInv => FlatInv
  <2> SUFFICES ASSUME TypeOK, Once, ~Busy, NEW k \in Keys
               PROVE  Lookup(k) = map[k]
    BY DEF IInv, TInv, FlatInv, MapFaithful
  <2>1. pending = <<>> /\ \A i \in DOMAIN recs : recs[i].part = 4
    BY Complete
  <2>2. Places(k) = {i \in DOMAIN recs : recs[i].key = k}
    BY <2>1 DEF Places
  <2>3. CASE Places(k) = {}
    <3>1. map[k] = NoContent
      BY <2>1, <2>2, <2>3 DEF Once
    <3>2. QED
      BY <2>3, <3>1 DEF Lookup
  <2>4. CASE Places(k) # {}
    <3>1. Places(k) \in SUBSET Nat
      BY Domains DEF Places
    <3>2. Least(Places(k)) \in Places(k)
      BY <2>4, <3>1, LeastOf
    <3>3. recs[Least(Places(k))].content = map[k]
      BY <2>2, <3>2 DEF Once
    <3>4. QED
      BY <2>4, <3>3 DEF Lookup
  <2>5. QED
    BY <2>3, <2>4
<1>2. QED
  BY <1>1, FlatInvariant, PTL

(* An iteration returns every key that stays in the file, and returns it   *)
(* once, whatever the writer inserts, replaces and deletes between its     *)
(* calls, and dbmfirstkey returns "" only if no key can be read, if pages  *)
(* insert only keys that are not there (db.c:727-793).                     *)
THEOREM FlatIteration == ASSUME ~Presents PROVE Spec => IterationExact
<1> DEFINE Step == \A p \in Procs :
                     /\ NextKey(p) => recs[pos'[p]].key \in iter[p].owed \union iter[p].may
                     /\ pos[p] > 0 /\ Ends(pos[p]) => iter[p].owed = {}
                     /\ Ends(0) => \A k \in Keys : Places(k) = {}
<1>1. ASSUME IInv
      PROVE  Step
  <2>1. TypeOK /\ Once /\ Ahead
    BY <1>1 DEF IInv, TInv
  <2> SUFFICES ASSUME NEW p \in Procs
               PROVE  /\ NextKey(p) => recs[pos'[p]].key \in iter[p].owed \union iter[p].may
                      /\ pos[p] > 0 /\ Ends(pos[p]) => iter[p].owed = {}
                      /\ Ends(0) => \A k \in Keys : Places(k) = {}
    OBVIOUS
  <2>2. ASSUME NextKey(p)
        PROVE  recs[pos'[p]].key \in iter[p].owed \union iter[p].may
    <3>1. PICK i : i = Least(Later(pos[p]))
      OBVIOUS
    <3>2. pos[p] \in Nat /\ pos'[p] = i
      BY <2>1, <2>2, <3>1, Domains DEF NextKey, GoTo, TypeOK, Lost
    <3>3. i \in DOMAIN recs /\ i > pos[p] /\ recs[i].key \in Keys
      BY <2>1, <2>2, <3>1, <3>2, NextRecord DEF NextKey
    <3>4. QED
      BY <2>1, <3>2, <3>3 DEF Ahead
  <2>3. ASSUME Ends(0), NEW k \in Keys, NEW j \in Places(k)
        PROVE  FALSE
    <3>1. j > 0
      BY <2>1, Domains DEF Places
    <3>2. QED
      BY <2>1, <2>3, <3>1, NothingLater
  <2>4. QED
    BY <2>1, <2>2, <2>3, NothingOwed
<1> HIDE DEF Step
<1>2. Spec => [][Step]_vars
  BY <1>1, FlatInvariant, PTL DEF Spec
<1>3. QED
  BY <1>2 DEF Step, IterationExact
=============================================================================
