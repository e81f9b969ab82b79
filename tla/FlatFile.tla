------------------------------ MODULE FlatFile -----------------------------
(***************************************************************************)
(* The flat-file database of db.c, used when PHP is built without gdbm and *)
(* ndbm: the functions that read and write the records of one file.        *)
(*                                                                         *)
(* One process has the file open for writing (DbmLock: WriterExclusion),   *)
(* others have it open for reading, without any lock.  Each write call is  *)
(* a step; a search reads the file in one step, because writes change only *)
(* what is at the end of the file or wipe a key where it stands.           *)
(* Records are wiped, never removed.                                       *)
(***************************************************************************)
EXTENDS Integers, Sequences

CONSTANTS
  Procs,       \* the processes that have the file open
  Writer,      \* the one that may write
  Keys,        \* the keys of records
  Contents,    \* the contents of records
  Wiped,       \* a key whose first byte has been overwritten by 0
  NoContent,   \* no content, an empty result
  Torn,        \* bytes that nobody wrote as a content
  Presents,    \* do pages call dbminsert for keys that are in the file?
  MaxRecords   \* bound: records in the file, wiped ones included

ASSUME FlatAssumption ==
  /\ Writer \in Procs /\ MaxRecords \in Nat /\ Presents \in BOOLEAN
  /\ Wiped \notin Keys /\ {NoContent, Torn} \cap Contents = {}

(* A record is written in four calls: the size of the key, the key, the    *)
(* size of the content, the content.                                       *)
Parts  == <<"key size", "key", "size", "whole">>
Record == [key : Keys \union {Wiped}, content : Contents, part : 1..4]

VARIABLES
  recs,      \* the records of the file
  pending,   \* what dbmreplace must append after wiping, at most one
  content,   \* the static content of _dbmFetch, which it returns
  pos,       \* CurrentFlatFilePos: the record whose key was read last, or Lost
  map,       \* history: the map the manual says the file is
  iter       \* history: keys an iteration must still return, or may return

vars == <<recs, pending, content, pos, map, iter>>

Busy   == pending # <<>> \/ (recs # <<>> /\ recs[Len(recs)].part < 4)
Free(p) == p = Writer => ~Busy

Least(S) == CHOOSE i \in S : \A j \in S : i <= j

(* flatfilefindkey: the places where the key can be read.                  *)
Places(k) == {i \in DOMAIN recs : recs[i].key = k /\ recs[i].part >= 2}

-----------------------------------------------------------------------------
(* Writing. *)

NewRecord(k, c) == [key |-> k, content |-> c, part |-> 1]

(* flatfilewipekey overwrites the first byte of the first key that matches.*)
flatfilewipekey(k) ==
  IF Places(k) = {} THEN recs ELSE [recs EXCEPT ![Least(Places(k))].key = Wiped]

Touch(k, gone) ==
  iter' = [p \in Procs |-> [owed |-> iter[p].owed \ gone, may |-> iter[p].may \union {k}]]

(* dbminsert: appends, whether or not the key is there.                    *)
Insert(k, c) ==
  /\ ~Busy /\ Len(recs) < MaxRecords
  /\ Presents \/ map[k] = NoContent
  /\ recs' = Append(recs, NewRecord(k, c))
  /\ map' = IF map[k] = NoContent THEN [map EXCEPT ![k] = c] ELSE map
  /\ Touch(k, {})
  /\ UNCHANGED <<pending, content, pos>>

(* Mutant: the record that is there is left.                               *)
ReplaceKeepsOld(k, c) ==
  /\ ~Busy /\ Len(recs) < MaxRecords
  /\ pending' = <<NewRecord(k, c)>>
  /\ map' = [map EXCEPT ![k] = c]
  /\ Touch(k, {k})
  /\ UNCHANGED <<recs, content, pos>>

(* dbmreplace: wipes, then appends.                                        *)
Replace(k, c) ==
  /\ ~Busy /\ Len(recs) < MaxRecords
  /\ recs' = flatfilewipekey(k)
  /\ pending' = <<NewRecord(k, c)>>
  /\ map' = [map EXCEPT ![k] = c]
  /\ Touch(k, {k})
  /\ UNCHANGED <<content, pos>>

AppendPending ==
  /\ pending # <<>>
  /\ recs' = recs \o pending
  /\ pending' = <<>>
  /\ UNCHANGED <<content, pos, map, iter>>

WriteOn ==
  /\ recs # <<>> /\ recs[Len(recs)].part < 4
  /\ recs' = [recs EXCEPT ![Len(recs)].part = @ + 1]
  /\ UNCHANGED <<pending, content, pos, map, iter>>

Delete(k) ==
  /\ ~Busy
  /\ recs' = flatfilewipekey(k)
  /\ map' = [map EXCEPT ![k] = NoContent]
  /\ Touch(k, {k})
  /\ UNCHANGED <<pending, content, pos>>

-----------------------------------------------------------------------------
(* Reading. *)

(* What _dbmFetch finds in content once it has searched for k: nothing new *)
(* if the key or the line after it is not there.                           *)
Read(p, k) ==
  IF Places(k) = {} THEN content[p]
  ELSE LET r == recs[Least(Places(k))] IN
       CASE r.part = 2 -> content[p]
         [] r.part = 3 -> Torn
         [] OTHER      -> r.content

Fetch(p, k) ==
  /\ Free(p)
  /\ content' = [content EXCEPT ![p] = Read(p, k)]
  /\ UNCHANGED <<recs, pending, pos, map, iter>>

NoIteration == [owed |-> {}, may |-> Keys]

(* A content that is not empty is passed to free, though it is part of a   *)
(* pool: the library may end the process.  Another takes its place.        *)
FetchDies(p, k) ==
  /\ Free(p) /\ Read(p, k) # NoContent
  /\ content' = [content EXCEPT ![p] = NoContent]
  /\ pos' = [pos EXCEPT ![p] = 0]
  /\ iter' = [iter EXCEPT ![p] = NoIteration]
  /\ UNCHANGED <<recs, pending, map>>

(* Mutant: the position is not moved past wiped records.                   *)
GoToNextRecord(p, i) == pos' = [pos EXCEPT ![p] = @ + 1]

GoTo(p, i) == pos' = [pos EXCEPT ![p] = i]

(* The next key that is not wiped is returned.  If there is none "" is     *)
(* returned, and the position is kept.  If only its size has been written  *)
(* the read gives nothing, but the buffer still holds the size and is no   *)
(* wiped key: "" is returned too, and the position is the end of that line.*)
Later(i)    == {j \in DOMAIN recs : j > i /\ recs[j].key # Wiped}
OnlySize(i) == Later(i) # {} /\ recs[Least(Later(i))].part = 1
Ends(i)     == Later(i) = {} \/ OnlySize(i)

(* The position in the middle of a record.                                 *)
Lost == -1

Astray(p, at) ==
  /\ pos' = [pos EXCEPT ![p] = at]
  /\ iter' = [iter EXCEPT ![p] = NoIteration]
  /\ UNCHANGED <<recs, pending, content, map>>

FirstKeyCut(p) == Free(p) /\ OnlySize(0) /\ Astray(p, Lost)
NextKeyCut(p)  == Free(p) /\ pos[p] > 0 /\ OnlySize(pos[p]) /\ Astray(p, Lost)

(* From such a place, or from the start of the file, keys and contents are *)
(* read as sizes and sizes as keys: it ends anywhere.                      *)
NextKeyAstray(p) ==
  /\ Free(p) /\ pos[p] <= 0
  /\ \E at \in {pos[p], Lost} \union {i \in DOMAIN recs : recs[i].part >= 2} : Astray(p, at)

FirstKey(p) ==
  /\ Free(p) /\ ~Ends(0)
  /\ LET i == Least(Later(0)) IN
       /\ GoTo(p, i)
       /\ iter' = [iter EXCEPT ![p] =
            [owed |-> {k \in Keys \ {recs[i].key} : Places(k) # {}},
             may |-> {k \in Keys : Places(k) = {}}]]
  /\ UNCHANGED <<recs, pending, content, map>>

NextKey(p) ==
  /\ Free(p) /\ pos[p] > 0 /\ ~Ends(pos[p])
  /\ LET i == Least(Later(pos[p])) IN
       /\ GoTo(p, i)
       /\ iter' = [iter EXCEPT ![p].owed = @ \ {recs[i].key}]
  /\ UNCHANGED <<recs, pending, content, map>>

-----------------------------------------------------------------------------

Init ==
  /\ recs = <<>>
  /\ pending = <<>>
  /\ content = [p \in Procs |-> NoContent]
  /\ pos = [p \in Procs |-> 0]
  /\ map = [k \in Keys |-> NoContent]
  /\ iter = [p \in Procs |-> NoIteration]

Next ==
  \/ \E k \in Keys, c \in Contents : Insert(k, c) \/ Replace(k, c)
  \/ \E k \in Keys : Delete(k)
  \/ AppendPending
  \/ WriteOn
  \/ \E p \in Procs :
       \/ \E k \in Keys : Fetch(p, k) \/ FetchDies(p, k)
       \/ FirstKey(p)
       \/ NextKey(p)
       \/ FirstKeyCut(p)
       \/ NextKeyCut(p)
       \/ NextKeyAstray(p)

Spec == Init /\ [][Next]_vars

-----------------------------------------------------------------------------
(* Properties. *)

(* Only the last record can be incomplete; positions are records or lost.  *)
TypeOK ==
  /\ recs \in Seq(Record)
  /\ \A i \in DOMAIN recs : i < Len(recs) => recs[i].part = 4
  /\ pending = <<>> \/ (Len(pending) = 1 /\ pending[1] \in Record)
  /\ content \in [Procs -> Contents \union {NoContent, Torn}]
  /\ pos \in [Procs -> Lost..Len(recs)]
  /\ map \in [Keys -> Contents \union {NoContent}]
  /\ iter \in [Procs -> [owed : SUBSET Keys, may : SUBSET Keys]]

Lookup(k) == IF Places(k) = {} THEN NoContent ELSE recs[Least(Places(k))].content

(* Between two calls of the writer, searching the file from its start finds*)
(* for every key what the last insert or replace stored, and nothing for a *)
(* key that was deleted.                                                   *)
MapFaithful == ~Busy => \A k \in Keys : Lookup(k) = map[k]

(* The file is of its type and the map that inserts, replaces and deletes  *)
(* describe, between two of them (db.c:550-1135).                          *)
FlatInv == TypeOK /\ MapFaithful

(* dbmfirstkey and dbmnextkey return every key that stays in the file, and *)
(* return it once; only keys written in the meantime may come again.  This *)
(* is so from dbmfirstkey on until "" is returned, which dbmfirstkey does  *)
(* only if no key can be read in the file (db.c:727-793).                  *)
IterationExact ==
  [][\A p \in Procs :
       /\ NextKey(p) => recs[pos'[p]].key \in iter[p].owed \union iter[p].may
       /\ pos[p] > 0 /\ Ends(pos[p]) => iter[p].owed = {}
       /\ Ends(0) => \A k \in Keys : Places(k) = {}]_vars

=============================================================================
