----------------------------- MODULE AccessLog -----------------------------
(***************************************************************************)
(* The access log of one page, log.c: every request for the page adds an   *)
(* entry and counts itself in the "last" record, from Exit.                *)
(*                                                                         *)
(* The log is a dbm file (Log) or two tables of an mSQL database (MsqlLog).*)
(* The dbm file is opened as DbmLock describes: as a flat file it is       *)
(* locked once it is open, gdbm refuses to open what is in use.  MsqlLog   *)
(* locks a file of its own, which it makes and removes.  The server, the   *)
(* directories and the "first" record are left out, and so is ndbm.        *)
(***************************************************************************)
EXTENDS Integers, FiniteSets

CONSTANTS
  Procs,      \* the server processes
  Setups,     \* builds and habits of the pages
  Nil,       \* no record, no process, no file
  Attempts,   \* keys tried for an entry: 21
  DayLength,  \* seconds in a day
  MaxTime,    \* bound: the last second
  MaxHits     \* bound: requests for the page

(* exists: the page has been logged before.  footer: pages show or ask for *)
(* their counters, as ShowPageInfo does by default.  kill: a process may   *)
(* end at any time.                                                        *)
Setup == [store : {"flat", "gdbm", "msql"}, exists : BOOLEAN, footer : BOOLEAN, kill : BOOLEAN]

Times  == 0..MaxTime
Record == [time : Times, total : Nat, today : Nat]

ASSUME LogAssumption ==
  /\ Setups \subseteq Setup
  /\ IsFiniteSet(Procs) /\ Nil \notin Procs /\ Nil \notin Record
  /\ Attempts \in Nat \ {0} /\ DayLength \in Nat \ {0} /\ MaxTime \in Nat /\ MaxHits \in Nat

Locks == 0..Cardinality(Procs)   \* 0: the dbm file; the others: inodes of lock files

VARIABLES
  setup,     \* chosen once
  now,       \* time()
  file,      \* does the dbm file exist?
  entries,   \* keys of the entries: the time and a number, the suffix character
  last,      \* the last record: time and counters
  holder,    \* the process that has a lock
  lockfn,    \* the inode lockfn names, if any
  hits,      \* requests so far
  pc,        \* where a process is
  fd,        \* the lock it waits for or holds
  total, today,  \* total_count, today_count; -1 if not known
  time       \* t

shared == <<file, entries, last>>
logVars == <<setup, now, shared, holder, lockfn, hits, pc, fd, total, today, time>>

Dbm == setup.store # "msql"
Day(t) == t \div DayLength

Goto(p, l) == pc' = [pc EXCEPT ![p] = l]

Count(p, m, n) == total' = [total EXCEPT ![p] = m] /\ today' = [today EXCEPT ![p] = n]

(* What the last record says of the page, and of the day of t.             *)
CountFrom(p, r, t) == Count(p, r.total, IF Day(r.time) = Day(t) THEN r.today ELSE 0)

(* loadlastinfo.  Without a last record dbmFetch returns "", and what is   *)
(* known of the counters stays.                                            *)
LoadLastInfo(p) == IF last # Nil THEN CountFrom(p, last, now) ELSE UNCHANGED <<total, today>>

(* Mutant: the file is not closed, as if its entry were only popped.       *)
ReleaseForgets(p) == fd' = [fd EXCEPT ![p] = Nil] /\ UNCHANGED holder

Release(p) ==
  /\ holder' = [l \in Locks |-> IF holder[l] = p THEN Nil ELSE holder[l]]
  /\ fd' = [fd EXCEPT ![p] = Nil]

(* gdbm: is anybody reading or writing the file?                           *)
InUse == holder[0] # Nil \/ \E p \in Procs : pc[p] = "reading"

-----------------------------------------------------------------------------
(* A page, up to Exit. *)

StartPage(p) ==
  /\ pc[p] = "idle" /\ hits < MaxHits
  /\ hits' = hits + 1
  /\ Count(p, -1, -1)
  /\ Goto(p, "page")
  /\ UNCHANGED <<setup, now, shared, holder, lockfn, fd, time>>

(* gettotal and the like open the log for reading, if that has not been    *)
(* done; what cannot be opened counts as a page never logged.  What MsqlLog*)
(* does depends on none of it.                                             *)
Ask(p) ==
  /\ pc[p] = "page" /\ Dbm /\ setup.footer /\ total[p] = -1
  /\ IF file /\ (setup.store = "gdbm" => holder[0] = Nil)
       THEN Goto(p, "reading") /\ UNCHANGED <<total, today>>
       ELSE Count(p, 0, 0) /\ UNCHANGED pc
  /\ UNCHANGED <<setup, now, shared, holder, lockfn, hits, fd, time>>

(* Counters that stay unknown are 0 for the footer, and it remembers that; *)
(* getTotal() and getToday() say "0" and do not.                           *)
AskRead(p) ==
  /\ pc[p] = "reading"
  /\ LoadLastInfo(p) \/ (last = Nil /\ Count(p, 0, 0))
  /\ Goto(p, "page")
  /\ UNCHANGED <<setup, now, shared, holder, lockfn, hits, fd, time>>

-----------------------------------------------------------------------------
(* Log: the dbm file. *)

(* gdbm locks as it opens, a flat file is locked once it is open.          *)
Opened(p) ==
  IF setup.store = "gdbm"
    THEN holder' = [holder EXCEPT ![0] = p] /\ Goto(p, "load")
    ELSE UNCHANGED holder /\ Goto(p, "lock")

(* Mode w.  A file that cannot be opened is taken for one that is missing. *)
LogOpen(p) ==
  /\ pc[p] = "page" /\ Dbm
  /\ IF ~file \/ (setup.store = "gdbm" /\ InUse)
       THEN Goto(p, "create") /\ UNCHANGED <<holder, fd>>
       ELSE Opened(p) /\ fd' = [fd EXCEPT ![p] = 0]
  /\ UNCHANGED <<setup, now, shared, lockfn, hits, total, today, time>>

(* Mode n empties the file: a flat one at once, whoever has it locked.     *)
Create(p) ==
  /\ pc[p] = "create" /\ (setup.store = "gdbm" => ~InUse)
  /\ file' = TRUE /\ entries' = {} /\ last' = Nil
  /\ Count(p, 0, 0)
  /\ Opened(p) /\ fd' = [fd EXCEPT ![p] = 0]
  /\ UNCHANGED <<setup, now, lockfn, hits, time>>

(* The page is not logged.                                                 *)
CreateFails(p) ==
  /\ pc[p] = "create" /\ setup.store = "gdbm" /\ InUse
  /\ Goto(p, "idle")
  /\ UNCHANGED <<setup, now, shared, holder, lockfn, hits, fd, total, today, time>>

(* Mutant: the lock is not waited for.                                     *)
LockTaken(p) ==
  /\ pc[p] = "lock"
  /\ holder' = [holder EXCEPT ![fd[p]] = p]
  /\ Goto(p, IF Dbm THEN "load" ELSE "select")
  /\ UNCHANGED <<setup, now, shared, lockfn, hits, fd, total, today, time>>

(* lockf, for the flat file and for the lock file of MsqlLog.              *)
Lock(p) ==
  /\ pc[p] = "lock" /\ holder[fd[p]] = Nil
  /\ holder' = [holder EXCEPT ![fd[p]] = p]
  /\ Goto(p, IF Dbm THEN "load" ELSE "select")
  /\ UNCHANGED <<setup, now, shared, lockfn, hits, fd, total, today, time>>

(* The counters are read unless the page knows them, or thinks it does.    *)
Load(p) ==
  /\ pc[p] = "load"
  /\ IF total[p] < 0 THEN LoadLastInfo(p) ELSE UNCHANGED <<total, today>>
  /\ Goto(p, "insert")
  /\ UNCHANGED <<setup, now, shared, holder, lockfn, hits, fd, time>>

(* Mutant: the flat file is searched for the key as well, and after all    *)
(* attempts there is no entry.                                             *)
KeysUsedUp(n) == n >= Attempts

(* A flat file takes a key twice; gdbm does not, and a key for every try   *)
(* may be there.                                                           *)
NoKeyFor(n) == setup.store = "gdbm" /\ n >= Attempts

EntriesWith(t) ==
  LET n == Cardinality({e \in entries : e[1] = t}) IN
  IF NoKeyFor(n) THEN entries ELSE entries \union {<<t, n>>}

Insert(p) ==
  /\ pc[p] = "insert"
  /\ time' = [time EXCEPT ![p] = now]
  /\ entries' = EntriesWith(now)
  /\ Count(p, total[p] + 1, today[p] + 1)
  /\ Goto(p, IF setup.store = "flat" THEN "wipe" ELSE "replace")
  /\ UNCHANGED <<setup, now, file, last, holder, lockfn, hits, fd>>

(* dbmReplace in a flat file: the record is wiped and a new one appended.  *)
Wipe(p) ==
  /\ pc[p] = "wipe"
  /\ last' = Nil
  /\ Goto(p, "replace")
  /\ UNCHANGED <<setup, now, file, entries, holder, lockfn, hits, fd, total, today, time>>

(* The close that follows gives up the lock.                               *)
Replace(p) ==
  /\ pc[p] = "replace"
  /\ last' = [time |-> time[p], total |-> total[p], today |-> today[p]]
  /\ Release(p)
  /\ Goto(p, "idle")
  /\ UNCHANGED <<setup, now, file, entries, lockfn, hits, total, today, time>>

-----------------------------------------------------------------------------
(* MsqlLog: two tables, and a lock file. *)

MsqlInsert(p) ==
  /\ pc[p] = "page" /\ ~Dbm
  /\ time' = [time EXCEPT ![p] = now]
  /\ entries' = EntriesWith(now)
  /\ Goto(p, "lockfile")
  /\ UNCHANGED <<setup, now, file, last, holder, lockfn, hits, fd, total, today>>

(* open, with O_CREAT: a new inode if there is no such file.               *)
LockFile(p) ==
  /\ pc[p] = "lockfile"
  /\ \E l \in Locks \ {0} :
       /\ IF lockfn # Nil THEN l = lockfn
          ELSE l = CHOOSE m \in Locks \ {0} : \A q \in Procs : fd[q] # m
       /\ lockfn' = l
       /\ fd' = [fd EXCEPT ![p] = l]
  /\ Goto(p, "lock")
  /\ UNCHANGED <<setup, now, shared, holder, hits, total, today, time>>

Select(p) ==
  /\ pc[p] = "select"
  /\ IF last # Nil
       THEN CountFrom(p, last, time[p]) /\ Goto(p, "update")
       ELSE Count(p, 0, 0) /\ Goto(p, "newrow")
  /\ UNCHANGED <<setup, now, shared, holder, lockfn, hits, fd, time>>

(* A second row for the page would not be looked at.                       *)
NewRow(p) ==
  /\ pc[p] = "newrow"
  /\ last' = IF last = Nil THEN [time |-> time[p], total |-> 0, today |-> 0] ELSE last
  /\ Goto(p, "update")
  /\ UNCHANGED <<setup, now, file, entries, holder, lockfn, hits, fd, total, today, time>>

Update(p) ==
  /\ pc[p] = "update"
  /\ Count(p, total[p] + 1, today[p] + 1)
  /\ last' = [time |-> time[p], total |-> total[p] + 1, today |-> today[p] + 1]
  /\ Goto(p, "unlock")
  /\ UNCHANGED <<setup, now, file, entries, holder, lockfn, hits, fd, time>>

Unlock(p) ==
  /\ pc[p] = "unlock"
  /\ Release(p)
  /\ Goto(p, "unlink")
  /\ UNCHANGED <<setup, now, shared, lockfn, hits, total, today, time>>

(* Whatever file has the name by now is removed.                           *)
Unlink(p) ==
  /\ pc[p] = "unlink"
  /\ lockfn' = Nil
  /\ Goto(p, "idle")
  /\ UNCHANGED <<setup, now, shared, holder, hits, fd, total, today, time>>

-----------------------------------------------------------------------------

Kill(p) ==
  /\ setup.kill /\ pc[p] # "idle"
  /\ Release(p)
  /\ Goto(p, "idle")
  /\ UNCHANGED <<setup, now, shared, lockfn, hits, total, today, time>>

Tick ==
  /\ now < MaxTime /\ now' = now + 1
  /\ UNCHANGED <<setup, shared, holder, lockfn, hits, pc, fd, total, today, time>>

(* A page that was logged before has an entry and a count of one.          *)
LogInit ==
  /\ setup \in Setups
  /\ now = 0
  /\ file = (Dbm /\ setup.exists)
  /\ entries = IF setup.exists THEN {<<0, 0>>} ELSE {}
  /\ last = IF setup.exists THEN [time |-> 0, total |-> 1, today |-> 1] ELSE Nil
  /\ holder = [l \in Locks |-> Nil]
  /\ lockfn = Nil
  /\ hits = 0
  /\ pc = [p \in Procs |-> "idle"]
  /\ fd = [p \in Procs |-> Nil]
  /\ total = [p \in Procs |-> -1] /\ today = [p \in Procs |-> -1]
  /\ time = [p \in Procs |-> 0]

Logging(p) ==
  \/ LogOpen(p) \/ Create(p) \/ CreateFails(p)
  \/ Load(p) \/ Insert(p) \/ Wipe(p) \/ Replace(p)
  \/ MsqlInsert(p) \/ LockFile(p) \/ Select(p) \/ NewRow(p) \/ Update(p)
  \/ Unlock(p) \/ Unlink(p)

LogNext ==
  \/ \E p \in Procs : StartPage(p) \/ Ask(p) \/ AskRead(p) \/ Lock(p) \/ Logging(p) \/ Kill(p)
  \/ Tick

(* A page asks finitely often and ends, calls return, and the kernel passes*)
(* over no waiting process for ever.                                       *)
Fairness == \A p \in Procs : WF_logVars(AskRead(p)) /\ SF_logVars(Logging(p)) /\ SF_logVars(Lock(p))

LogSpec == LogInit /\ [][LogNext]_logVars /\ Fairness

-----------------------------------------------------------------------------
(* Properties. *)

Labels == {"idle", "page", "reading", "create", "lock", "load", "insert", "wipe", "replace",
           "lockfile", "select", "newrow", "update", "unlock", "unlink"}

(* The variables are of their types, and only what is waited for or held   *)
(* has a lock.                                                             *)
LogTypeOK ==
  /\ setup \in Setups /\ now \in Times /\ hits \in 0..MaxHits
  /\ file \in BOOLEAN /\ entries \subseteq Times \X Nat /\ last \in Record \union {Nil}
  /\ holder \in [Locks -> Procs \union {Nil}] /\ lockfn \in Locks \union {Nil}
  /\ pc \in [Procs -> Labels] /\ fd \in [Procs -> Locks \union {Nil}]
  /\ total \in [Procs -> Nat \union {-1}] /\ today \in [Procs -> Nat \union {-1}]
  /\ time \in [Procs -> Times]
  /\ \A l \in Locks, p \in Procs : holder[l] = p => fd[p] = l

(* While nobody is logging, the last record counts every entry of a flat   *)
(* file that is there already, if pages do not show or ask for their       *)
(* counters and no process is killed in the middle.                        *)
CountedUnderLock ==
  setup.store = "flat" /\ setup.exists /\ ~setup.footer /\ ~setup.kill
    /\ (\A p \in Procs : pc[p] \in {"idle", "page", "reading"}) =>
    IF last = Nil THEN entries = {} ELSE last.total = Cardinality(entries)

(* Hits may go uncounted in mSQL, and in a flat file once it is there, but *)
(* none is counted that is not in the log: not after a stale or a lost     *)
(* count, nor after a kill.                                                *)
NeverAhead ==
  setup.store = "msql" \/ (setup.store = "flat" /\ setup.exists) =>
    (last # Nil => last.total <= Cardinality(entries))

(* The log is of its type and, with mSQL and flat files, the counter kept  *)
(* in its last record never exceeds the hits logged (log.c:186-216).       *)
LogInv == LogTypeOK /\ NeverAhead

(* A page that began to log is done some time: no lock is lost with the    *)
(* lock file that others remove, or kept by the one who waits for another. *)
LoggingEnds == \A p \in Procs : pc[p] # "idle" ~> pc[p] = "idle"
=============================================================================
