------------------------------ MODULE DbmLock ------------------------------
(***************************************************************************)
(* The opening, locking and closing of dbm files, db.c.                    *)
(*                                                                         *)
(* Several server processes run pages that share the files.  Each keeps    *)
(* the files its page has open on a stack, dbmStack.  What keeps writers   *)
(* apart depends on the build: gdbm locks the file itself; the flat-file   *)
(* build locks the open file; with ndbm there is only the .lck file that   *)
(* db.c locks, and the close that follows at once unlocks it; with         *)
(* NFS_HACK the existence of the .lck file is the lock.                    *)
(*                                                                         *)
(* The kernel, the dbm library and the page are the environment.  Modes c  *)
(* and n differ from w only in what they do to the contents of the file.   *)
(***************************************************************************)
EXTENDS Integers, FiniteSets

CONSTANTS
  Procs,     \* the server processes
  Files,     \* the dbm files
  Setups,    \* the builds and the habits of the pages
  None,      \* no open file
  MaxOpen    \* bound: files a process has open when it opens another

(* db: the library compiled in, or none.  nfs: NFS_HACK.  lock: HAVE_LOCKF *)
(* or HAVE_FLOCK.  resident: the process outlives its request (Apache      *)
(* module, FastCGI).  logging: Exit writes the access log to a dbm file.   *)
(* many: pages open a file while they have one open.  kill: a process may  *)
(* be killed in the middle of a page.                                      *)
Setup == [db : {"gdbm", "ndbm", "flat"}, nfs : BOOLEAN, lock : {"lockf", "flock"},
          resident : BOOLEAN, logging : BOOLEAN, many : BOOLEAN, kill : BOOLEAN]

Modes  == {"r", "w"}
Handle == [file : Files, mode : Modes, locked : BOOLEAN]

ASSUME DbmAssumption == Setups \subseteq Setup /\ None \notin Handle /\ MaxOpen \in Nat

VARIABLES
  setup,   \* chosen once
  pc,      \* where in dbmopen, or in its page, a process is
  arg,     \* the file dbmopen is opening
  top,     \* the entry of the dbmStack: there is never more than one
  lost,    \* open files that are no longer on the stack
  lck      \* with NFS_HACK: does the .lck file exist?

vars == <<setup, pc, arg, top, lost, lck>>

Handles(p) == lost[p] \union ({top[p]} \ {None})

Goto(p, l) == pc' = [pc EXCEPT ![p] = l]

(* The kernel's locks, and those gdbm takes: one writer or many readers.   *)
(* A process is not in its own way with lockf, with flock it is.           *)
InTheWay(q, p, h) ==
  /\ q # p \/ setup.lock = "flock"
  /\ \E g \in Handles(q) :
       g.locked /\ g.file = h.file /\ (g.mode = "w" \/ h.mode = "w")

Blocked(p, h) == \E q \in Procs : InTheWay(q, p, h)

-----------------------------------------------------------------------------
(* dbmopen. *)

(* The new entry's next is NULL: what was on the stack no longer is.       *)
dbmPush(p, h) ==
  /\ top' = [top EXCEPT ![p] = h]
  /\ lost' = [lost EXCEPT ![p] = Handles(p)]

(* _dbmOpen up to the open itself.  The lock on the .lck file is released  *)
(* by the close that follows it, so waiting for it is no more than a step. *)
(* With NFS_HACK, 31 looks at a .lck file that stays give up.              *)
OpenStart(p, f, mode) ==
  /\ pc[p] = "page"
  /\ top[p] = None \/ setup.many
  /\ Cardinality(Handles(p)) <= MaxOpen
  /\ ~(setup.nfs /\ mode = "w" /\ lck[f])
  /\ arg' = [arg EXCEPT ![p] = [file |-> f, mode |-> mode, locked |-> FALSE]]
  /\ Goto(p, "open")
  /\ UNCHANGED <<setup, top, lost, lck>>

(* Mutant: a failed open leaves the .lck file behind.                      *)
LckKept(p, opened) ==
  IF setup.nfs /\ arg[p].mode = "w" THEN [lck EXCEPT ![arg[p].file] = TRUE] ELSE lck

LckAfterOpen(p, opened) ==
  IF setup.nfs /\ arg[p].mode = "w" THEN [lck EXCEPT ![arg[p].file] = opened] ELSE lck

(* gdbm_open does not wait for its lock; the NFS build needs a gdbm that   *)
(* was changed to lock nothing.                                            *)
OpenSucceeds(p) ==
  LET locks == setup.db = "gdbm" /\ ~setup.nfs IN
  /\ pc[p] = "open"
  /\ locks => ~Blocked(p, arg[p])
  /\ lck' = LckAfterOpen(p, TRUE)
  /\ IF setup.db = "flat" /\ ~setup.nfs /\ arg[p].mode = "w"
       THEN Goto(p, "lock") /\ UNCHANGED <<top, lost>>
       ELSE Goto(p, "page") /\ dbmPush(p, [arg[p] EXCEPT !.locked = locks])
  /\ UNCHANGED <<setup, arg>>

OpenFails(p) ==
  /\ pc[p] = "open"
  /\ lck' = LckAfterOpen(p, FALSE)
  /\ Goto(p, "page")
  /\ UNCHANGED <<setup, arg, top, lost>>

(* Mutant: the lock is asked for and its refusal ignored, as with F_TLOCK. *)
LockFileWithoutWaiting(p) ==
  /\ pc[p] = "lock"
  /\ dbmPush(p, [arg[p] EXCEPT !.locked = ~Blocked(p, arg[p])])
  /\ Goto(p, "page")
  /\ UNCHANGED <<setup, arg, lck>>

LockFile(p) ==
  /\ pc[p] = "lock"
  /\ ~Blocked(p, arg[p])
  /\ dbmPush(p, [arg[p] EXCEPT !.locked = TRUE])
  /\ Goto(p, "page")
  /\ UNCHANGED <<setup, arg, lck>>

(* lockf refuses to complete a circle of waiting processes; its result is  *)
(* not looked at.                                                          *)
LockRefused(p) ==
  /\ pc[p] = "lock" /\ setup.lock = "lockf"
  /\ \E S \in SUBSET Procs :
       /\ p \in S
       /\ \A q \in S : pc[q] = "lock" /\ \E r \in S : InTheWay(r, q, arg[q])
  /\ dbmPush(p, [arg[p] EXCEPT !.locked = FALSE])
  /\ Goto(p, "page")
  /\ UNCHANGED <<setup, arg, lck>>

-----------------------------------------------------------------------------
(* dbmclose, and the end of a request. *)

(* Mutant: the entry is popped and its descriptor left open.               *)
ClosingPopsOnly(p, h) ==
  /\ top' = [top EXCEPT ![p] = None]
  /\ lost' = [lost EXCEPT ![p] = @ \union {h}]

(* Closing any descriptor of a file drops every lockf lock of the process  *)
(* on it.                                                                  *)
Closing(p, h) ==
  /\ top' = [top EXCEPT ![p] = None]
  /\ lost' = [lost EXCEPT ![p] =
       {IF setup.lock = "lockf" /\ g.file = h.file THEN [g EXCEPT !.locked = FALSE] ELSE g : g \in @}]

(* With NFS_HACK, dbmclose removes the .lck file whoever created it.       *)
Close(p, f) ==
  /\ pc[p] = "page"
  /\ IF top[p] # None /\ top[p].file = f
       THEN /\ Closing(p, top[p])
            /\ lck' = IF setup.nfs THEN [lck EXCEPT ![f] = FALSE] ELSE lck
       ELSE UNCHANGED <<top, lost, lck>>
  /\ UNCHANGED <<setup, pc, arg>>

(* Mutant: the end of a request does not close what is on the stack.       *)
CloseAllForgets(p) == UNCHANGED <<top, lost, lck>>

(* Exit writes the log first: opening the log file takes the page's file   *)
(* off the stack.                                                          *)
dbmCloseAll(p) ==
  /\ IF top[p] = None THEN UNCHANGED <<top, lost>>
     ELSE IF setup.logging THEN dbmPush(p, None)
     ELSE Closing(p, top[p])
  /\ lck' = IF ~setup.logging /\ setup.nfs /\ top[p] # None /\ top[p].mode = "w"
              THEN [lck EXCEPT ![top[p].file] = FALSE] ELSE lck

StartRequest(p) == pc[p] = "idle" /\ Goto(p, "page") /\ UNCHANGED <<setup, arg, top, lost, lck>>

EndRequest(p) ==
  /\ pc[p] = "page"
  /\ dbmCloseAll(p)
  /\ Goto(p, IF setup.resident THEN "idle" ELSE "exit")
  /\ UNCHANGED <<setup, arg>>

(* The process is gone and the kernel closes its files.                    *)
Dies(p) ==
  /\ top' = [top EXCEPT ![p] = None]
  /\ lost' = [lost EXCEPT ![p] = {}]
  /\ Goto(p, "idle")
  /\ UNCHANGED <<setup, arg, lck>>

ProcessExit(p) == pc[p] = "exit" /\ Dies(p)
Kill(p)        == setup.kill /\ pc[p] # "idle" /\ Dies(p)

-----------------------------------------------------------------------------

Init ==
  /\ setup \in Setups
  /\ pc = [p \in Procs |-> "idle"]
  /\ arg = [p \in Procs |-> None]
  /\ top = [p \in Procs |-> None]
  /\ lost = [p \in Procs |-> {}]
  /\ lck = [f \in Files |-> FALSE]

Opened(p) == OpenSucceeds(p) \/ OpenFails(p)

Step(p) ==
  \/ StartRequest(p)
  \/ \E f \in Files, mode \in Modes : OpenStart(p, f, mode)
  \/ Opened(p)
  \/ LockFile(p)
  \/ LockRefused(p)
  \/ \E f \in Files : Close(p, f)
  \/ EndRequest(p)
  \/ ProcessExit(p)
  \/ Kill(p)

Next == \E p \in Procs : Step(p)

(* A call returns, a page makes finitely many calls and ends, and the      *)
(* kernel does not pass over a waiting process for ever.                   *)
Fairness ==
  \A p \in Procs :
    /\ WF_vars(Opened(p))
    /\ SF_vars(LockFile(p))
    /\ SF_vars(EndRequest(p))
    /\ WF_vars(ProcessExit(p))

Spec == Init /\ [][Next]_vars /\ Fairness

-----------------------------------------------------------------------------
(* Properties. *)

(* Processes are in the states, and hold the files, that db.c provides for.*)
TypeOK ==
  /\ setup \in Setups
  /\ pc \in [Procs -> {"idle", "page", "open", "lock", "exit"}]
  /\ arg \in [Procs -> Handle \union {None}]
  /\ top \in [Procs -> Handle \union {None}]
  /\ lost \in [Procs -> SUBSET Handle]
  /\ lck \in [Files -> BOOLEAN]
  /\ \A p \in Procs : pc[p] \in {"open", "lock"} => arg[p] # None

(* A page whose dbmopen for writing returned 0 can write to the file.      *)
Writing(p, f) == top[p] # None /\ top[p].file = f /\ top[p].mode = "w"

(* Every file a page opens is closed, by the page or when it ends.         *)
Tidy == ~setup.many /\ ~(setup.resident /\ setup.logging)

(* The builds in which writers wait for each other: not ndbm, not NFS_HACK,*)
(* and with lockf only when no circle of waiting processes can come up.    *)
Excludes ==
  /\ ~setup.nfs /\ setup.db # "ndbm"
  /\ setup.db = "flat" /\ setup.lock = "lockf" => Tidy

(* In these builds no two pages ever have a file open for writing, whoever *)
(* opens, waits, closes, leaks or dies in between.                         *)
WriterExclusion ==
  Excludes => \A p, q \in Procs, f \in Files : Writing(p, f) /\ Writing(q, f) => p = q

(* A process between two requests keeps nothing open: what a page left     *)
(* open would shut out every other process for ever.                       *)
IdleHoldsNothing == Tidy => \A p \in Procs : pc[p] = "idle" => Handles(p) = {}

(* With NFS_HACK a .lck file belongs to a page that writes or is opening   *)
(* to write; left behind, it would shut out every later page.              *)
LckHasOwner ==
  Tidy /\ ~setup.logging /\ ~setup.kill =>
    \A f \in Files : lck[f] =>
      \E p \in Procs : Writing(p, f) \/ (pc[p] = "open" /\ arg[p].file = f /\ arg[p].mode = "w")

(* The state is of its type and, in tidy builds, every lock file has an    *)
(* owner: dbmclose and Exit remove what dbmopen created (db.c:366-543).    *)
LckInv == TypeOK /\ LckHasOwner

(* A page waiting for the lock of a flat file gets it, unless it is killed.*)
WaitEnds == \A p \in Procs : Tidy /\ pc[p] = "lock" ~> pc[p] # "lock"

=============================================================================
