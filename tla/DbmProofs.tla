----------------------------- MODULE DbmProofs -----------------------------
(* WriterExclusion and IdleHoldsNothing for any number of processes and    *)
(* files, every build and every page.                                      *)
EXTENDS DbmLock, TLAPS

-----------------------------------------------------------------------------
(* The inductive invariant.  WriterExclusion speaks of the files on the    *)
(* stacks; it rests on the locks of all open files, lost ones included.    *)

(* A writer on the stack holds its lock: only a refused lockf could have   *)
(* put it there without.                                                   *)
WritersLock ==
  Excludes => \A p \in Procs : top[p] # None /\ top[p].mode = "w" => top[p].locked

(* The locks of two processes on a file are compatible.                    *)
LocksAgree ==
  \A p, q \in Procs : p # q =>
    \A g \in Handles(p), h \in Handles(q) :
      g.locked /\ h.locked /\ g.file = h.file => g.mode = "r" /\ h.mode = "r"

(* A tidy page that opens a file has nothing open, so that it is in        *)
(* nobody's way while it waits.                                            *)
OneAtATime ==
  Tidy => \A p \in Procs :
            /\ pc[p] # "exit" => lost[p] = {}
            /\ pc[p] \in {"open", "lock", "idle"} => top[p] = None

(* Only the flat-file build locks the file after opening it.               *)
FlatWaits == \A p \in Procs : pc[p] = "lock" => setup.db = "flat"

DbmInv == TypeOK /\ WritersLock /\ LocksAgree /\ OneAtATime /\ FlatWaits

LEMMA HandlesTyped ==
  ASSUME TypeOK, NEW p \in Procs
  PROVE  Handles(p) \subseteq Handle
BY DbmAssumption DEF TypeOK, Handles

-----------------------------------------------------------------------------
(* What the helpers do. *)

LEMMA PushHandles ==
  ASSUME TypeOK, NEW p \in Procs, NEW h \in Handle \union {None}, dbmPush(p, h)
  PROVE  /\ top' \in [Procs -> Handle \union {None}] /\ lost' \in [Procs -> SUBSET Handle]
         /\ top'[p] = h /\ lost'[p] = Handles(p)
         /\ Handles(p)' = Handles(p) \union ({h} \ {None})
         /\ \A q \in Procs \ {p} : top'[q] = top[q] /\ lost'[q] = lost[q] /\ Handles(q)' = Handles(q)
<1>1. Handles(p) \subseteq Handle
  BY HandlesTyped
<1>2. top'[p] = h /\ lost'[p] = Handles(p)
  BY DEF TypeOK, dbmPush
<1>3. top' \in [Procs -> Handle \union {None}] /\ lost' \in [Procs -> SUBSET Handle]
  BY <1>1 DEF TypeOK, dbmPush
<1>4. \A q \in Procs \ {p} : top'[q] = top[q] /\ lost'[q] = lost[q]
  BY DEF TypeOK, dbmPush
<1>5. QED
  BY <1>2, <1>3, <1>4 DEF Handles

(* After a close, what is left open locks no more than before.             *)
LEMMA ClosingHandles ==
  ASSUME TypeOK, NEW p \in Procs, top[p] # None, Closing(p, top[p])
  PROVE  /\ top' \in [Procs -> Handle \union {None}] /\ lost' \in [Procs -> SUBSET Handle]
         /\ top'[p] = None /\ (lost[p] = {} => lost'[p] = {})
         /\ \A h \in Handles(p)' : \E g \in Handles(p) :
              h.file = g.file /\ h.mode = g.mode /\ (h.locked => g.locked)
         /\ \A q \in Procs \ {p} : top'[q] = top[q] /\ lost'[q] = lost[q] /\ Handles(q)' = Handles(q)
<1> DEFINE After(g) == IF setup.lock = "lockf" /\ g.file = top[p].file
                         THEN [g EXCEPT !.locked = FALSE] ELSE g
<1>1. top'[p] = None /\ lost'[p] = {After(g) : g \in lost[p]}
  BY DEF TypeOK, Closing
<1>2. \A g \in Handle : /\ After(g) \in Handle
                        /\ After(g).file = g.file /\ After(g).mode = g.mode
                        /\ After(g).locked => g.locked
  BY DEF Handle
<1>3. lost[p] \subseteq Handle
  BY DEF TypeOK
<1> HIDE DEF After
<1>4. lost'[p] \subseteq Handle
  BY <1>1, <1>2, <1>3
<1>5. \A q \in Procs \ {p} : top'[q] = top[q] /\ lost'[q] = lost[q]
  BY DEF TypeOK, Closing
<1>6. top' \in [Procs -> Handle \union {None}]
  BY DEF TypeOK, Closing
<1>7. lost' \in [Procs -> SUBSET Handle]
  <2>1. DOMAIN lost' = Procs /\ lost' = [q \in DOMAIN lost' |-> lost'[q]]
    BY DEF TypeOK, Closing
  <2>2. \A q \in Procs : lost'[q] \in SUBSET Handle
    BY <1>4, <1>5 DEF TypeOK
  <2>3. QED
    BY <2>1, <2>2
<1>8. ASSUME NEW h \in Handles(p)'
      PROVE  \E g \in Handles(p) : h.file = g.file /\ h.mode = g.mode /\ (h.locked => g.locked)
  <2>1. PICK g \in lost[p] : h = After(g)
    BY <1>1, <1>8 DEF Handles
  <2>2. g \in Handles(p) /\ g \in Handle
    BY <1>3 DEF Handles
  <2>3. QED
    BY <1>2, <2>1, <2>2
<1>9. QED
  BY <1>1, <1>5, <1>6, <1>7, <1>8 DEF Handles

(* A step of p keeps the locks compatible if each lock p has after it is   *)
(* one it had, or one nobody was in the way of.                            *)
LEMMA AgreeStep ==
  ASSUME LocksAgree, NEW p \in Procs,
         \A q \in Procs \ {p} : Handles(q)' = Handles(q),
         \A h \in Handles(p)' : h.locked =>
           \/ \E g \in Handles(p) : g.locked /\ g.file = h.file /\ g.mode = h.mode
           \/ \A q \in Procs \ {p} : \A g \in Handles(q) :
                g.locked /\ g.file = h.file => g.mode = "r" /\ h.mode = "r"
  PROVE  LocksAgree'
<1>1. ASSUME NEW q \in Procs \ {p}, NEW h \in Handles(p)', NEW g \in Handles(q),
             h.locked, g.locked, g.file = h.file
      PROVE  g.mode = "r" /\ h.mode = "r"
  <2>1. CASE \E k \in Handles(p) : k.locked /\ k.file = h.file /\ k.mode = h.mode
    BY <1>1, <2>1 DEF LocksAgree
  <2>2. CASE \A r \in Procs \ {p} : \A k \in Handles(r) :
               k.locked /\ k.file = h.file => k.mode = "r" /\ h.mode = "r"
    BY <1>1, <2>2
  <2>3. QED
    BY <1>1, <2>1, <2>2
<1>2. SUFFICES ASSUME NEW a \in Procs, NEW b \in Procs, a # b,
                      NEW g \in Handles(a)', NEW h \in Handles(b)',
                      g.locked, h.locked, g.file = h.file
               PROVE  g.mode = "r" /\ h.mode = "r"
  BY DEF LocksAgree
<1>3. CASE a = p
  BY <1>1, <1>2, <1>3
<1>4. CASE b = p
  BY <1>1, <1>2, <1>4
<1>5. CASE a # p /\ b # p
  <2>1. g \in Handles(a) /\ h \in Handles(b)
    BY <1>2, <1>5
  <2>2. QED
    BY <1>2, <2>1 DEF LocksAgree
<1>6. QED
  BY <1>3, <1>4, <1>5

-----------------------------------------------------------------------------
(* Type correctness. *)

LEMMA TypeStep ==
  ASSUME TypeOK, NEW p \in Procs, Step(p)
  PROVE  TypeOK'
<1> DEFINE New(f, mode) == [file |-> f, mode |-> mode, locked |-> FALSE]
<1>1. \A l \in {"idle", "page", "open", "lock", "exit"} : Goto(p, l) =>
        /\ pc' \in [Procs -> {"idle", "page", "open", "lock", "exit"}]
        /\ pc'[p] = l /\ \A q \in Procs \ {p} : pc'[q] = pc[q]
  BY DEF TypeOK, Goto
<1>2. pc[p] \in {"open", "lock"} => arg[p] \in Handle /\ arg[p] # None
  BY DEF TypeOK
<1>3. \A h \in Handle : \A b \in BOOLEAN : [h EXCEPT !.locked = b] \in Handle
  BY DEF Handle
<1>4. CASE StartRequest(p)
  BY <1>1, <1>4 DEF TypeOK, StartRequest
<1>5. ASSUME NEW f \in Files, NEW mode \in Modes, OpenStart(p, f, mode)
      PROVE  TypeOK'
  <2>0. New(f, mode) \in Handle
    BY DEF Handle
  <2>1. New(f, mode) \in Handle /\ New(f, mode) # None
    BY <2>0, DbmAssumption
  <2>2. arg' \in [Procs -> Handle \union {None}] /\ arg'[p] # None
        /\ \A q \in Procs \ {p} : arg'[q] = arg[q]
    BY <1>5, <2>1 DEF TypeOK, OpenStart
  <2>3. QED
    BY <1>1, <1>5, <2>2 DEF TypeOK, OpenStart
<1>6. ASSUME NEW b \in BOOLEAN, pc[p] \in {"open", "lock"}
      PROVE  LckAfterOpen(p, b) \in [Files -> BOOLEAN]
  BY <1>2, <1>6 DEF TypeOK, LckAfterOpen, Handle
<1>7. CASE OpenSucceeds(p)
  <2>1. lck' \in [Files -> BOOLEAN]
    BY <1>6, <1>7 DEF OpenSucceeds
  <2>2. CASE setup.db = "flat" /\ ~setup.nfs /\ arg[p].mode = "w"
    BY <1>1, <1>2, <1>7, <2>1, <2>2 DEF TypeOK, OpenSucceeds
  <2>3. CASE ~(setup.db = "flat" /\ ~setup.nfs /\ arg[p].mode = "w")
    <3>1. PICK h \in Handle : dbmPush(p, h)
      BY <1>2, <1>3, <1>7, <2>3 DEF OpenSucceeds
    <3>2. top' \in [Procs -> Handle \union {None}] /\ lost' \in [Procs -> SUBSET Handle]
      BY <3>1, PushHandles
    <3>3. QED
      BY <1>1, <1>7, <2>1, <2>3, <3>2 DEF TypeOK, OpenSucceeds
  <2>4. QED
    BY <2>2, <2>3
<1>8. CASE OpenFails(p)
  <2>1. lck' \in [Files -> BOOLEAN]
    BY <1>6, <1>8 DEF OpenFails
  <2>2. QED
    BY <1>1, <1>8, <2>1 DEF TypeOK, OpenFails
<1>9. ASSUME LockFile(p) \/ LockRefused(p)
      PROVE  TypeOK'
  <2>1. PICK h \in Handle : dbmPush(p, h)
    BY <1>2, <1>3, <1>9 DEF LockFile, LockRefused
  <2>2. top' \in [Procs -> Handle \union {None}] /\ lost' \in [Procs -> SUBSET Handle]
    BY <2>1, PushHandles
  <2>3. Goto(p, "page") /\ UNCHANGED <<setup, arg, lck>>
    BY <1>9 DEF LockFile, LockRefused
  <2>4. QED
    BY <1>1, <2>2, <2>3 DEF TypeOK
<1>10. ASSUME NEW f \in Files, Close(p, f)
       PROVE  TypeOK'
  <2>1. CASE top[p] # None /\ top[p].file = f
    <3>1. Closing(p, top[p])
      BY <1>10, <2>1 DEF Close
    <3>2. top' \in [Procs -> Handle \union {None}] /\ lost' \in [Procs -> SUBSET Handle]
      BY <2>1, <3>1, ClosingHandles
    <3>3. QED
      BY <1>10, <3>2 DEF TypeOK, Close
  <2>2. CASE ~(top[p] # None /\ top[p].file = f)
    BY <1>10, <2>2 DEF TypeOK, Close
  <2>3. QED
    BY <2>1, <2>2
<1>11. CASE EndRequest(p)
  <2>1. top' \in [Procs -> Handle \union {None}] /\ lost' \in [Procs -> SUBSET Handle]
    BY <1>11, PushHandles, ClosingHandles DEF TypeOK, EndRequest, dbmCloseAll
  <2>2. lck' \in [Files -> BOOLEAN]
    BY <1>11 DEF TypeOK, EndRequest, dbmCloseAll, Handle
  <2>3. QED
    BY <1>1, <1>11, <2>1, <2>2 DEF TypeOK, EndRequest
<1>12. ASSUME Dies(p)
       PROVE  TypeOK'
  BY <1>1, <1>12 DEF TypeOK, Dies
<1>13. QED
  BY <1>4, <1>5, <1>7, <1>8, <1>9, <1>10, <1>11, <1>12 DEF Step, Opened, ProcessExit, Kill

(* The processes only ever hold what db.c provides for.                    *)
THEOREM DbmTypes == Spec => []TypeOK
<1>1. Init => TypeOK
  BY DbmAssumption DEF Init, TypeOK
<1>2. TypeOK /\ [Next]_vars => TypeOK'
  BY TypeStep DEF Next, vars, TypeOK
<1>3. QED
  BY <1>1, <1>2, PTL DEF Spec

-----------------------------------------------------------------------------
(* The three other parts of the invariant. *)

LEMMA GotoEffect ==
  ASSUME TypeOK, NEW p \in Procs, NEW l, Goto(p, l)
  PROVE  pc'[p] = l /\ \A q \in Procs \ {p} : pc'[q] = pc[q]
BY DEF TypeOK, Goto

LEMMA SetupStays ==
  ASSUME NEW p \in Procs, Step(p)
  PROVE  setup' = setup
BY DEF Step, StartRequest, OpenStart, Opened, OpenSucceeds, OpenFails, LockFile, LockRefused,
       Close, EndRequest, ProcessExit, Kill, Dies

(* A step of p that leaves p tidy leaves every page tidy.                  *)
LEMMA OneAtATimeFrame ==
  ASSUME OneAtATime, NEW p \in Procs, setup' = setup,
         \A q \in Procs \ {p} : pc'[q] = pc[q] /\ top'[q] = top[q] /\ lost'[q] = lost[q],
         Tidy => /\ pc'[p] # "exit" => lost'[p] = {}
                 /\ pc'[p] \in {"open", "lock", "idle"} => top'[p] = None
  PROVE  OneAtATime'
BY DEF OneAtATime, Tidy

LEMMA OneAtATimeStep ==
  ASSUME TypeOK, OneAtATime, NEW p \in Procs, Step(p)
  PROVE  OneAtATime'
<1>1. setup' = setup
  BY SetupStays
<1>2. Tidy => /\ pc[p] # "exit" => lost[p] = {}
              /\ pc[p] \in {"open", "lock", "idle"} => top[p] = None
              /\ pc[p] \in {"open", "lock"} => Handles(p) = {}
  BY DEF OneAtATime, Handles
<1>3. CASE StartRequest(p)
  BY <1>1, <1>2, <1>3, GotoEffect, OneAtATimeFrame DEF StartRequest
<1>4. ASSUME NEW f \in Files, NEW mode \in Modes, OpenStart(p, f, mode)
      PROVE  OneAtATime'
  BY <1>1, <1>2, <1>4, GotoEffect, OneAtATimeFrame DEF OpenStart, Tidy
<1>5. CASE OpenSucceeds(p)
  <2>1. CASE setup.db = "flat" /\ ~setup.nfs /\ arg[p].mode = "w"
    BY <1>1, <1>2, <1>5, <2>1, GotoEffect, OneAtATimeFrame DEF OpenSucceeds
  <2>2. CASE ~(setup.db = "flat" /\ ~setup.nfs /\ arg[p].mode = "w")
    <3>1. PICK h \in Handle : dbmPush(p, h)
      BY <1>5, <2>2 DEF OpenSucceeds, TypeOK, Handle
    <3>2. /\ lost'[p] = Handles(p)
          /\ \A q \in Procs \ {p} : top'[q] = top[q] /\ lost'[q] = lost[q]
      BY <3>1, PushHandles
    <3>3. pc[p] = "open" /\ Goto(p, "page")
      BY <1>5, <2>2 DEF OpenSucceeds
    <3>4. QED
      BY <1>1, <1>2, <3>2, <3>3, GotoEffect, OneAtATimeFrame
  <2>3. QED
    BY <2>1, <2>2
<1>6. CASE OpenFails(p)
  BY <1>1, <1>2, <1>6, GotoEffect, OneAtATimeFrame DEF OpenFails
<1>7. CASE LockFile(p) \/ LockRefused(p)
  <2>0. arg[p] \in Handle
    BY <1>7 DEF LockFile, LockRefused, TypeOK
  <2>1. PICK h \in Handle : dbmPush(p, h)
    <3>1. \A b \in BOOLEAN : [arg[p] EXCEPT !.locked = b] \in Handle
      BY <2>0 DEF Handle
    <3>2. QED
      BY <1>7, <3>1 DEF LockFile, LockRefused
  <2>2. /\ lost'[p] = Handles(p)
        /\ \A q \in Procs \ {p} : top'[q] = top[q] /\ lost'[q] = lost[q]
    BY <2>1, PushHandles
  <2>3. pc[p] = "lock" /\ Goto(p, "page")
    BY <1>7 DEF LockFile, LockRefused
  <2>4. QED
    BY <1>1, <1>2, <2>2, <2>3, GotoEffect, OneAtATimeFrame
<1>8. ASSUME NEW f \in Files, Close(p, f)
      PROVE  OneAtATime'
  <2>1. CASE top[p] # None /\ top[p].file = f
    <3>1. /\ top'[p] = None /\ (lost[p] = {} => lost'[p] = {})
          /\ \A q \in Procs \ {p} : top'[q] = top[q] /\ lost'[q] = lost[q]
      BY <1>8, <2>1, ClosingHandles DEF Close
    <3>2. QED
      BY <1>1, <1>2, <1>8, <3>1, OneAtATimeFrame DEF Close
  <2>2. CASE ~(top[p] # None /\ top[p].file = f)
    BY <1>1, <1>2, <1>8, <2>2, OneAtATimeFrame DEF Close
  <2>3. QED
    BY <2>1, <2>2
<1>9. CASE EndRequest(p)
  <2>1. /\ pc[p] = "page" /\ dbmCloseAll(p)
        /\ Goto(p, IF setup.resident THEN "idle" ELSE "exit")
    BY <1>9 DEF EndRequest
  <2>2. /\ top'[p] = None
        /\ \A q \in Procs \ {p} : top'[q] = top[q] /\ lost'[q] = lost[q]
        /\ ~setup.logging /\ lost[p] = {} => lost'[p] = {}
        /\ top[p] = None => lost'[p] = lost[p]
    BY <2>1, PushHandles, ClosingHandles DEF dbmCloseAll
  <2>3. setup.resident /\ Tidy => ~setup.logging
    BY DEF Tidy
  <2>4. CASE setup.resident
    BY <1>1, <1>2, <2>1, <2>2, <2>3, <2>4, GotoEffect, OneAtATimeFrame
  <2>5. CASE ~setup.resident
    BY <1>1, <2>1, <2>2, <2>5, GotoEffect, OneAtATimeFrame
  <2>6. QED
    BY <2>4, <2>5
<1>10. CASE Dies(p)
  BY <1>1, <1>10, GotoEffect, OneAtATimeFrame DEF Dies, TypeOK
<1>11. QED
  BY <1>3, <1>4, <1>5, <1>6, <1>7, <1>8, <1>9, <1>10 DEF Step, Opened, ProcessExit, Kill

LEMMA FlatWaitsStep ==
  ASSUME TypeOK, FlatWaits, NEW p \in Procs, Step(p)
  PROVE  FlatWaits'
<1>1. setup' = setup
  BY SetupStays
<1>2. \A q \in Procs \ {p} : pc'[q] = pc[q]
  BY DEF Step, StartRequest, OpenStart, Opened, OpenSucceeds, OpenFails, LockFile, LockRefused,
         Close, EndRequest, ProcessExit, Kill, Dies, TypeOK, Goto
<1>3. pc'[p] = "lock" => setup.db = "flat"
  BY DEF Step, StartRequest, OpenStart, Opened, OpenSucceeds, OpenFails, LockFile, LockRefused,
         Close, EndRequest, ProcessExit, Kill, Dies, TypeOK, Goto, FlatWaits
<1>4. QED
  BY <1>1, <1>2, <1>3 DEF FlatWaits

(* In a circle of waiting processes somebody must hold something.          *)
LEMMA TidyIsNotRefused ==
  ASSUME TypeOK, OneAtATime, Tidy, NEW p \in Procs
  PROVE  ~LockRefused(p)
<1>1. SUFFICES ASSUME LockRefused(p) PROVE FALSE
  OBVIOUS
<1>2. PICK S \in SUBSET Procs :
        p \in S /\ \A q \in S : pc[q] = "lock" /\ \E r \in S : InTheWay(r, q, arg[q])
  BY <1>1 DEF LockRefused
<1>3. PICK r \in S : InTheWay(r, p, arg[p])
  BY <1>2
<1>4. pc[r] = "lock" /\ r \in Procs
  BY <1>2
<1>5. Handles(r) = {}
  BY <1>4 DEF OneAtATime, Handles
<1>6. QED
  BY <1>3, <1>5 DEF InTheWay

LEMMA WritersLockFrame ==
  ASSUME WritersLock, NEW p \in Procs, setup' = setup,
         \A q \in Procs \ {p} : top'[q] = top[q],
         Excludes => (top'[p] # None /\ top'[p].mode = "w" => top'[p].locked)
  PROVE  WritersLock'
BY DEF WritersLock, Excludes, Tidy

LEMMA WritersLockStep ==
  ASSUME TypeOK, WritersLock, OneAtATime, FlatWaits, NEW p \in Procs, Step(p)
  PROVE  WritersLock'
<1>1. setup' = setup
  BY SetupStays
<1>2. CASE UNCHANGED top
  BY <1>1, <1>2 DEF WritersLock, Excludes, Tidy
<1>3. CASE \E h \in Handle : dbmPush(p, h) /\ (Excludes => (h.mode = "w" => h.locked))
  <2>1. PICK h \in Handle : dbmPush(p, h) /\ (Excludes => (h.mode = "w" => h.locked))
    BY <1>3
  <2>2. top'[p] = h /\ \A q \in Procs \ {p} : top'[q] = top[q]
    BY <2>1, PushHandles
  <2>3. QED
    BY <1>1, <2>1, <2>2, WritersLockFrame
<1>4. CASE top'[p] = None /\ \A q \in Procs \ {p} : top'[q] = top[q]
  BY <1>1, <1>4, WritersLockFrame
<1>5. CASE OpenSucceeds(p)
  <2>1. CASE setup.db = "flat" /\ ~setup.nfs /\ arg[p].mode = "w"
    BY <1>2, <1>5, <2>1 DEF OpenSucceeds
  <2>2. CASE ~(setup.db = "flat" /\ ~setup.nfs /\ arg[p].mode = "w")
    <3> DEFINE h == [arg[p] EXCEPT !.locked = (setup.db = "gdbm" /\ ~setup.nfs)]
    <3>1. dbmPush(p, h)
      BY <1>5, <2>2 DEF OpenSucceeds
    <3>2. arg[p] \in Handle
      BY <1>5 DEF OpenSucceeds, TypeOK
    <3>3. h \in Handle /\ h.mode = arg[p].mode /\ h.locked = (setup.db = "gdbm" /\ ~setup.nfs)
      BY <3>2 DEF Handle
    <3>4. setup.db \in {"gdbm", "ndbm", "flat"}
      BY DbmAssumption DEF TypeOK, Setup
    <3>5. Excludes => (h.mode = "w" => h.locked)
      BY <2>2, <3>3, <3>4 DEF Excludes
    <3>6. QED
      BY <1>3, <3>1, <3>3, <3>5
  <2>3. QED
    BY <2>1, <2>2
<1>6. CASE LockFile(p)
  <2> DEFINE h == [arg[p] EXCEPT !.locked = TRUE]
  <2>1. dbmPush(p, h)
    BY <1>6 DEF LockFile
  <2>2. h \in Handle /\ h.locked
    BY <1>6 DEF LockFile, TypeOK, Handle
  <2>3. QED
    BY <1>3, <2>1, <2>2
<1>7. CASE LockRefused(p)
  <2>1. ~Excludes
    BY <1>7, TidyIsNotRefused DEF Excludes, FlatWaits, LockRefused
  <2>2. QED
    BY <1>1, <2>1 DEF WritersLock, Excludes, Tidy
<1>8. ASSUME NEW f \in Files, Close(p, f)
      PROVE  WritersLock'
  BY <1>2, <1>4, <1>8, ClosingHandles DEF Close
<1>9. CASE EndRequest(p)
  BY <1>2, <1>4, <1>9, PushHandles, ClosingHandles DEF EndRequest, dbmCloseAll
<1>10. CASE Dies(p)
  BY <1>4, <1>10 DEF Dies, TypeOK
<1>11. QED
  BY <1>2, <1>5, <1>6, <1>7, <1>8, <1>9, <1>10
     DEF Step, Opened, StartRequest, OpenStart, OpenFails, ProcessExit, Kill

LEMMA LocksAgreeStep ==
  ASSUME TypeOK, LocksAgree, NEW p \in Procs, Step(p)
  PROVE  LocksAgree'
<1>1. CASE UNCHANGED <<top, lost>>
  BY <1>1 DEF LocksAgree, Handles
<1>2. CASE \E h \in Handle : dbmPush(p, h) /\ (h.locked => ~Blocked(p, h))
  <2>1. PICK h \in Handle : dbmPush(p, h) /\ (h.locked => ~Blocked(p, h))
    BY <1>2
  <2>2. /\ Handles(p)' = Handles(p) \union ({h} \ {None})
        /\ \A q \in Procs \ {p} : Handles(q)' = Handles(q)
    BY <2>1, PushHandles
  <2>3. ASSUME h.locked, NEW q \in Procs \ {p}, NEW g \in Handles(q), g.locked, g.file = h.file
        PROVE  g.mode = "r" /\ h.mode = "r"
    <3>1. ~(g.mode = "w" \/ h.mode = "w")
      BY <2>1, <2>3 DEF Blocked, InTheWay
    <3>2. g \in Handle
      BY <2>3, HandlesTyped
    <3>3. QED
      BY <3>1, <3>2 DEF Handle, Modes
  <2>4. QED
    BY <2>2, <2>3, AgreeStep
<1>3. CASE /\ \A h \in Handles(p)' : h.locked =>
                \E g \in Handles(p) : g.locked /\ g.file = h.file /\ g.mode = h.mode
           /\ \A q \in Procs \ {p} : Handles(q)' = Handles(q)
  BY <1>3, AgreeStep
<1>4. CASE OpenSucceeds(p)
  <2>1. CASE setup.db = "flat" /\ ~setup.nfs /\ arg[p].mode = "w"
    BY <1>1, <1>4, <2>1 DEF OpenSucceeds
  <2>2. CASE ~(setup.db = "flat" /\ ~setup.nfs /\ arg[p].mode = "w")
    <3> DEFINE h == [arg[p] EXCEPT !.locked = (setup.db = "gdbm" /\ ~setup.nfs)]
    <3>1. dbmPush(p, h)
      BY <1>4, <2>2 DEF OpenSucceeds
    <3>2. /\ h \in Handle /\ h.file = arg[p].file /\ h.mode = arg[p].mode
          /\ h.locked = (setup.db = "gdbm" /\ ~setup.nfs)
      BY <1>4 DEF OpenSucceeds, TypeOK, Handle
    <3>3. h.locked => ~Blocked(p, h)
      BY <1>4, <3>2 DEF OpenSucceeds, Blocked, InTheWay
    <3>4. QED
      BY <1>2, <3>1, <3>2, <3>3
  <2>3. QED
    BY <2>1, <2>2
<1>5. CASE LockFile(p)
  <2> DEFINE h == [arg[p] EXCEPT !.locked = TRUE]
  <2>1. dbmPush(p, h)
    BY <1>5 DEF LockFile
  <2>2. h \in Handle /\ h.file = arg[p].file /\ h.mode = arg[p].mode
    BY <1>5 DEF LockFile, TypeOK, Handle
  <2>3. ~Blocked(p, h)
    BY <1>5, <2>2 DEF LockFile, Blocked, InTheWay
  <2>4. QED
    BY <1>2, <2>1, <2>2, <2>3
<1>6. CASE LockRefused(p)
  <2> DEFINE h == [arg[p] EXCEPT !.locked = FALSE]
  <2>1. dbmPush(p, h)
    BY <1>6 DEF LockRefused
  <2>2. h \in Handle /\ ~h.locked
    <3>1. arg[p] \in Handle
      BY <1>6 DEF LockRefused, TypeOK
    <3>2. QED
      BY <3>1 DEF Handle
  <2>3. QED
    BY <1>2, <2>1, <2>2
<1>7. ASSUME NEW f \in Files, Close(p, f)
      PROVE  LocksAgree'
  <2>1. CASE top[p] # None /\ top[p].file = f
    BY <1>3, <1>7, <2>1, ClosingHandles DEF Close
  <2>2. CASE ~(top[p] # None /\ top[p].file = f)
    BY <1>1, <1>7, <2>2 DEF Close
  <2>3. QED
    BY <2>1, <2>2
<1>8. CASE EndRequest(p)
  <2>1. CASE top[p] = None
    BY <1>1, <1>8, <2>1 DEF EndRequest, dbmCloseAll
  <2>2. CASE top[p] # None /\ setup.logging
    <3>1. dbmPush(p, None)
      BY <1>8, <2>2 DEF EndRequest, dbmCloseAll
    <3>2. Handles(p)' = Handles(p) /\ \A q \in Procs \ {p} : Handles(q)' = Handles(q)
      BY <3>1, PushHandles
    <3>3. QED
      BY <1>3, <3>2
  <2>3. CASE top[p] # None /\ ~setup.logging
    BY <1>3, <1>8, <2>3, ClosingHandles DEF EndRequest, dbmCloseAll
  <2>4. QED
    BY <2>1, <2>2, <2>3
<1>9. CASE Dies(p)
  BY <1>3, <1>9 DEF Dies, Handles, TypeOK
<1>10. QED
  BY <1>1, <1>4, <1>5, <1>6, <1>7, <1>8, <1>9
     DEF Step, Opened, StartRequest, OpenStart, OpenFails, ProcessExit, Kill

-----------------------------------------------------------------------------
(* The theorems. *)

(* The invariant the other two theorems rest on: locks of all open files,  *)
(* lost ones included, agree, and writers on the stack hold one.           *)
THEOREM DbmInvariant == Spec => []DbmInv
<1>1. Init => DbmInv
  <2>1. Init => TypeOK
    BY DbmAssumption DEF Init, TypeOK
  <2>2. Init => \A p \in Procs : Handles(p) = {} /\ top[p] = None /\ lost[p] = {} /\ pc[p] = "idle"
    BY DEF Init, Handles
  <2>3. QED
    BY <2>1, <2>2 DEF DbmInv, WritersLock, LocksAgree, OneAtATime, FlatWaits
<1>2. DbmInv /\ [Next]_vars => DbmInv'
  <2>1. ASSUME DbmInv, NEW p \in Procs, Step(p)
        PROVE  DbmInv'
    BY <2>1, TypeStep, WritersLockStep, LocksAgreeStep, OneAtATimeStep, FlatWaitsStep DEF DbmInv
  <2>2. ASSUME DbmInv, UNCHANGED vars
        PROVE  DbmInv'
    BY <2>2 DEF DbmInv, vars, TypeOK, WritersLock, LocksAgree, OneAtATime, FlatWaits, Handles,
                Excludes, Tidy
  <2>3. QED
    BY <2>1, <2>2 DEF Next
<1>3. QED
  BY <1>1, <1>2, PTL DEF Spec

(* In the builds whose locks work, _dbmOpen never lets two processes have  *)
(* a dbm file open for writing.                                            *)
THEOREM DbmWriterExclusion == Spec => []WriterExclusion
<1>1. DbmInv => WriterExclusion
  <2> SUFFICES ASSUME DbmInv, Excludes, NEW p \in Procs, NEW q \in Procs, NEW f \in Files,
                      Writing(p, f), Writing(q, f), p # q
               PROVE  FALSE
    BY DEF WriterExclusion
  <2>1. top[p] \in Handles(p) /\ top[q] \in Handles(q)
    BY DEF Writing, Handles
  <2>2. top[p].locked /\ top[q].locked
    BY DEF DbmInv, WritersLock, Writing
  <2>3. QED
    BY <2>1, <2>2 DEF DbmInv, LocksAgree, Writing
<1>2. QED
  BY <1>1, DbmInvariant, PTL

(* dbmCloseAll and the end of the process leave nothing open that would    *)
(* keep other processes out.                                               *)
THEOREM DbmIdleHoldsNothing == Spec => []IdleHoldsNothing
<1>1. DbmInv => IdleHoldsNothing
  BY DEF DbmInv, OneAtATime, IdleHoldsNothing, Handles
<1>2. QED
  BY <1>1, DbmInvariant, PTL
-----------------------------------------------------------------------------
(* The .lck files of NFS_HACK. *)

(* The page for which a .lck file exists.                                  *)
Owns(p, f) == Writing(p, f) \/ (pc[p] = "open" /\ arg[p].file = f /\ arg[p].mode = "w")

(* The pages LckHasOwner speaks of.                                        *)
LckTidy == Tidy /\ ~setup.logging /\ ~setup.kill

(* Without NFS_HACK no .lck file stays, and a page that has ended without  *)
(* logging has closed what is on its stack.                                *)
LckSupport ==
  /\ \A f \in Files : lck[f] => setup.nfs
  /\ \A p \in Procs : pc[p] = "exit" /\ ~setup.logging => top[p] = None

LckProofInv == DbmInv /\ LckHasOwner /\ LckSupport

(* A step of p keeps the owners, if every .lck file is p's afterwards or   *)
(* was another's before.                                                   *)
LEMMA LckFrame ==
  ASSUME LckHasOwner, NEW p \in Procs, setup' = setup,
         \A q \in Procs \ {p} : pc'[q] = pc[q] /\ top'[q] = top[q] /\ arg'[q] = arg[q],
         LckTidy => \A f \in Files : lck'[f] => Owns(p, f)' \/ (lck[f] /\ ~Owns(p, f))
  PROVE  LckHasOwner'
<1> SUFFICES ASSUME LckTidy, NEW f \in Files, lck'[f]
             PROVE  \E q \in Procs : Owns(q, f)'
  BY DEF LckHasOwner, LckTidy, Tidy, Owns, Writing
<1>1. CASE Owns(p, f)'
  BY <1>1
<1>2. CASE lck[f] /\ ~Owns(p, f)
  <2>1. PICK q \in Procs : Owns(q, f)
    BY <1>2 DEF LckHasOwner, LckTidy, Owns
  <2>2. q \in Procs \ {p}
    BY <1>2, <2>1
  <2>3. Owns(q, f)'
    BY <2>1, <2>2 DEF Owns, Writing
  <2>4. QED
    BY <2>3
<1>3. QED
  BY <1>1, <1>2

(* What a step of p does to the other pages.                               *)
LEMMA OthersStay ==
  ASSUME TypeOK, NEW p \in Procs, Step(p)
  PROVE  \A q \in Procs \ {p} : pc'[q] = pc[q] /\ top'[q] = top[q] /\ arg'[q] = arg[q]
<1>1. \A q \in Procs \ {p} : pc'[q] = pc[q] /\ arg'[q] = arg[q]
  BY DEF Step, StartRequest, OpenStart, Opened, OpenSucceeds, OpenFails, LockFile, LockRefused,
         Close, EndRequest, ProcessExit, Kill, Dies, Goto, TypeOK
<1>2. \A q \in Procs \ {p} : top'[q] = top[q]
  BY DEF Step, StartRequest, OpenStart, Opened, OpenSucceeds, OpenFails, LockFile, LockRefused,
         Close, EndRequest, ProcessExit, Kill, Dies, dbmPush, Closing, dbmCloseAll, TypeOK
<1>3. QED
  BY <1>1, <1>2

(* Every step keeps the .lck files with the pages that write.              *)
LEMMA LckStep ==
  ASSUME LckProofInv, NEW p \in Procs, Step(p)
  PROVE  LckHasOwner' /\ LckSupport'
<1> USE DEF LckProofInv, DbmInv
<1>1. setup' = setup
  BY SetupStays
<1>2. \A q \in Procs \ {p} : pc'[q] = pc[q] /\ top'[q] = top[q] /\ arg'[q] = arg[q]
  BY OthersStay
<1>3. SUFFICES /\ LckTidy => \A f \in Files : lck'[f] => Owns(p, f)' \/ (lck[f] /\ ~Owns(p, f))
               /\ \A f \in Files : lck'[f] => setup.nfs
               /\ pc'[p] = "exit" /\ ~setup.logging => top'[p] = None
  BY <1>1, <1>2, LckFrame DEF LckSupport
<1>4. LckTidy /\ pc[p] \in {"open", "lock", "idle"} => top[p] = None
  BY DEF LckTidy, OneAtATime
<1>5. pc[p] = "exit" /\ ~setup.logging => top[p] = None
  BY DEF LckSupport
<1>6. \A f \in Files : lck[f] => setup.nfs
  BY DEF LckSupport
<1>7. CASE StartRequest(p)
  BY <1>4, <1>6, <1>7, GotoEffect DEF StartRequest, Owns, Writing
<1>8. ASSUME NEW f \in Files, NEW mode \in Modes, OpenStart(p, f, mode)
      PROVE  /\ LckTidy => \A g \in Files : lck'[g] => Owns(p, g)' \/ (lck[g] /\ ~Owns(p, g))
             /\ \A g \in Files : lck'[g] => setup.nfs
             /\ pc'[p] = "exit" /\ ~setup.logging => top'[p] = None
  BY <1>6, <1>8, GotoEffect DEF OpenStart, Owns, Writing, LckTidy, Tidy
<1>9. CASE OpenSucceeds(p)
  <2>1. pc[p] = "open" /\ lck' = LckAfterOpen(p, TRUE) /\ arg[p] \in Handle /\ lck \in [Files -> BOOLEAN]
    BY <1>9 DEF OpenSucceeds, TypeOK
  <2>2. \A f \in Files : lck'[f] => lck[f] \/ (setup.nfs /\ arg[p].mode = "w" /\ arg[p].file = f)
    BY <2>1 DEF LckAfterOpen
  <2>3. setup.nfs => pc'[p] = "page" /\ top'[p] \in Handle /\ top'[p].file = arg[p].file /\ top'[p].mode = arg[p].mode
    <3>1. CASE setup.nfs
      <4>1. Goto(p, "page") /\ dbmPush(p, [arg[p] EXCEPT !.locked = FALSE])
        BY <1>9, <3>1 DEF OpenSucceeds
      <4>2. PICK h : h = [arg[p] EXCEPT !.locked = FALSE]
        OBVIOUS
      <4>3. h \in Handle /\ h.file = arg[p].file /\ h.mode = arg[p].mode
        BY <2>1, <4>2 DEF Handle
      <4>4. top'[p] = h
        BY <4>1, <4>2, <4>3, PushHandles
      <4>5. QED
        BY <4>1, <4>3, <4>4, GotoEffect
    <3>2. QED
      BY <3>1
  <2>4. \A f \in Files : lck'[f] => setup.nfs
    BY <1>6, <2>2
  <2>5. \A f \in Files : setup.nfs /\ Owns(p, f) /\ LckTidy => Owns(p, f)'
    BY <1>4, <2>1, <2>3, DbmAssumption DEF Owns, Writing
  <2>6. \A f \in Files : setup.nfs /\ arg[p].mode = "w" /\ arg[p].file = f => Owns(p, f)
    BY <2>1 DEF Owns
  <2>7. pc'[p] # "exit"
    BY <1>9, GotoEffect DEF OpenSucceeds
  <2>8. QED
    BY <2>2, <2>4, <2>5, <2>6, <2>7
<1>10. CASE OpenFails(p)
  <2>1. /\ pc[p] = "open" /\ lck' = LckAfterOpen(p, FALSE) /\ Goto(p, "page") /\ UNCHANGED top
        /\ arg[p] \in Handle /\ lck \in [Files -> BOOLEAN]
    BY <1>10 DEF OpenFails, TypeOK
  <2>2. \A f \in Files : lck'[f] => lck[f] /\ ~(setup.nfs /\ arg[p].mode = "w" /\ arg[p].file = f)
    BY <2>1 DEF LckAfterOpen
  <2>3. \A f \in Files : LckTidy /\ lck'[f] => lck[f] /\ ~Owns(p, f)
    BY <1>4, <1>6, <2>1, <2>2 DEF Owns, Writing
  <2>4. pc'[p] # "exit"
    BY <2>1, GotoEffect
  <2>5. QED
    BY <1>6, <2>2, <2>3, <2>4
<1>11. CASE LockFile(p) \/ LockRefused(p)
  <2>1. pc[p] = "lock" /\ Goto(p, "page") /\ UNCHANGED lck
    BY <1>11 DEF LockFile, LockRefused
  <2>2. LckTidy => \A f \in Files : ~Owns(p, f)
    BY <1>4, <2>1 DEF Owns, Writing
  <2>3. QED
    BY <1>6, <2>1, <2>2, GotoEffect
<1>12. ASSUME NEW f \in Files, Close(p, f)
       PROVE  /\ LckTidy => \A g \in Files : lck'[g] => Owns(p, g)' \/ (lck[g] /\ ~Owns(p, g))
              /\ \A g \in Files : lck'[g] => setup.nfs
              /\ pc'[p] = "exit" /\ ~setup.logging => top'[p] = None
  <2>1. pc[p] = "page" /\ pc' = pc
    BY <1>12 DEF Close
  <2>2. CASE top[p] # None /\ top[p].file = f
    <3>1. lck' = IF setup.nfs THEN [lck EXCEPT ![f] = FALSE] ELSE lck
      BY <1>12, <2>2 DEF Close
    <3>2. \A g \in Files : lck'[g] => lck[g] /\ g # f
      BY <1>6, <3>1 DEF TypeOK
    <3>3. \A g \in Files : Owns(p, g) => g = f
      BY <2>1, <2>2 DEF Owns, Writing
    <3>4. QED
      BY <1>6, <2>1, <3>2, <3>3
  <2>3. CASE ~(top[p] # None /\ top[p].file = f)
    BY <1>6, <1>12, <2>1, <2>3 DEF Close, Owns, Writing
  <2>4. QED
    BY <2>2, <2>3
<1>13. CASE EndRequest(p)
  <2>1. pc[p] = "page" /\ dbmCloseAll(p)
    BY <1>13 DEF EndRequest
  <2>2. \A f \in Files : lck'[f] => lck[f]
    BY <2>1 DEF dbmCloseAll, TypeOK
  <2>3. LckTidy => \A f \in Files : lck'[f] => ~Owns(p, f)
    BY <1>6, <2>1 DEF dbmCloseAll, Owns, Writing, LckTidy, TypeOK
  <2>4. top'[p] = None
    BY <2>1, PushHandles, ClosingHandles DEF dbmCloseAll
  <2>5. QED
    BY <1>6, <2>2, <2>3, <2>4
<1>14. CASE ProcessExit(p) \/ Kill(p)
  <2>1. lck' = lck /\ top'[p] = None
    BY <1>14 DEF ProcessExit, Kill, Dies, TypeOK
  <2>2. LckTidy => pc[p] = "exit" /\ top[p] = None
    BY <1>5, <1>14 DEF ProcessExit, Kill, LckTidy
  <2>3. QED
    BY <1>6, <2>1, <2>2 DEF Owns, Writing
<1>15. QED
  BY <1>7, <1>8, <1>9, <1>10, <1>11, <1>12, <1>13, <1>14 DEF Step, Opened

(* With NFS_HACK a .lck file outlives neither a failed dbmopen nor the     *)
(* page that wrote (_dbmOpen, _dbmClose, dbmCloseAll), as long as pages    *)
(* have one file open at a time and nobody kills them.                     *)
THEOREM DbmLckInv == Spec => []LckInv
<1>1. Init => LckHasOwner /\ LckSupport
  BY DEF Init, LckHasOwner, LckSupport
<1>2. LckProofInv /\ [Next]_vars => (LckHasOwner /\ LckSupport)'
  <2>1. ASSUME LckProofInv, UNCHANGED vars
        PROVE  LckHasOwner' /\ LckSupport'
    BY <2>1 DEF LckProofInv, LckHasOwner, LckSupport, Tidy, Writing, vars
  <2>2. QED
    BY <2>1, LckStep DEF Next
<1>3. DbmInv /\ LckHasOwner => LckInv
  BY DEF DbmInv, LckInv
<1>4. QED
  BY <1>1, <1>2, <1>3, DbmInvariant, PTL DEF Spec, LckProofInv
=============================================================================
