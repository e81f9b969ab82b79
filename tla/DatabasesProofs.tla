--------------------------- MODULE DatabasesProofs ---------------------------
(* Theorems about Databases, for every value of its constants: what the    *)
(* program remembers of its connections is true, so queries run where they *)
(* were sent, and results are there for as long as pages keep them.  At    *)
(* the end, the access log, which is kept in mSQL too, or in a dbm file:   *)
(* what its counter counts, for any number of processes and hits.          *)
EXTENDS Databases, AccessLog, FiniteSetTheorems, TLAPS

-----------------------------------------------------------------------------
(* mSQL: the inductive invariant. *)

Result == [ind : 1..MaxResults, of : Places]

Known == [sock    : {None} \union Sockets,
          db      : DBs \union {LogDB, None},
          port    : Ports \union {None, Empty},
          results : SUBSET Result]

(* What is remembered of the connection is true: of the host unless the    *)
(* log connects for a page that uses other hosts; of the port unless the   *)
(* log works for a page that changes it; of the database on pages that     *)
(* list no tables.  A port that is remembered as "" or a database as none  *)
(* claims nothing.                                                         *)
Truthful(c) ==
  LET s == c.sock IN
  /\ s = None => c.db = None
  /\ s # None =>
       /\ ~({"logs", "hosts"} \subseteq habits) => s.host = curHost
       /\ ~({"logs", "switch"} \subseteq habits) => c.port \in {s.port, Empty}
       /\ "switch" \notin habits => s.port = env
       /\ env = None => s.port = None
       /\ "lists" \notin habits => c.db \in {s.db, None}
       /\ "nolog" \notin habits => s.open
  /\ "port" \in habits => c.port # None

Environment ==
  /\ env \in Ports \union {None}
  /\ "port" \in habits => env # None
  /\ "port" \notin habits /\ "switch" \notin habits => env = None

(* The results that the page holds are those of the list, by their numbers.*)
Held ==
  habits \cap {"lists", "port", "switch"} = {} /\ ~({"hosts", "logs"} \subseteq habits) =>
    /\ owned = results
    /\ \A r \in results : r.ind < ind
    /\ \A r, s \in results : r.ind = s.ind => r = s

MsqlInv ==
  /\ here \in Known /\ Truthful(here) /\ Environment /\ Held
  /\ curHost \in Hosts /\ ("hosts" \notin habits => curHost = Local)
  /\ first \subseteq Functions1 /\ ind \in 1 .. MaxResults + 1
  /\ owned \subseteq Result /\ ran \in [wanted : Places, on : Places]
  /\ crashed \in BOOLEAN
  /\ habits \cap {"nolog", "gone"} = {} /\ ("switch" \in habits => "port" \in habits) => ~crashed
  /\ RanWhereWanted

-----------------------------------------------------------------------------
(* Postgres95: the inductive invariant. *)

(* On pages that use no numbers that they have not got, the table of types *)
(* is there from the first connection on, under a number of its own.       *)
TypesKept ==
  pgHabits \cap {"strays", "typeless"} = {} =>
    /\ ~freed /\ kept \subseteq DOMAIN pgResults /\ pgTypeRes \notin kept
    /\ IF pgTypeRes = 0 THEN Live = {} /\ DOMAIN pgResults = {} ELSE Typed

PgInv ==
  /\ PgTypeOK /\ TypesKept
  /\ pgTypeRes < nextRes /\ \A n \in DOMAIN pgResults : n < nextRes

IInv ==
  /\ MsqlInv /\ PgInv
  /\ build \in Builds /\ [msql |-> habits, pg |-> pgHabits] \in Pages
-----------------------------------------------------------------------------
(* What a call does to what is remembered. *)

(* When a query must run where it was sent.                                *)
Straight ==
  /\ "lists" \notin habits /\ ~({"logs", "hosts"} \subseteq habits)
  /\ ~({"logs", "switch"} \subseteq habits)

(* When results must stay.                                                 *)
Holding == habits \cap {"lists", "port", "switch"} = {} /\ ~({"hosts", "logs"} \subseteq habits)

LEMMA HoldingIsStraight ==
  ASSUME Holding
  PROVE  Straight /\ "port" \notin habits /\ "switch" \notin habits
<1>1. \A h \in {"lists", "port", "switch"} : h \notin habits
  BY DEF Holding
<1>2. QED
  BY <1>1 DEF Holding, Straight

LEMMA KnownParts ==
  ASSUME NEW c \in Known
  PROVE  /\ c.sock \in {None} \union Sockets /\ c.db \in DBs \union {LogDB, None}
         /\ c.port \in Ports \union {None, Empty} /\ c.results \subseteq Result
         /\ c = [sock |-> c.sock, db |-> c.db, port |-> c.port, results |-> c.results]
BY DEF Known

LEMMA Becoming ==
  ASSUME NEW c \in Known, Becomes(c)
  PROVE  here' = c
<1>1. c = [sock |-> c.sock, db |-> c.db, port |-> c.port, results |-> c.results]
  BY KnownParts
<1>2. QED
  BY <1>1 DEF Becomes, here

LEMMA HereParts == here.sock = sock /\ here.db = curDB /\ here.port = curPort /\ here.results = results
BY DEF here

(* The first call of a function forgets, and keeps the connection.         *)
LEMMA FirstFits ==
  ASSUME MsqlInv, NEW f, NEW c, c = FirstCall(f)
  PROVE  /\ c \in Known /\ Truthful(c) /\ c.sock = sock /\ c.results = results
         /\ c.port \in {curPort, Empty}
<1>1. here \in Known /\ Truthful(here)
  BY DEF MsqlInv
<1>2. CASE f \in first
  <2>1. c = [here EXCEPT !.db = None, !.port = Empty]
    BY <1>2 DEF FirstCall
  <2>2. c = [sock |-> sock, db |-> None, port |-> Empty, results |-> results]
    BY <2>1 DEF here
  <2>3. sock \in {None} \union Sockets /\ results \subseteq Result
    BY <1>1, KnownParts, HereParts
  <2>4. c \in Known
    BY <2>2, <2>3 DEF Known
  <2>5. c.sock = sock /\ c.db = None /\ c.port = Empty /\ c.results = results
    BY <2>2
  <2>6. Truthful(c)
    BY <1>1, <2>5, HereParts, MsqlAssumption DEF Truthful
  <2>7. QED
    BY <2>4, <2>5, <2>6
<1>3. CASE f \notin first
  <2>1. c = here
    BY <1>3 DEF FirstCall
  <2>2. QED
    BY <1>1, <2>1, HereParts
<1>4. QED
  BY <1>2, <1>3

LEMMA ConnectedFits ==
  ASSUME NEW c \in Known, NEW h \in Hosts, Environment, NEW m, m = Connected(c, h),
         c.sock = None => c.db = None, c.sock = None, ~({"logs", "hosts"} \subseteq habits) => h = curHost
  PROVE  /\ m \in Known /\ Truthful(m) /\ m.sock # None /\ m.results = c.results
         /\ m.sock = [host |-> h, port |-> env, db |-> None, open |-> TRUE] /\ m.port = env
         /\ m.db = None
<1>1. c = [sock |-> c.sock, db |-> c.db, port |-> c.port, results |-> c.results]
      /\ c.results \subseteq Result
  BY KnownParts
<1>2. PICK s : s = [host |-> h, port |-> env, db |-> None, open |-> TRUE]
  OBVIOUS
<1>3. s \in Sockets /\ s # None
  <2>1. env \in Ports \union {None} /\ None \in DBs \union {LogDB, None}
    BY DEF Environment
  <2>2. s \in Sockets
    BY <1>2, <2>1 DEF Sockets
  <2>3. None \notin Sockets
    BY MsqlAssumption
  <2>4. QED
    BY <2>2, <2>3
<1>4. m = [c EXCEPT !.sock = s, !.port = env]
  BY <1>2 DEF Connected
<1>5. m = [sock |-> s, db |-> c.db, port |-> env, results |-> c.results]
  BY <1>1, <1>4
<1>6. m.sock = s /\ m.db = None /\ m.port = env /\ m.results = c.results
  BY <1>5
<1>7. m \in Known
  BY <1>1, <1>3, <1>5 DEF Known, Environment
<1>8. s.host = h /\ s.port = env /\ s.db = None /\ s.open
  BY <1>2
<1>9. Truthful(m)
  BY <1>3, <1>6, <1>8 DEF Truthful, Environment
<1>10. QED
  BY <1>2, <1>3, <1>6, <1>7, <1>9

(* A connection made in time is to the ports of the environment.           *)
LEMMA MadeFits ==
  ASSUME MsqlInv, NEW c \in Known, Truthful(c), NEW up \in BOOLEAN, NEW m, m = Made(c, up)
  PROVE  /\ m \in Known /\ Truthful(m)
         /\ m.sock # None /\ ~({"logs", "switch"} \subseteq habits) => m.sock.port = env
         /\ Holding => m.results = c.results
<1>1. Environment /\ curHost \in Hosts
  BY DEF MsqlInv
<1>2. PICK o : o = IF Stale(c) THEN Closed(c) ELSE c
  OBVIOUS
<1>3. m = IF o.sock = None /\ up THEN Connected(o, curHost) ELSE o
  BY <1>2 DEF Made
<1>4. o \in Known /\ Truthful(o) /\ (Holding => o.results = c.results)
  <2>1. CASE Stale(c)
    <3>1. c = [sock |-> c.sock, db |-> c.db, port |-> c.port, results |-> c.results]
          /\ c.port \in Ports \union {None, Empty}
      BY KnownParts
    <3>2. o = [c EXCEPT !.sock = None, !.db = None, !.results = {}]
      BY <1>2, <2>1 DEF Closed
    <3>3. o = [sock |-> None, db |-> None, port |-> c.port, results |-> {}]
      BY <3>1, <3>2
    <3>4. o \in Known
      BY <3>1, <3>3 DEF Known
    <3>5. o.sock = None /\ o.db = None /\ o.port = c.port
      BY <3>3
    <3>6. Truthful(o)
      BY <3>5 DEF Truthful
    <3>7. ~Holding
      BY <1>1, <2>1, HoldingIsStraight DEF Stale, Environment
    <3>8. QED
      BY <3>4, <3>6, <3>7
  <2>2. CASE ~Stale(c)
    BY <1>2, <2>2
  <2>3. QED
    BY <2>1, <2>2
<1>5. o.sock # None /\ ~({"logs", "switch"} \subseteq habits) => o.sock.port = env
  <2> SUFFICES ASSUME o.sock # None, ~({"logs", "switch"} \subseteq habits)
               PROVE  o.sock.port = env
    OBVIOUS
  <2>1. ~Stale(c)
    <3>1. ASSUME Stale(c)
          PROVE  FALSE
      <4>1. o = [c EXCEPT !.sock = None, !.db = None, !.results = {}]
        BY <1>2, <3>1 DEF Closed
      <4>2. c = [sock |-> c.sock, db |-> c.db, port |-> c.port, results |-> c.results]
        BY KnownParts
      <4>3. o.sock = None
        BY <4>1, <4>2
      <4>4. QED
        BY <4>3
    <3>2. QED
      BY <3>1
  <2>2. o = c /\ (env = None \/ env = c.port)
    BY <1>2, <2>1 DEF Stale
  <2>3. c.port \in {c.sock.port, Empty} /\ (env = None => c.sock.port = None)
    BY <2>2 DEF Truthful
  <2>4. env # Empty
    BY <1>1, MsqlAssumption DEF Environment
  <2>5. QED
    BY <2>2, <2>3, <2>4
<1>6. CASE o.sock = None /\ up
  <2>1. m = Connected(o, curHost)
    BY <1>3, <1>6
  <2>2. o.sock = None => o.db = None
    BY <1>4 DEF Truthful
  <2>3. /\ m \in Known /\ Truthful(m) /\ m.results = o.results
        /\ m.sock = [host |-> curHost, port |-> env, db |-> None, open |-> TRUE]
    BY <1>1, <1>4, <1>6, <2>1, <2>2, ConnectedFits
  <2>4. m.sock.port = env
    BY <2>3
  <2>5. QED
    BY <1>4, <2>3, <2>4
<1>7. CASE ~(o.sock = None /\ up)
  BY <1>3, <1>4, <1>5, <1>7
<1>8. QED
  BY <1>6, <1>7

(* A database is selected on a connection.                                 *)
LEMMA SelectedParts ==
  ASSUME NEW c \in Known, c.sock # None, NEW d \in DBs \union {LogDB}, NEW e, e = Selected(c, d)
  PROVE  /\ e \in Known /\ e.db = c.db /\ e.port = c.port /\ e.results = c.results
         /\ e.sock \in Sockets /\ e.sock # None /\ c.sock \in Sockets
         /\ e.sock.host = c.sock.host /\ e.sock.port = c.sock.port
         /\ e.sock.db = d /\ e.sock.open = c.sock.open
<1>1. /\ c = [sock |-> c.sock, db |-> c.db, port |-> c.port, results |-> c.results]
      /\ c.sock \in Sockets /\ c.db \in DBs \union {LogDB, None}
      /\ c.port \in Ports \union {None, Empty} /\ c.results \subseteq Result
  BY KnownParts
<1>2. PICK s : s = [c.sock EXCEPT !.db = d]
  OBVIOUS
<1>3. s \in Sockets /\ s.host = c.sock.host /\ s.port = c.sock.port /\ s.db = d /\ s.open = c.sock.open
  BY <1>1, <1>2 DEF Sockets
<1>4. e = [c EXCEPT !.sock = s]
  BY <1>2 DEF Selected
<1>5. e = [sock |-> s, db |-> c.db, port |-> c.port, results |-> c.results]
  BY <1>1, <1>4
<1>6. e.sock = s /\ e.db = c.db /\ e.port = c.port /\ e.results = c.results
  BY <1>5
<1>7. e \in Known
  BY <1>1, <1>3, <1>5 DEF Known
<1>8. s # None
  BY <1>3, MsqlAssumption
<1>9. QED
  BY <1>1, <1>3, <1>6, <1>7, <1>8

Remembered(e, d) == [e EXCEPT !.db = d]

(* It is remembered, or tables are listed.                                 *)
LEMMA SelectedFits ==
  ASSUME NEW c \in Known, Truthful(c), c.sock # None, NEW d \in DBs \union {LogDB},
         NEW e, e = Selected(c, d), NEW r, r = Remembered(e, d)
  PROVE  /\ r \in Known /\ Truthful(r) /\ r.results = c.results /\ r.sock = e.sock
         /\ r.port = c.port /\ r.db = d
         /\ "lists" \in habits => Truthful(e)
<1>1. /\ e \in Known /\ e.db = c.db /\ e.port = c.port /\ e.results = c.results
      /\ e.sock \in Sockets /\ e.sock # None
      /\ e.sock.host = c.sock.host /\ e.sock.port = c.sock.port
      /\ e.sock.db = d /\ e.sock.open = c.sock.open
  BY SelectedParts
<1>2. /\ e = [sock |-> e.sock, db |-> e.db, port |-> e.port, results |-> e.results]
      /\ e.port \in Ports \union {None, Empty} /\ e.results \subseteq Result
  BY <1>1, KnownParts
<1>3. r = [sock |-> e.sock, db |-> d, port |-> e.port, results |-> e.results]
  BY <1>2 DEF Remembered
<1>4. r.sock = e.sock /\ r.db = d /\ r.port = e.port /\ r.results = e.results
  BY <1>3
<1>5. r \in Known
  BY <1>1, <1>2, <1>3 DEF Known
<1>6. Truthful(r)
  BY <1>1, <1>4 DEF Truthful
<1>7. "lists" \in habits => Truthful(e)
  BY <1>1 DEF Truthful
<1>8. QED
  BY <1>1, <1>4, <1>5, <1>6, <1>7
-----------------------------------------------------------------------------
(* The functions of pages. *)

(* What is selected is remembered.                                         *)
LEMMA RememberedFits ==
  ASSUME NEW c \in Known, Truthful(c), c.sock # None, NEW d \in DBs \union {LogDB},
         NEW r, r = Remembered(Selected(c, d), d)
  PROVE  /\ r \in Known /\ Truthful(r) /\ r.results = c.results
         /\ r.sock # None /\ r.sock.host = c.sock.host /\ r.sock.port = c.sock.port /\ r.sock.db = d
<1>1. PICK e : e = Selected(c, d)
  OBVIOUS
<1>2. r = Remembered(e, d)
  BY <1>1
<1>3. r \in Known /\ Truthful(r) /\ r.results = c.results /\ r.sock = e.sock
  BY <1>1, <1>2, SelectedFits
<1>4. /\ e.sock # None /\ e.sock.host = c.sock.host /\ e.sock.port = c.sock.port /\ e.sock.db = d
  BY <1>1, SelectedParts
<1>5. QED
  BY <1>3, <1>4

LEMMA PlaceType ==
  ASSUME NEW h \in Hosts, NEW p \in Ports \union {None}, NEW d \in DBs \union {LogDB, None}
  PROVE  Place(h, p, d) \in Places
BY DEF Place, Places

(* The rest of the state, which most calls leave alone.                    *)
Rest == UNCHANGED <<curHost, env, crashed, habits>> /\ first' \subseteq Functions1

LEMMA TruthStays ==
  ASSUME UNCHANGED <<curHost, env, habits>>, NEW c, Truthful(c), here' = c
  PROVE  Truthful(here)' /\ Environment' = Environment
<1>1. Truthful(here)' = Truthful(c)
  BY DEF Truthful
<1>2. QED
  BY <1>1 DEF Environment

LEMMA FailsKeeps ==
  ASSUME MsqlInv, NEW c \in Known, Truthful(c), Holding => c.results = results, Fails(c), Rest
  PROVE  MsqlInv'
<1>1. here' = c /\ UNCHANGED <<ind, owned, ran, curHost, env, crashed, habits>>
  BY Becoming DEF Fails, Rest
<1>2. here' \in Known /\ Truthful(here)' /\ Environment'
  BY <1>1, TruthStays DEF MsqlInv
<1>3. results' = c.results
  BY DEF Fails, Becomes
<1>4. Held'
  <2>1. CASE Holding
    BY <1>1, <1>3, <2>1 DEF MsqlInv, Held
  <2>2. CASE ~Holding
    BY <1>1, <2>2 DEF Held, Holding
  <2>3. QED
    BY <2>1, <2>2
<1>5. RanWhereWanted'
  BY <1>1 DEF MsqlInv, RanWhereWanted
<1>6. QED
  BY <1>1, <1>2, <1>4, <1>5 DEF MsqlInv, Rest

LEMMA RunsKeeps ==
  ASSUME MsqlInv, NEW c \in Known, Truthful(c), c.sock # None, Holding => c.results = results,
         NEW wanted \in Places, Straight => Place(c.sock.host, c.sock.port, c.sock.db) = wanted,
         Runs(c, wanted), Rest
  PROVE  MsqlInv'
<1>1. PICK place : place = Place(c.sock.host, c.sock.port, c.sock.db)
  OBVIOUS
<1>2. c.sock \in Sockets /\ c.results \subseteq Result
  BY KnownParts
<1>3. place \in Places
  BY <1>1, <1>2, PlaceType DEF Sockets
<1>4. ran' = [wanted |-> wanted, on |-> place]
  BY <1>1 DEF Runs
<1>5. ran' \in [wanted : Places, on : Places]
  BY <1>3, <1>4
<1>6. UNCHANGED <<curHost, env, crashed, habits>>
  BY DEF Rest
<1>7. RanWhereWanted'
  <2>1. CASE Straight
    <3>1. place = wanted
      BY <1>1, <2>1
    <3>2. ran'.on = ran'.wanted
      BY <1>4, <3>1
    <3>3. QED
      BY <3>2 DEF RanWhereWanted
  <2>2. CASE ~Straight
    <3>1. ~("lists" \notin habits /\ ("logs" \in habits => habits \cap {"hosts", "switch"} = {}))
      BY <2>2 DEF Straight
    <3>2. QED
      BY <1>6, <3>1 DEF RanWhereWanted
  <2>3. QED
    BY <2>1, <2>2
<1>8. CASE Becomes(c) /\ UNCHANGED <<ind, owned>>
  <2>1. here' = c /\ results' = c.results
    BY <1>8, Becoming DEF Becomes
  <2>2. here' \in Known /\ Truthful(here)' /\ Environment'
    BY <1>6, <2>1, TruthStays DEF MsqlInv
  <2>3. Held'
    <3>1. CASE Holding
      BY <1>6, <1>8, <2>1, <3>1 DEF MsqlInv, Held
    <3>2. CASE ~Holding
      BY <1>6, <3>2 DEF Held, Holding
    <3>3. QED
      BY <3>1, <3>2
  <2>4. QED
    BY <1>5, <1>6, <1>7, <1>8, <2>2, <2>3 DEF MsqlInv, Rest
<1>9. CASE ind <= MaxResults /\ Becomes(Added(c, place)) /\ ind' = ind + 1
           /\ owned' = owned \union {[ind |-> ind, of |-> wanted]}
  <2>1. PICK r : r = [ind |-> ind, of |-> place]
    OBVIOUS
  <2>2. PICK w : w = [ind |-> ind, of |-> wanted]
    OBVIOUS
  <2>3. ind \in 1 .. MaxResults /\ MaxResults \in Nat
    BY <1>9, MsqlAssumption DEF MsqlInv
  <2>4. r \in Result /\ w \in Result
    BY <1>3, <2>1, <2>2, <2>3 DEF Result
  <2>5. PICK a : a = Added(c, place)
    OBVIOUS
  <2>6. a = [c EXCEPT !.results = c.results \union {r}]
    BY <2>1, <2>5 DEF Added
  <2>7. /\ a = [sock |-> c.sock, db |-> c.db, port |-> c.port, results |-> c.results \union {r}]
    BY <2>6, KnownParts
  <2>8. a \in Known
    BY <1>2, <2>4, <2>7, KnownParts DEF Known
  <2>9. a.sock = c.sock /\ a.db = c.db /\ a.port = c.port
    BY <2>7
  <2>10. Truthful(a)
    BY <2>9 DEF Truthful
  <2>11. here' = a /\ results' = c.results \union {r}
    BY <1>9, <2>5, <2>7, <2>8, Becoming DEF Becomes
  <2>12. here' \in Known /\ Truthful(here)' /\ Environment'
    BY <1>6, <2>8, <2>10, <2>11, TruthStays DEF MsqlInv
  <2>13. owned' = owned \union {w} /\ ind' = ind + 1
    BY <1>9, <2>2
  <2>14. owned' \subseteq Result /\ ind' \in 1 .. MaxResults + 1
    BY <2>3, <2>4, <2>13 DEF MsqlInv
  <2>15. Held'
    <3>1. CASE Holding
      <4>1. owned = results /\ \A q \in results : q.ind < ind
        BY <3>1 DEF MsqlInv, Held, Holding
      <4>2. \A p, q \in results : p.ind = q.ind => p = q
        BY <3>1 DEF MsqlInv, Held, Holding
      <4>3. results' = results \union {r} /\ r = w /\ r.ind = ind
        BY <1>1, <2>1, <2>2, <2>11, <3>1, HoldingIsStraight
      <4>4. \A q \in results : q.ind \in Nat
        <5>1. results \subseteq Result
          BY HereParts, KnownParts DEF MsqlInv
        <5>2. QED
          BY <5>1 DEF Result
      <4>5. owned' = results'
        BY <2>13, <4>1, <4>3
      <4>6. \A q \in results' : q.ind < ind'
        BY <2>3, <2>13, <4>1, <4>3, <4>4
      <4>7. \A p, q \in results' : p.ind = q.ind => p = q
        BY <2>3, <4>1, <4>2, <4>3, <4>4
      <4>8. QED
        BY <4>5, <4>6, <4>7 DEF Held
    <3>2. CASE ~Holding
      BY <1>6, <3>2 DEF Held, Holding
    <3>3. QED
      BY <3>1, <3>2
  <2>16. QED
    BY <1>5, <1>6, <1>7, <2>12, <2>14, <2>15 DEF MsqlInv, Rest
<1>10. QED
  BY <1>1, <1>8, <1>9 DEF Runs

(* NULL is not compared, if pages change no port that was not set.         *)
LEMMA NoCrash ==
  ASSUME MsqlInv, NEW f, Crashes(FirstCall(f))
  PROVE  "switch" \in habits /\ "port" \notin habits
<1>1. PICK c : c = FirstCall(f)
  OBVIOUS
<1>2. Truthful(c) /\ c.port = None /\ env # None
  BY <1>1, FirstFits DEF Crashes, Stale
<1>3. QED
  BY <1>2 DEF Truthful, MsqlInv, Environment

LEMMA CrashKeeps ==
  ASSUME MsqlInv, NEW f, Crashes(FirstCall(f)), Crash, habits' = habits
  PROVE  MsqlInv'
<1>1. "switch" \in habits /\ "port" \notin habits
  BY NoCrash
<1>2. UNCHANGED <<sock, curDB, curPort, results, curHost, env, first, ind, owned, ran, habits>> /\ crashed' = TRUE
  BY DEF Crash, conn
<1>3. here' = here
  BY <1>2 DEF here
<1>4. here' \in Known /\ Truthful(here)' /\ Environment'
  BY <1>2, <1>3, TruthStays DEF MsqlInv
<1>5. Held' /\ RanWhereWanted'
  BY <1>2 DEF MsqlInv, Held, RanWhereWanted
<1>6. QED
  BY <1>1, <1>2, <1>4, <1>5 DEF MsqlInv

LEMMA MsqlKeeps ==
  ASSUME MsqlInv, NEW d \in DBs, Msql(d), habits' = habits
  PROVE  MsqlInv'
<1>1. PICK c : c = FirstCall("msql")
  OBVIOUS
<1>2. c \in Known /\ Truthful(c) /\ c.results = results
  BY <1>1, FirstFits
<1>3. CASE Crashes(c)
  BY <1>1, <1>3, CrashKeeps DEF Msql
<1>4. CASE ~Crashes(c)
  <2>1. PICK up \in BOOLEAN :
          LET m == Made(c, up) IN
          \/ (IF m.db = d THEN ~Ready(m) ELSE TRUE) /\ Fails(m)
          \/ /\ Ready(m)
             /\ IF m.db = d THEN Runs(m, Place(curHost, env, d))
                ELSE Runs([Selected(m, d) EXCEPT !.db = d], Place(curHost, env, d))
    BY <1>1, <1>4 DEF Msql
  <2>2. PICK m : m = Made(c, up)
    OBVIOUS
  <2>3. \/ Fails(m)
        \/ /\ Ready(m)
           /\ IF m.db = d THEN Runs(m, Place(curHost, env, d))
              ELSE Runs([Selected(m, d) EXCEPT !.db = d], Place(curHost, env, d))
    BY <2>1, <2>2
  <2>4. /\ m \in Known /\ Truthful(m) /\ (Holding => m.results = results)
        /\ m.sock # None /\ ~({"logs", "switch"} \subseteq habits) => m.sock.port = env
    BY <1>2, <2>2, MadeFits
  <2>5. Rest
    BY <1>1, <1>4 DEF Msql, Calls, Rest, MsqlInv
  <2>6. PICK wanted : wanted = Place(curHost, env, d)
    OBVIOUS
  <2>7. wanted \in Places
    BY <2>6, PlaceType DEF MsqlInv, Environment
  <2>8. CASE Fails(m)
    BY <2>4, <2>5, <2>8, FailsKeeps
  <2>9. CASE Ready(m) /\ m.db = d /\ ~Fails(m)
    <3>1. m.sock # None /\ Runs(m, wanted)
      BY <2>3, <2>6, <2>9 DEF Ready
    <3>2. Straight => Place(m.sock.host, m.sock.port, m.sock.db) = wanted
      <4>1. d # None
        BY MsqlAssumption
      <4>2. Straight => m.sock.host = curHost /\ m.sock.port = env /\ m.sock.db = d
        BY <2>4, <2>9, <3>1, <4>1 DEF Straight, Truthful
      <4>3. QED
        BY <2>6, <4>2
    <3>3. QED
      BY <2>4, <2>5, <2>7, <3>1, <3>2, RunsKeeps
  <2>10. CASE Ready(m) /\ m.db # d /\ ~Fails(m)
    <3>1. m.sock # None
      BY <2>10 DEF Ready
    <3>2. PICK r : r = Remembered(Selected(m, d), d)
      OBVIOUS
    <3>3. Runs(r, wanted)
      BY <2>3, <2>6, <2>10, <3>2 DEF Remembered
    <3>4. d \in DBs \union {LogDB} /\ m \in Known /\ Truthful(m)
      BY <2>4
    <3>5. /\ r \in Known /\ Truthful(r) /\ r.results = m.results
          /\ r.sock # None /\ r.sock.host = m.sock.host /\ r.sock.port = m.sock.port /\ r.sock.db = d
      BY <3>1, <3>2, <3>4, RememberedFits
    <3>6. Straight => m.sock.host = curHost /\ m.sock.port = env
      BY <2>4, <3>1 DEF Straight, Truthful
    <3>7. Straight => Place(r.sock.host, r.sock.port, r.sock.db) = wanted
      BY <2>6, <3>5, <3>6
    <3>8. Holding => r.results = results
      BY <2>4, <3>5
    <3>9. QED
      BY <2>5, <2>7, <3>3, <3>5, <3>7, <3>8, RunsKeeps
  <2>11. QED
    BY <2>3, <2>8, <2>9, <2>10
<1>5. QED
  BY <1>3, <1>4

LEMMA ListTablesKeeps ==
  ASSUME MsqlInv, NEW d \in DBs, MsqlListTables(d), habits' = habits
  PROVE  MsqlInv'
<1>1. PICK c : c = FirstCall("listtables")
  OBVIOUS
<1>2. c \in Known /\ Truthful(c) /\ c.results = results /\ "lists" \in habits
  BY <1>1, FirstFits DEF MsqlListTables
<1>3. CASE Crashes(c)
  BY <1>1, <1>3, CrashKeeps DEF MsqlListTables
<1>4. CASE ~Crashes(c)
  <2>1. PICK up \in BOOLEAN :
          LET m == Made(c, up) IN
          \/ ~Ready(m) /\ Fails(m)
          \/ Ready(m) /\ Runs(Selected(m, d), Place(curHost, env, d))
    BY <1>1, <1>4 DEF MsqlListTables
  <2>2. PICK m : m = Made(c, up)
    OBVIOUS
  <2>3. Fails(m) \/ (Ready(m) /\ Runs(Selected(m, d), Place(curHost, env, d)))
    BY <2>1, <2>2
  <2>4. m \in Known /\ Truthful(m) /\ (Holding => m.results = results)
    BY <1>2, <2>2, MadeFits
  <2>5. Rest
    BY <1>1, <1>4 DEF MsqlListTables, Calls, Rest, MsqlInv
  <2>6. PICK wanted : wanted = Place(curHost, env, d)
    OBVIOUS
  <2>7. wanted \in Places
    BY <2>6, PlaceType DEF MsqlInv, Environment
  <2>8. CASE Fails(m)
    BY <2>4, <2>5, <2>8, FailsKeeps
  <2>9. CASE Ready(m) /\ Runs(Selected(m, d), Place(curHost, env, d))
    <3>1. m.sock # None
      BY <2>9 DEF Ready
    <3>2. PICK e : e = Selected(m, d)
      OBVIOUS
    <3>3. e \in Known /\ e.sock # None /\ e.results = m.results
      BY <2>4, <3>1, <3>2, SelectedParts
    <3>4. PICK r : r = Remembered(e, d)
      OBVIOUS
    <3>5. Truthful(e)
      BY <1>2, <2>4, <3>1, <3>2, <3>4, SelectedFits
    <3>6. ~Straight /\ Runs(e, wanted)
      BY <1>2, <2>6, <2>9, <3>2 DEF Straight
    <3>7. Holding => e.results = results
      BY <2>4, <3>3
    <3>8. QED
      BY <2>5, <2>7, <3>3, <3>5, <3>6, <3>7, RunsKeeps
  <2>10. QED
    BY <2>3, <2>8, <2>9
<1>5. QED
  BY <1>3, <1>4

LEMMA OtherKeeps ==
  ASSUME MsqlInv, NEW f, Other(f), habits' = habits
  PROVE  MsqlInv'
<1>1. PICK c : c = FirstCall(f)
  OBVIOUS
<1>2. c \in Known /\ Truthful(c) /\ c.results = results
  BY <1>1, FirstFits
<1>3. CASE Crashes(c)
  BY <1>1, <1>3, CrashKeeps DEF Other
<1>4. CASE ~Crashes(c)
  <2>1. PICK up \in BOOLEAN :
          LET m == Made(c, up) IN
          \/ Fails(m)
          \/ Ready(m) /\ Runs(m, Place(curHost, env, m.sock.db))
    BY <1>1, <1>4 DEF Other
  <2>2. PICK m : m = Made(c, up)
    OBVIOUS
  <2>3. Fails(m) \/ (Ready(m) /\ Runs(m, Place(curHost, env, m.sock.db)))
    BY <2>1, <2>2
  <2>4. /\ m \in Known /\ Truthful(m) /\ (Holding => m.results = results)
        /\ m.sock # None /\ ~({"logs", "switch"} \subseteq habits) => m.sock.port = env
    BY <1>2, <2>2, MadeFits
  <2>5. Rest
    BY <1>1, <1>4 DEF Other, Calls, Rest, MsqlInv
  <2>6. CASE Fails(m)
    BY <2>4, <2>5, <2>6, FailsKeeps
  <2>7. CASE Ready(m) /\ Runs(m, Place(curHost, env, m.sock.db))
    <3>1. PICK wanted : wanted = Place(curHost, env, m.sock.db)
      OBVIOUS
    <3>2. m.sock # None /\ Runs(m, wanted)
      BY <2>7, <3>1 DEF Ready
    <3>3. m.sock \in Sockets
      BY <2>4, <3>2, KnownParts
    <3>4. m.sock.db \in DBs \union {LogDB, None}
      BY <3>3 DEF Sockets
    <3>5. wanted \in Places
      BY <3>1, <3>4, PlaceType DEF MsqlInv, Environment
    <3>6. Straight => m.sock.host = curHost /\ m.sock.port = env
      BY <2>4, <3>2 DEF Straight, Truthful
    <3>7. Straight => Place(m.sock.host, m.sock.port, m.sock.db) = wanted
      BY <3>1, <3>6
    <3>8. QED
      BY <2>4, <2>5, <3>2, <3>5, <3>7, RunsKeeps
  <2>8. QED
    BY <2>3, <2>6, <2>7
<1>5. QED
  BY <1>3, <1>4

LEMMA ConnectKeeps ==
  ASSUME MsqlInv, NEW h \in Hosts, MsqlConnect(h), habits' = habits
  PROVE  MsqlInv'
<1>1. PICK c : c = [sock |-> None, db |-> None, port |-> curPort, results |-> {}]
  OBVIOUS
<1>2. Closed(here) = c
  <2>1. here = [sock |-> sock, db |-> curDB, port |-> curPort, results |-> results]
    BY DEF here
  <2>2. Closed(here) = [here EXCEPT !.sock = None, !.db = None, !.results = {}]
    BY DEF Closed
  <2>3. QED
    BY <1>1, <2>1, <2>2
<1>3. curPort \in Ports \union {None, Empty} /\ ("port" \in habits => curPort # None)
  BY KnownParts, HereParts DEF MsqlInv, Truthful
<1>4. c \in Known
  BY <1>1, <1>3 DEF Known
<1>5. c.sock = None /\ c.db = None /\ c.port = curPort
  BY <1>1
<1>6. here' = c /\ results' = {} /\ owned' = {}
  BY <1>1, <1>2, <1>4, Becoming DEF MsqlConnect, Becomes
<1>7. UNCHANGED <<env, first, ind, ran, crashed, habits>> /\ curHost' = h
  BY DEF MsqlConnect
<1>8. here'.sock = None /\ here'.db = None /\ here'.port = curPort
  BY <1>5, <1>6
<1>9. Truthful(here)'
  BY <1>3, <1>7, <1>8 DEF Truthful
<1>10. here' \in Known /\ Environment' /\ Held'
  BY <1>4, <1>6, <1>7 DEF MsqlInv, Environment, Held
<1>11. "hosts" \notin habits' => curHost' = Local
  BY <1>7 DEF MsqlConnect
<1>12. RanWhereWanted'
  BY <1>7 DEF MsqlInv, RanWhereWanted
<1>13. QED
  BY <1>6, <1>7, <1>9, <1>10, <1>11, <1>12 DEF MsqlInv

LEMMA FreeKeeps ==
  ASSUME MsqlInv, NEW n, MsqlFreeResult(n), habits' = habits
  PROVE  MsqlInv'
<1>1. UNCHANGED <<sock, curDB, curPort, curHost, env, first, ind, ran, crashed, habits>>
  BY DEF MsqlFreeResult
<1>2. results' = {r \in results : r.ind # n} /\ owned' = {r \in owned : r.ind # n}
  BY DEF MsqlFreeResult
<1>3. PICK c : c = [sock |-> sock, db |-> curDB, port |-> curPort, results |-> results']
  OBVIOUS
<1>4. here' = c /\ c.sock = here.sock /\ c.db = here.db /\ c.port = here.port
  BY <1>1, <1>3 DEF here
<1>5. /\ here.sock \in {None} \union Sockets /\ here.db \in DBs \union {LogDB, None}
      /\ here.port \in Ports \union {None, Empty} /\ results \subseteq Result
  BY KnownParts, HereParts DEF MsqlInv
<1>6. c \in Known
  BY <1>2, <1>3, <1>5, HereParts DEF Known
<1>7. Truthful(c)
  BY <1>4 DEF MsqlInv, Truthful
<1>8. here' \in Known /\ Truthful(here)' /\ Environment'
  BY <1>1, <1>4, <1>6, <1>7, TruthStays DEF MsqlInv
<1>9. Held'
  BY <1>1, <1>2 DEF MsqlInv, Held
<1>10. RanWhereWanted' /\ owned' \subseteq Result
  BY <1>1, <1>2 DEF MsqlInv, RanWhereWanted
<1>11. QED
  BY <1>1, <1>8, <1>9, <1>10 DEF MsqlInv

LEMMA NameKeeps ==
  ASSUME MsqlInv, NEW n, MsqlName(n), habits' = habits
  PROVE  MsqlInv'
<1>1. UNCHANGED <<sock, curDB, curPort, results, curHost, env, first, ind, owned, ran, habits>>
      /\ crashed' = TRUE /\ "gone" \in habits
  BY DEF MsqlName, Crash, conn
<1>2. here' = here
  BY <1>1 DEF here
<1>3. here' \in Known /\ Truthful(here)' /\ Environment'
  BY <1>1, <1>2, TruthStays DEF MsqlInv
<1>4. Held' /\ RanWhereWanted'
  BY <1>1 DEF MsqlInv, Held, RanWhereWanted
<1>5. habits \cap {"nolog", "gone"} # {}
  BY <1>1
<1>6. QED
  BY <1>1, <1>3, <1>4, <1>5 DEF MsqlInv

LEMMA PutEnvKeeps ==
  ASSUME MsqlInv, NEW p \in Ports, PutEnv(p), habits' = habits
  PROVE  MsqlInv'
<1>1. UNCHANGED <<sock, curDB, curPort, results, curHost, first, ind, owned, ran, crashed, habits>>
      /\ env' = p /\ "switch" \in habits
  BY DEF PutEnv, conn
<1>2. here' = here /\ p # None
  BY <1>1, MsqlAssumption DEF here
<1>3. here' \in Known /\ Truthful(here)'
  BY <1>1, <1>2 DEF MsqlInv, Truthful
<1>4. Environment'
  BY <1>1, <1>2 DEF Environment
<1>5. Held' /\ RanWhereWanted'
  BY <1>1 DEF MsqlInv, Held, RanWhereWanted
<1>6. QED
  BY <1>1, <1>3, <1>4, <1>5 DEF MsqlInv

(* The log works on the connection of the page, if there is one.           *)
LEMMA LogKeeps ==
  ASSUME MsqlInv, MsqlLog, habits' = habits
  PROVE  MsqlInv'
<1>1. PICK up \in BOOLEAN :
        LET c == LogConnection(up) IN
        \/ c.sock = None /\ UNCHANGED <<conn, ran>>
        \/ /\ c.sock # None /\ (Ready(c) => "nolog" \in habits)
           /\ Becomes(IF sock = None THEN here ELSE [here EXCEPT !.sock.open = FALSE])
           /\ ran' = ran
        \/ /\ Ready(c) /\ "nolog" \notin habits
           /\ Becomes([Selected(c, LogDB) EXCEPT !.db = LogDB, !.port = env])
           /\ ran' = [wanted |-> [Place(Local, c.sock.port, LogDB) EXCEPT !.port = env],
                      on     |-> Place(c.sock.host, c.sock.port, LogDB)]
  BY DEF MsqlLog
<1>2. PICK c : c = LogConnection(up)
  OBVIOUS
<1>3. UNCHANGED <<curHost, env, first, ind, owned, crashed, habits>> /\ "logs" \in habits
  BY DEF MsqlLog
<1>4. here \in Known /\ Truthful(here) /\ Environment
  BY DEF MsqlInv
<1>5. /\ c \in Known /\ Truthful(c) /\ c.results = results
      /\ sock # None => c = here
      /\ sock = None => c.sock = None \/ c.sock.open
  <2>1. CASE sock # None
    BY <1>2, <1>4, <2>1, HereParts DEF LogConnection
  <2>2. CASE sock = None /\ up
    <3>1. c = Connected(here, Local)
      BY <1>2, <2>2 DEF LogConnection
    <3>2. here.sock = None /\ here.db = None
      BY <1>4, <2>2, HereParts DEF Truthful
    <3>3. ~({"logs", "hosts"} \subseteq habits) => Local = curHost
      BY <1>3 DEF MsqlInv
    <3>4. /\ c \in Known /\ Truthful(c) /\ c.results = here.results
          /\ c.sock = [host |-> Local, port |-> env, db |-> None, open |-> TRUE]
      BY <1>4, <3>1, <3>2, <3>3, ConnectedFits, MsqlAssumption
    <3>5. c.sock.open
      BY <3>4
    <3>6. QED
      BY <2>2, <3>4, <3>5, HereParts
  <2>3. CASE sock = None /\ ~up
    BY <1>2, <1>4, <2>3, HereParts DEF LogConnection
  <2>4. QED
    BY <2>1, <2>2, <2>3
<1>6. ASSUME NEW d \in Known, Truthful(d), Becomes(d), d.results = results, RanWhereWanted',
             ran' \in [wanted : Places, on : Places]
      PROVE  MsqlInv'
  <2>1. here' = d /\ results' = results
    BY <1>6, Becoming DEF Becomes
  <2>2. here' \in Known /\ Truthful(here)' /\ Environment'
    BY <1>3, <1>4, <1>6, <2>1, TruthStays
  <2>3. Held'
    BY <1>3, <2>1 DEF MsqlInv, Held
  <2>4. QED
    BY <1>3, <1>6, <2>2, <2>3 DEF MsqlInv
<1>7. ran \in [wanted : Places, on : Places] /\ (ran' = ran => RanWhereWanted')
  BY <1>3 DEF MsqlInv, RanWhereWanted
<1>8. CASE c.sock = None /\ UNCHANGED <<conn, ran>>
  <2>1. Becomes(here)
    BY <1>8 DEF Becomes, here, conn
  <2>2. QED
    BY <1>4, <1>6, <1>7, <1>8, <2>1, HereParts
<1>9. CASE /\ c.sock # None /\ (Ready(c) => "nolog" \in habits)
           /\ Becomes(IF sock = None THEN here ELSE [here EXCEPT !.sock.open = FALSE])
           /\ ran' = ran
  <2>1. CASE sock = None
    BY <1>4, <1>6, <1>7, <1>9, <2>1, HereParts
  <2>2. CASE sock # None
    <3>1. "nolog" \in habits
      BY <1>4, <1>5, <1>9, <2>2, HereParts DEF Ready, Truthful
    <3>2. sock \in Sockets /\ curDB \in DBs \union {LogDB, None}
          /\ curPort \in Ports \union {None, Empty} /\ results \subseteq Result
      BY <1>4, <2>2, KnownParts, HereParts
    <3>3. PICK s : s = [sock EXCEPT !.open = FALSE]
      OBVIOUS
    <3>4. s \in Sockets /\ s.host = sock.host /\ s.port = sock.port /\ s.db = sock.db /\ s # None
      BY <3>2, <3>3, MsqlAssumption DEF Sockets
    <3>5. PICK d : d = [sock |-> s, db |-> curDB, port |-> curPort, results |-> results]
      OBVIOUS
    <3>6. d = [here EXCEPT !.sock.open = FALSE]
      <4>1. PICK x : x = here
        OBVIOUS
      <4>2. x = [sock |-> sock, db |-> curDB, port |-> curPort, results |-> results]
        BY <4>1 DEF here
      <4>3. [x EXCEPT !.sock = s] = d
        BY <3>5, <4>2
      <4>4. [x EXCEPT !.sock.open = FALSE] = [x EXCEPT !.sock = [x.sock EXCEPT !.open = FALSE]]
        OBVIOUS
      <4>5. x.sock = sock
        BY <4>2
      <4>6. QED
        BY <3>3, <4>1, <4>3, <4>4, <4>5
    <3>7. d \in Known
      BY <3>2, <3>4, <3>5 DEF Known
    <3>8. d.sock = s /\ d.db = curDB /\ d.port = curPort /\ d.results = results
      BY <3>5
    <3>9. Truthful(d)
      BY <1>4, <2>2, <3>1, <3>4, <3>8, HereParts DEF Truthful
    <3>10. QED
      BY <1>6, <1>7, <1>9, <2>2, <3>6, <3>7, <3>8, <3>9
  <2>3. QED
    BY <2>1, <2>2
<1>10. CASE /\ Ready(c) /\ "nolog" \notin habits
            /\ Becomes([Selected(c, LogDB) EXCEPT !.db = LogDB, !.port = env])
            /\ ran' = [wanted |-> [Place(Local, c.sock.port, LogDB) EXCEPT !.port = env],
                       on     |-> Place(c.sock.host, c.sock.port, LogDB)]
  <2>1. c.sock # None
    BY <1>10 DEF Ready
  <2>2. PICK e : e = Selected(c, LogDB)
    OBVIOUS
  <2>3. /\ e \in Known /\ e.port = c.port /\ e.results = c.results
        /\ e.sock \in Sockets /\ e.sock # None /\ c.sock \in Sockets
        /\ e.sock.host = c.sock.host /\ e.sock.port = c.sock.port
        /\ e.sock.db = LogDB /\ e.sock.open = c.sock.open
    BY <1>5, <2>1, <2>2, SelectedParts
  <2>4. PICK d : d = [sock |-> e.sock, db |-> LogDB, port |-> env, results |-> e.results]
    OBVIOUS
  <2>5. e = [sock |-> e.sock, db |-> e.db, port |-> e.port, results |-> e.results]
        /\ e.results \subseteq Result
    BY <2>3, KnownParts
  <2>6. [e EXCEPT !.db = LogDB, !.port = env] = d
    <3>1. PICK x : x = [e EXCEPT !.db = LogDB]
      OBVIOUS
    <3>2. x = [sock |-> e.sock, db |-> LogDB, port |-> e.port, results |-> e.results]
      BY <2>5, <3>1
    <3>3. [x EXCEPT !.port = env] = d
      BY <2>4, <3>2
    <3>4. QED
      BY <3>1, <3>3
  <2>7. env \in Ports \union {None}
    BY <1>4 DEF Environment
  <2>8. d \in Known
    BY <2>3, <2>4, <2>5, <2>7 DEF Known
  <2>9. d.sock = e.sock /\ d.db = LogDB /\ d.port = env /\ d.results = results
    BY <1>5, <2>3, <2>4
  <2>10. Truthful(d)
    BY <1>3, <1>4, <1>5, <2>1, <2>3, <2>9 DEF Truthful, Environment
  <2>11. Becomes(d)
    BY <1>10, <2>2, <2>6
  <2>12. [Place(Local, c.sock.port, LogDB) EXCEPT !.port = env] = Place(Local, env, LogDB)
    BY DEF Place
  <2>13. PICK w, o : w = Place(Local, env, LogDB) /\ o = Place(c.sock.host, c.sock.port, LogDB)
    OBVIOUS
  <2>14. w \in Places /\ o \in Places
    <3>1. c.sock.host \in Hosts /\ c.sock.port \in Ports \union {None}
      BY <2>3 DEF Sockets
    <3>2. QED
      BY <2>7, <2>13, <3>1, PlaceType, MsqlAssumption
  <2>15. ran' = [wanted |-> w, on |-> o]
    BY <1>10, <2>12, <2>13
  <2>16. ran' \in [wanted : Places, on : Places]
    BY <2>14, <2>15
  <2>17. RanWhereWanted'
    <3>1. CASE habits \cap {"hosts", "switch"} = {}
      <4>1. "hosts" \notin habits /\ "switch" \notin habits
        BY <3>1
      <4>2. c.sock.host = curHost /\ curHost = Local /\ c.sock.port = env
        BY <1>5, <2>1, <4>1 DEF MsqlInv, Truthful
      <4>3. ran'.on = ran'.wanted
        BY <2>13, <2>15, <4>2
      <4>4. QED
        BY <4>3 DEF RanWhereWanted
    <3>2. CASE habits \cap {"hosts", "switch"} # {}
      BY <1>3, <3>2 DEF RanWhereWanted
    <3>3. QED
      BY <3>1, <3>2
  <2>18. QED
    BY <1>6, <2>8, <2>9, <2>10, <2>11, <2>16, <2>17
<1>11. QED
  BY <1>1, <1>2, <1>8, <1>9, <1>10
LEMMA MsqlStep ==
  ASSUME MsqlInv, MsqlNext, habits' = habits
  PROVE  MsqlInv'
<1>1. CASE \E d \in DBs : Msql(d) \/ MsqlListTables(d)
  BY <1>1, MsqlKeeps, ListTablesKeeps
<1>2. CASE MsqlCreateDB \/ MsqlDropDB \/ MsqlListDBs
  BY <1>2, OtherKeeps DEF MsqlCreateDB, MsqlDropDB, MsqlListDBs
<1>3. CASE \E h \in Hosts : MsqlConnect(h)
  BY <1>3, ConnectKeeps
<1>4. CASE \E n \in 1..MaxResults : MsqlFreeResult(n) \/ MsqlName(n)
  BY <1>4, FreeKeeps, NameKeeps
<1>5. CASE \E p \in Ports : PutEnv(p)
  BY <1>5, PutEnvKeeps
<1>6. CASE MsqlLog
  BY <1>6, LogKeeps
<1>7. QED
  BY <1>1, <1>2, <1>3, <1>4, <1>5, <1>6 DEF MsqlNext

(* A request begins with no connection, and the end of one leaves none.    *)
LEMMA NoneRemembered ==
  ASSUME NEW c, c = [sock |-> None, db |-> None, port |-> Empty, results |-> {}]
  PROVE  c \in Known /\ Truthful(c)
<1>1. c \in Known
  BY DEF Known
<1>2. c.sock = None /\ c.db = None /\ c.port = Empty
  OBVIOUS
<1>3. Truthful(c)
  BY <1>2, MsqlAssumption DEF Truthful
<1>4. QED
  BY <1>1, <1>3

LEMMA NothingRan == Nothing \in [wanted : Places, on : Places] /\ Nothing.on = Nothing.wanted
<1>1. PICK p : p = Place(Local, None, None)
  OBVIOUS
<1>2. p \in Places
  BY <1>1, PlaceType, MsqlAssumption
<1>3. Nothing = [wanted |-> p, on |-> p]
  BY <1>1 DEF Nothing
<1>4. QED
  BY <1>2, <1>3

LEMMA MsqlStart ==
  ASSUME MsqlInit
  PROVE  MsqlInv
<1>1. here = [sock |-> None, db |-> None, port |-> Empty, results |-> {}]
  BY DEF MsqlInit, here
<1>2. here \in Known /\ Truthful(here)
  BY <1>1, NoneRemembered
<1>3. /\ results = {} /\ curHost = Local /\ ind = 1 /\ owned = {} /\ ran = Nothing
      /\ env \in (IF "port" \in habits THEN Ports ELSE {None}) /\ crashed = FALSE
      /\ first \subseteq Functions1
  BY DEF MsqlInit
<1>4. Environment
  BY <1>3, MsqlAssumption DEF Environment
<1>5. Held
  BY <1>3 DEF Held
<1>6. ind \in 1 .. MaxResults + 1
  BY <1>3, MsqlAssumption
<1>7. RanWhereWanted /\ ran \in [wanted : Places, on : Places]
  BY <1>3, NothingRan DEF RanWhereWanted
<1>8. QED
  BY <1>2, <1>3, <1>4, <1>5, <1>6, <1>7, MsqlAssumption DEF MsqlInv

LEMMA MsqlEnds ==
  ASSUME MsqlInv, EndOfRequest
  PROVE  MsqlInv'
<1>1. /\ sock' = None /\ curDB' = None /\ curPort' = Empty /\ results' = {} /\ curHost' = Local
      /\ ind' = 1 /\ owned' = {} /\ ran' = Nothing /\ crashed' = FALSE /\ habits' = habits
  BY DEF EndOfRequest, MsqlReset, fixed, MsqlInv
<1>2. PICK c : c = [sock |-> None, db |-> None, port |-> Empty, results |-> {}]
  OBVIOUS
<1>3. here' = c
  BY <1>1, <1>2 DEF here
<1>4. c \in Known /\ c.sock = None /\ c.db = None /\ c.port = Empty
  BY <1>2, NoneRemembered
<1>5. Truthful(here)'
  BY <1>3, <1>4, MsqlAssumption DEF Truthful
<1>6. Environment'
  BY <1>1, MsqlAssumption DEF EndOfRequest, Environment, MsqlInv
<1>7. first' \subseteq Functions1
  BY DEF EndOfRequest, MsqlInv
<1>8. Held'
  BY <1>1 DEF Held
<1>9. ind' \in 1 .. MaxResults + 1
  BY <1>1, MsqlAssumption
<1>10. RanWhereWanted' /\ ran' \in [wanted : Places, on : Places]
  BY <1>1, NothingRan DEF RanWhereWanted
<1>11. QED
  BY <1>1, <1>3, <1>4, <1>5, <1>6, <1>7, <1>8, <1>9, <1>10, MsqlAssumption DEF MsqlInv
-----------------------------------------------------------------------------
(* Postgres95. *)

Connections(f) == DOMAIN f \subseteq Conns /\ \A c \in DOMAIN f : f[c] \in {"good", "bad"}
ResultList(f)  == DOMAIN f \subseteq Res /\ \A n \in DOMAIN f : f[n] \in Conns

LEMMA ConnectionsPut ==
  ASSUME NEW f, Connections(f), NEW c \in Conns, NEW b \in {"good", "bad"}
  PROVE  Connections(Put(f, c, b)) /\ DOMAIN Put(f, c, b) = DOMAIN f \union {c}
<1>1. PICK g : g = Put(f, c, b)
  OBVIOUS
<1>2. DOMAIN g = DOMAIN f \union {c} /\ g[c] = b /\ \A z \in DOMAIN f : z # c => g[z] = f[z]
  BY <1>1 DEF Put
<1>3. Connections(g)
  BY <1>2 DEF Connections
<1>4. QED
  BY <1>1, <1>2, <1>3

LEMMA ConnectionsDrop ==
  ASSUME NEW f, Connections(f), NEW S
  PROVE  Connections(Drop(f, S)) /\ DOMAIN Drop(f, S) \subseteq DOMAIN f
<1>1. PICK g : g = Drop(f, S)
  OBVIOUS
<1>2. DOMAIN g = DOMAIN f \ S /\ \A z \in DOMAIN g : g[z] = f[z]
  BY <1>1 DEF Drop
<1>3. Connections(g)
  BY <1>2 DEF Connections
<1>4. QED
  BY <1>1, <1>2, <1>3

LEMMA ConnectionsReset ==
  ASSUME Connections(conns), NEW c \in Live, NEW cs \in Reset(c)
  PROVE  Connections(cs) /\ DOMAIN cs \subseteq Live
<1>1. c \in Conns /\ Live = DOMAIN conns
  BY DEF Connections, Live
<1>2. cs = conns \/ cs = Put(conns, c, "good") \/ cs = Drop(conns, {c})
  BY DEF Reset
<1>3. Connections(Put(conns, c, "good")) /\ DOMAIN Put(conns, c, "good") = DOMAIN conns \union {c}
  BY <1>1, ConnectionsPut
<1>4. Connections(Drop(conns, {c})) /\ DOMAIN Drop(conns, {c}) \subseteq DOMAIN conns
  BY ConnectionsDrop
<1>5. QED
  BY <1>1, <1>2, <1>3, <1>4

LEMMA ResultsPut ==
  ASSUME ResultList(pgResults), NEW n \in Res, NEW c \in Conns, pgResults' = Put(pgResults, n, c)
  PROVE  ResultList(pgResults)' /\ DOMAIN pgResults' = DOMAIN pgResults \union {n}
<1>1. PICK g : g = Put(pgResults, n, c)
  OBVIOUS
<1>2. DOMAIN g = DOMAIN pgResults \union {n} /\ g[n] = c /\ \A z \in DOMAIN pgResults : z # n => g[z] = pgResults[z]
  BY <1>1 DEF Put
<1>3. ResultList(g)
  BY <1>2 DEF ResultList
<1>4. pgResults' = g
  BY <1>1
<1>5. QED
  BY <1>2, <1>3, <1>4 DEF ResultList

(* The parts of the types.                                                 *)
Numbers ==
  /\ pgTypeRes \in Res \union {0} /\ pgTypeRes < nextRes
  /\ nextConn \in 1 .. MaxConns + 1 /\ nextRes \in 2 .. MaxRes + 2
  /\ kept \subseteq Res /\ \A n \in DOMAIN pgResults : n < nextRes

LEMMA PgParts ==
  PgInv <=> Connections(conns) /\ ResultList(pgResults) /\ Numbers /\ freed \in BOOLEAN /\ TypesKept
BY DEF PgInv, PgTypeOK, Connections, ResultList, Numbers, Live

LEMMA PgPartsNext ==
  ASSUME Connections(conns)', ResultList(pgResults)', Numbers', freed' \in BOOLEAN, TypesKept'
  PROVE  PgInv'
BY DEF PgInv, PgTypeOK, Connections, ResultList, Numbers, Live

Well == pgHabits \cap {"strays", "typeless"} = {}

LEMMA WellUses ==
  ASSUME Well
  PROVE  "typeless" \notin pgHabits /\ (\A c : Uses(c) => c \in Live) /\ (\A n : Holds(n) => n \in kept)
<1>1. "typeless" \notin pgHabits /\ "strays" \notin pgHabits
  BY DEF Well
<1>2. QED
  BY <1>1 DEF Uses, Holds

(* What changes connections only.                                          *)
LEMMA ConnsKeep ==
  ASSUME PgInv, Connections(conns)', Live' \subseteq Live,
         UNCHANGED <<pgResults, pgTypeRes, nextConn, nextRes, kept, freed, pgHabits>>, freed' \in BOOLEAN
  PROVE  PgInv'
<1>1. ResultList(pgResults)' /\ Numbers'
  BY PgParts DEF ResultList, Numbers
<1>2. TypesKept'
  BY PgParts DEF TypesKept, Typed
<1>3. QED
  BY <1>1, <1>2, PgPartsNext
LEMMA ConnectsKeeps ==
  ASSUME PgInv, PGconnect, pgHabits' = pgHabits
  PROVE  PgInv'
<1>1. Connections(conns) /\ ResultList(pgResults) /\ Numbers /\ freed \in BOOLEAN /\ TypesKept
  BY PgParts
<1>2. /\ nextConn \in Conns /\ conns' = Put(conns, nextConn, "good") /\ nextConn' = nextConn + 1
      /\ UNCHANGED <<kept, freed>>
  BY DEF PGconnect
<1>3. Connections(conns)'
  BY <1>1, <1>2, ConnectionsPut DEF Connections
<1>4. freed' \in BOOLEAN
  BY <1>1, <1>2
<1>5. nextConn' \in 1 .. MaxConns + 1
  BY <1>2, PostgresAssumption DEF Conns
<1>6. CASE pgTypeRes # 0
  <2>1. UNCHANGED <<pgResults, pgTypeRes, nextRes>>
    BY <1>6 DEF PGconnect
  <2>2. ResultList(pgResults)' /\ Numbers'
    BY <1>1, <1>2, <1>5, <2>1 DEF ResultList, Numbers
  <2>3. TypesKept'
    BY <1>1, <1>2, <1>6, <2>1 DEF TypesKept, Typed
  <2>4. QED
    BY <1>3, <1>4, <2>2, <2>3, PgPartsNext
<1>7. CASE pgTypeRes = 0
  <2>1. PICK t \in TypesRead(nextConn) :
          /\ t = 0 => "typeless" \in pgHabits
          /\ pgTypeRes' = t
          /\ pgResults' = IF t = 0 THEN pgResults ELSE Put(pgResults, t, nextConn)
          /\ nextRes' = IF t = 0 THEN nextRes ELSE nextRes + 1
    BY <1>7 DEF PGconnect
  <2>2. CASE t = 0
    <3>1. ~Well
      BY <2>1, <2>2 DEF Well
    <3>2. TypesKept'
      BY <3>1 DEF TypesKept, Well
    <3>3. ResultList(pgResults)' /\ Numbers'
      BY <1>1, <1>2, <1>5, <1>7, <2>1, <2>2 DEF ResultList, Numbers
    <3>4. QED
      BY <1>3, <1>4, <3>2, <3>3, PgPartsNext
  <2>3. CASE t # 0
    <3>1. t = nextRes /\ t \in Res
      BY <2>1, <2>3 DEF TypesRead
    <3>2. pgTypeRes' = t /\ pgResults' = Put(pgResults, t, nextConn) /\ nextRes' = nextRes + 1
      BY <2>1, <2>3
    <3>3. ResultList(pgResults)' /\ DOMAIN pgResults' = DOMAIN pgResults \union {t}
      BY <1>1, <1>2, <3>1, <3>2, ResultsPut
    <3>4. nextRes' \in 2 .. MaxRes + 2 /\ t \in Nat
      BY <3>1, <3>2, PostgresAssumption DEF Res
    <3>5. \A n \in DOMAIN pgResults' : n < nextRes'
      <4>1. \A n \in DOMAIN pgResults : n < nextRes /\ n \in Nat
        BY <1>1 DEF Numbers, ResultList, Res
      <4>2. QED
        BY <3>1, <3>2, <3>3, <3>4, <4>1
    <3>6. Numbers'
      BY <1>1, <1>2, <1>5, <3>1, <3>2, <3>4, <3>5 DEF Numbers
    <3>7. TypesKept'
      <4>1. CASE Well
        <5>1. kept = {} /\ ~freed
          BY <1>1, <1>7, <4>1 DEF TypesKept, Well
        <5>2. Typed'
          BY <3>2, <3>3 DEF Typed
        <5>3. QED
          BY <1>2, <2>3, <3>2, <5>1, <5>2 DEF TypesKept
      <4>2. CASE ~Well
        BY <4>2 DEF TypesKept, Well
      <4>3. QED
        BY <4>1, <4>2
    <3>8. QED
      BY <1>3, <1>4, <3>3, <3>6, <3>7, PgPartsNext
  <2>4. QED
    BY <2>2, <2>3
<1>8. QED
  BY <1>6, <1>7

LEMMA ClosesKeeps ==
  ASSUME PgInv, NEW c \in Conns, PGclose(c) \/ GoesBad(c), pgHabits' = pgHabits
  PROVE  PgInv'
<1>1. Connections(conns) /\ freed \in BOOLEAN
  BY PgParts
<1>2. UNCHANGED <<pgResults, pgTypeRes, nextConn, nextRes, kept, freed>>
  BY DEF PGclose, GoesBad
<1>3. freed' \in BOOLEAN
  BY <1>1, <1>2
<1>4. CASE conns' = Drop(conns, {c})
  BY <1>1, <1>2, <1>3, <1>4, ConnectionsDrop, ConnsKeep DEF Connections, Live
<1>5. CASE conns' = [conns EXCEPT ![c] = "bad"]
  <2>1. DOMAIN conns' = DOMAIN conns /\ \A x \in DOMAIN conns : conns'[x] \in {conns[x], "bad"}
    BY <1>5
  <2>2. Connections(conns)' /\ Live' \subseteq Live
    BY <1>1, <2>1 DEF Connections, Live
  <2>3. QED
    BY <1>2, <1>3, <2>2, ConnsKeep
<1>6. QED
  BY <1>4, <1>5 DEF PGclose, GoesBad

(* A result is added under the next number.                                *)
LEMMA ResultAdded ==
  ASSUME ResultList(pgResults), Numbers, nextRes \in Res, NEW c \in Conns,
         pgResults' = Put(pgResults, nextRes, c), nextRes' = nextRes + 1
  PROVE  /\ ResultList(pgResults)' /\ DOMAIN pgResults' = DOMAIN pgResults \union {nextRes}
         /\ nextRes' \in 2 .. MaxRes + 2 /\ \A n \in DOMAIN pgResults' : n < nextRes'
<1>1. ResultList(pgResults)' /\ DOMAIN pgResults' = DOMAIN pgResults \union {nextRes}
  BY ResultsPut
<1>2. nextRes' \in 2 .. MaxRes + 2 /\ nextRes \in Nat
  BY PostgresAssumption DEF Res
<1>3. \A n \in DOMAIN pgResults : n < nextRes /\ n \in Nat
  BY DEF Numbers, ResultList, Res
<1>4. \A n \in DOMAIN pgResults' : n < nextRes'
  BY <1>1, <1>2, <1>3
<1>5. QED
  BY <1>1, <1>2, <1>4

LEMMA ExecKeeps ==
  ASSUME PgInv, NEW c \in Conns, PGexec(c), pgHabits' = pgHabits
  PROVE  PgInv'
<1>1. Connections(conns) /\ ResultList(pgResults) /\ Numbers /\ freed \in BOOLEAN /\ TypesKept
  BY PgParts
<1>2. UNCHANGED <<pgTypeRes, nextConn, freed>> /\ freed' \in BOOLEAN
  BY <1>1 DEF PGexec
<1>3. CASE c \notin Live
  <2>1. UNCHANGED <<conns, pgResults, nextRes, kept>>
    BY <1>3 DEF PGexec
  <2>2. Connections(conns)' /\ Live' \subseteq Live
    BY <1>1, <2>1 DEF Connections, Live
  <2>3. QED
    BY <1>2, <2>1, <2>2, ConnsKeep
<1>4. CASE c \in Live
  <2>1. PICK cs \in Reset(c) :
         IF c \notin DOMAIN cs THEN conns' = cs /\ UNCHANGED <<pgResults, nextRes, kept>>
           ELSE \E o \in Outcomes :
                  /\ conns' = CASE o = "fatal" -> Drop(cs, {c})
                                [] o = "lost" -> Put(cs, c, "bad")
                                [] OTHER -> cs
                  /\ IF o = "rows"
                       THEN /\ nextRes \in Res
                            /\ pgResults' = Put(pgResults, nextRes, c)
                            /\ nextRes' = nextRes + 1
                            /\ kept' = kept \union {nextRes}
                       ELSE UNCHANGED <<pgResults, nextRes, kept>>
    BY <1>4 DEF PGexec
  <2>2. Connections(cs) /\ DOMAIN cs \subseteq Live
    BY <1>1, <1>4, <2>1, ConnectionsReset
  <2>3. CASE c \notin DOMAIN cs
    <3>1. conns' = cs /\ UNCHANGED <<pgResults, nextRes, kept>>
      BY <2>1, <2>3
    <3>2. Connections(conns)' /\ Live' \subseteq Live
      BY <2>2, <3>1 DEF Connections, Live
    <3>3. QED
      BY <1>2, <3>1, <3>2, ConnsKeep
  <2>4. CASE c \in DOMAIN cs
    <3>1. PICK o \in Outcomes :
                  /\ conns' = CASE o = "fatal" -> Drop(cs, {c})
                                [] o = "lost" -> Put(cs, c, "bad")
                                [] OTHER -> cs
                  /\ IF o = "rows"
                       THEN /\ nextRes \in Res
                            /\ pgResults' = Put(pgResults, nextRes, c)
                            /\ nextRes' = nextRes + 1
                            /\ kept' = kept \union {nextRes}
                       ELSE UNCHANGED <<pgResults, nextRes, kept>>
      BY <2>1, <2>4
    <3>3. conns' = Drop(cs, {c}) \/ conns' = Put(cs, c, "bad") \/ conns' = cs
      <4>1. CASE o = "fatal"
        BY <3>1, <4>1
      <4>2. CASE o = "lost"
        BY <3>1, <4>2
      <4>3. CASE o \notin {"fatal", "lost"}
        BY <3>1, <4>3
      <4>4. QED
        BY <4>1, <4>2, <4>3
    <3>4. Connections(conns') /\ DOMAIN conns' \subseteq DOMAIN cs \union {c}
      <4>1. Connections(Drop(cs, {c})) /\ DOMAIN Drop(cs, {c}) \subseteq DOMAIN cs
        BY <2>2, ConnectionsDrop
      <4>2. Connections(Put(cs, c, "bad")) /\ DOMAIN Put(cs, c, "bad") = DOMAIN cs \union {c}
        BY <2>2, ConnectionsPut
      <4>3. CASE conns' = Drop(cs, {c})
        BY <4>1, <4>3
      <4>4. CASE conns' = Put(cs, c, "bad")
        BY <4>2, <4>4
      <4>5. CASE conns' = cs
        BY <2>2, <4>5
      <4>6. QED
        BY <3>3, <4>3, <4>4, <4>5
    <3>5. Connections(conns)' /\ Live' \subseteq Live
      BY <1>4, <2>2, <3>4 DEF Connections, Live
    <3>6. CASE o # "rows"
      <4>1. UNCHANGED <<pgResults, nextRes, kept>>
        BY <3>1, <3>6
      <4>2. QED
        BY <1>2, <3>5, <4>1, ConnsKeep
    <3>7. CASE o = "rows"
      <4>1. /\ nextRes \in Res /\ pgResults' = Put(pgResults, nextRes, c) /\ nextRes' = nextRes + 1
            /\ kept' = kept \union {nextRes}
        BY <3>1, <3>7
      <4>2. /\ ResultList(pgResults)' /\ DOMAIN pgResults' = DOMAIN pgResults \union {nextRes}
            /\ nextRes' \in 2 .. MaxRes + 2 /\ \A n \in DOMAIN pgResults' : n < nextRes'
        BY <1>1, <4>1, ResultAdded
      <4>3. Numbers'
        BY <1>1, <1>2, <4>1, <4>2 DEF Numbers, Res
      <4>4. TypesKept'
        <5>1. CASE Well
          <6>1. ~freed /\ kept \subseteq DOMAIN pgResults /\ pgTypeRes \notin kept
            BY <1>1, <5>1 DEF TypesKept, Well
          <6>2. pgTypeRes # 0 /\ Typed
            BY <1>1, <1>4, <5>1 DEF TypesKept, Well
          <6>3. pgTypeRes # nextRes
            BY <1>1, <4>1 DEF Numbers, Res
          <6>4. Typed'
            BY <1>2, <4>2, <6>2 DEF Typed
          <6>5. QED
            BY <1>2, <4>1, <4>2, <6>1, <6>2, <6>3, <6>4 DEF TypesKept
        <5>2. CASE ~Well
          BY <5>2 DEF TypesKept, Well
        <5>3. QED
          BY <5>1, <5>2
      <4>5. QED
        BY <1>2, <3>5, <4>2, <4>3, <4>4, PgPartsNext
    <3>8. QED
      BY <3>6, <3>7
  <2>5. QED
    BY <2>3, <2>4
<1>5. QED
  BY <1>3, <1>4
(* A value is typed by the table, which is read again if it is not there.  *)
LEMMA TypeKeeps ==
  ASSUME PgInv, NEW c, c \in Live => c \in Conns, PgType(c), Well => Typed,
         UNCHANGED <<nextConn, kept, pgHabits>>
  PROVE  PgInv'
<1>1. Connections(conns) /\ ResultList(pgResults) /\ Numbers /\ freed \in BOOLEAN /\ TypesKept
  BY PgParts
<1>2. freed' \in BOOLEAN
  BY <1>1 DEF PgType
<1>3. freed' \in BOOLEAN
  BY <1>1, <1>2
<1>4. CASE Typed
  <2>1. UNCHANGED <<conns, pgResults, pgTypeRes, nextRes, freed>>
    BY <1>4 DEF PgType
  <2>2. Connections(conns)' /\ Live' \subseteq Live
    BY <1>1, <2>1 DEF Connections, Live
  <2>3. QED
    BY <1>3, <2>1, <2>2, ConnsKeep
<1>5. CASE ~Typed
  <2>1. ~Well
    BY <1>5
  <2>2. TypesKept'
    BY <2>1 DEF TypesKept, Well
  <2>3. CASE c \notin Live
    <3>1. UNCHANGED <<conns, pgResults, pgTypeRes, nextRes>>
      BY <1>5, <2>3 DEF PgType
    <3>2. Connections(conns)' /\ ResultList(pgResults)' /\ Numbers'
      BY <1>1, <3>1 DEF Connections, ResultList, Numbers
    <3>3. QED
      BY <1>3, <2>2, <3>2, PgPartsNext
  <2>4. CASE c \in Live
    <3>1. PICK cs \in Reset(c) :
         /\ conns' = cs
         /\ \/ UNCHANGED <<pgResults, pgTypeRes, nextRes>>
            \/ /\ c \in DOMAIN cs /\ nextRes \in Res
               /\ pgResults' = Put(pgResults, nextRes, c)
               /\ pgTypeRes' = nextRes /\ nextRes' = nextRes + 1
      BY <1>5, <2>4 DEF PgType
    <3>2. Connections(cs)
      BY <1>1, <2>4, <3>1, ConnectionsReset
    <3>3. Connections(conns)'
      BY <3>1, <3>2 DEF Connections
    <3>4. CASE UNCHANGED <<pgResults, pgTypeRes, nextRes>>
      <4>1. ResultList(pgResults)' /\ Numbers'
        BY <1>1, <3>4 DEF ResultList, Numbers
      <4>2. QED
        BY <1>3, <2>2, <3>3, <4>1, PgPartsNext
    <3>5. CASE /\ nextRes \in Res /\ pgResults' = Put(pgResults, nextRes, c)
               /\ pgTypeRes' = nextRes /\ nextRes' = nextRes + 1
      <4>1. /\ ResultList(pgResults)' /\ nextRes' \in 2 .. MaxRes + 2
            /\ \A n \in DOMAIN pgResults' : n < nextRes'
        BY <1>1, <2>4, <3>5, ResultAdded
      <4>2. Numbers'
        BY <1>1, <3>5, <4>1 DEF Numbers, Res
      <4>3. QED
        BY <1>3, <2>2, <3>3, <4>1, <4>2, PgPartsNext
    <3>6. QED
      BY <3>1, <3>4, <3>5
  <2>5. QED
    BY <2>3, <2>4
<1>6. QED
  BY <1>4, <1>5

(* A page that holds a result has the table of types.                      *)
LEMMA HeldIsTyped ==
  ASSUME PgInv, Well, NEW n, Holds(n)
  PROVE  n \in DOMAIN pgResults /\ n # pgTypeRes /\ Typed
<1>1. n \in kept
  BY WellUses
<1>2. kept \subseteq DOMAIN pgResults /\ pgTypeRes \notin kept /\ (pgTypeRes = 0 => DOMAIN pgResults = {})
      /\ (pgTypeRes # 0 => Typed)
  BY DEF PgInv, TypesKept, Well
<1>3. QED
  BY <1>1, <1>2

LEMMA ResultKeeps ==
  ASSUME PgInv, NEW n, PGresult(n), pgHabits' = pgHabits
  PROVE  PgInv'
<1>1. CASE n \in DOMAIN pgResults
  <2>1. PICK c : c = pgResults[n]
    OBVIOUS
  <2>2. PgType(c) /\ c \in Conns /\ (Well => Typed)
    BY <1>1, <2>1, HeldIsTyped DEF PGresult, PgInv, PgTypeOK
  <2>3. QED
    BY <2>2, TypeKeeps DEF PGresult
<1>2. CASE n \notin DOMAIN pgResults
  <2>1. ~Well
    BY <1>2, HeldIsTyped DEF PGresult
  <2>2. freed' = TRUE /\ UNCHANGED <<conns, pgResults, pgTypeRes, nextRes, nextConn, kept>>
    BY <1>2 DEF PGresult
  <2>3. TypesKept'
    BY <2>1 DEF TypesKept, Well
  <2>4. Connections(conns)' /\ ResultList(pgResults)' /\ Numbers' /\ freed' \in BOOLEAN
    BY <2>2, PgParts DEF Connections, ResultList, Numbers
  <2>5. QED
    BY <2>3, <2>4, PgPartsNext
<1>3. QED
  BY <1>1, <1>2

LEMMA FieldTypeKeeps ==
  ASSUME PgInv, NEW n, PGfieldType(n), pgHabits' = pgHabits
  PROVE  PgInv'
<1>1. Well => Typed
  BY HeldIsTyped DEF PGfieldType
<1>2. 0 \notin Live
  BY DEF PgInv, PgTypeOK, Conns
<1>3. QED
  BY <1>1, <1>2, TypeKeeps DEF PGfieldType

LEMMA FreeResultKeeps ==
  ASSUME PgInv, NEW n, PGfreeResult(n), pgHabits' = pgHabits
  PROVE  PgInv'
<1>1. UNCHANGED <<conns, pgTypeRes, nextConn, nextRes, freed>> /\ kept' = kept \ {n}
  BY DEF PGfreeResult
<1>2. DOMAIN pgResults' = DOMAIN pgResults \ {n} /\ \A m \in DOMAIN pgResults' : pgResults'[m] = pgResults[m]
  BY DEF PGfreeResult, Drop
<1>3. Connections(conns)' /\ ResultList(pgResults)' /\ Numbers' /\ freed' \in BOOLEAN
  BY <1>1, <1>2, PgParts DEF Connections, ResultList, Numbers
<1>4. TypesKept'
  <2>1. CASE Well
    <3>1. n \in DOMAIN pgResults /\ n # pgTypeRes /\ Typed
      BY <2>1, HeldIsTyped DEF PGfreeResult
    <3>2. ~freed /\ kept \subseteq DOMAIN pgResults /\ pgTypeRes \notin kept
          /\ (pgTypeRes = 0 => DOMAIN pgResults = {})
      BY <2>1 DEF PgInv, TypesKept, Well
    <3>3. Typed' /\ pgTypeRes' # 0
      BY <1>1, <1>2, <3>1, <3>2 DEF Typed
    <3>4. QED
      BY <1>1, <1>2, <3>2, <3>3 DEF TypesKept
  <2>2. CASE ~Well
    BY <2>2 DEF TypesKept, Well, PGfreeResult
  <2>3. QED
    BY <2>1, <2>2
<1>5. QED
  BY <1>3, <1>4, PgPartsNext

LEMMA PgStep ==
  ASSUME PgInv, PgNext, pgHabits' = pgHabits
  PROVE  PgInv'
<1>1. CASE PGconnect
  BY <1>1, ConnectsKeeps
<1>2. CASE \E c \in Conns : PGclose(c) \/ GoesBad(c) \/ PGexec(c)
  BY <1>2, ClosesKeeps, ExecKeeps
<1>3. CASE \E n \in Res : PGresult(n) \/ PGfieldType(n) \/ PGfreeResult(n)
  BY <1>3, ResultKeeps, FieldTypeKeeps, FreeResultKeeps
<1>4. QED
  BY <1>1, <1>2, <1>3 DEF PgNext

(* A request begins with empty lists, and the end of one leaves them so.   *)
LEMMA NothingListed == DOMAIN <<>> = {}
OBVIOUS

LEMMA PgStart ==
  ASSUME PgInit
  PROVE  PgInv
<1>1. /\ DOMAIN conns = {} /\ DOMAIN pgResults = {} /\ kept = {} /\ pgTypeRes = 0 /\ nextConn = 1
      /\ nextRes = 2 /\ freed = FALSE
  BY NothingListed DEF PgInit
<1>2. Numbers
  BY <1>1, PostgresAssumption DEF Numbers
<1>3. Connections(conns) /\ ResultList(pgResults) /\ freed \in BOOLEAN /\ TypesKept
  BY <1>1 DEF Connections, ResultList, TypesKept, Live
<1>4. QED
  BY <1>2, <1>3, PgParts

LEMMA PgEnds ==
  ASSUME PgInv, EndOfRequest
  PROVE  PgInv'
<1>1. /\ DOMAIN conns' = {} /\ DOMAIN pgResults' = {} /\ kept' = {} /\ pgTypeRes' = 0 /\ nextConn' = 1
      /\ nextRes' = 2 /\ freed' = FALSE
  BY NothingListed DEF EndOfRequest, PGcloseAll, PgInv, PgTypeOK
<1>2. Numbers'
  BY <1>1, PostgresAssumption DEF Numbers
<1>3. Connections(conns)' /\ ResultList(pgResults)' /\ freed' \in BOOLEAN /\ TypesKept'
  BY <1>1 DEF Connections, ResultList, TypesKept, Live
<1>4. QED
  BY <1>2, <1>3, PgPartsNext
-----------------------------------------------------------------------------
(* The theorems. *)

LEMMA StutterKeeps ==
  ASSUME IInv, UNCHANGED vars
  PROVE  IInv'
<1>1. /\ UNCHANGED <<sock, curDB, curPort, results, curHost, env, first, ind, owned, ran, crashed>>
      /\ UNCHANGED <<build, habits, pgHabits>>
      /\ UNCHANGED <<conns, pgResults, pgTypeRes, nextConn, nextRes, kept, freed>>
  BY DEF vars, msqlVars, conn, pgVars, fixed
<1>2. MsqlInv'
  BY <1>1 DEF IInv, MsqlInv, here, Truthful, Environment, Held, RanWhereWanted
<1>3. PgInv'
  BY <1>1 DEF IInv, PgInv, PgTypeOK, TypesKept, Live, Typed
<1>4. QED
  BY <1>1, <1>2, <1>3 DEF IInv

LEMMA StepKeeps ==
  ASSUME IInv, [Next]_vars
  PROVE  IInv'
<1>1. CASE MsqlNext /\ UNCHANGED <<pgVars, fixed>>
  <2>1. UNCHANGED <<build, habits, pgHabits>>
        /\ UNCHANGED <<conns, pgResults, pgTypeRes, nextConn, nextRes, kept, freed>>
    BY <1>1 DEF pgVars, fixed
  <2>2. MsqlInv'
    BY <1>1, <2>1, MsqlStep DEF IInv
  <2>3. PgInv'
    BY <2>1 DEF IInv, PgInv, PgTypeOK, TypesKept, Live, Typed
  <2>4. QED
    BY <2>1, <2>2, <2>3 DEF IInv
<1>2. CASE PgNext /\ UNCHANGED <<msqlVars, fixed>>
  <2>1. /\ UNCHANGED <<sock, curDB, curPort, results, curHost, env, first, ind, owned, ran, crashed>>
        /\ UNCHANGED <<build, habits, pgHabits>>
    BY <1>2 DEF msqlVars, conn, fixed
  <2>2. MsqlInv'
    BY <2>1 DEF IInv, MsqlInv, here, Truthful, Environment, Held, RanWhereWanted
  <2>3. PgInv'
    BY <1>2, <2>1, PgStep DEF IInv
  <2>4. QED
    BY <2>1, <2>2, <2>3 DEF IInv
<1>3. CASE EndOfRequest
  BY <1>3, MsqlEnds, PgEnds DEF IInv, EndOfRequest, fixed
<1>4. CASE UNCHANGED vars
  BY <1>4, StutterKeeps
<1>5. QED
  BY <1>1, <1>2, <1>3, <1>4 DEF Next

LEMMA InitHolds ==
  ASSUME Init
  PROVE  IInv
<1>1. PICK p \in Pages : habits = p.msql /\ pgHabits = p.pg
  BY DEF Init
<1>2. p \in [msql : SUBSET MsqlHabits, pg : SUBSET PgHabits]
  BY <1>1, DatabasesAssumption
<1>3. [msql |-> habits, pg |-> pgHabits] = p
  BY <1>1, <1>2
<1>4. MsqlInv /\ PgInv /\ build \in Builds
  BY MsqlStart, PgStart DEF Init
<1>5. QED
  BY <1>1, <1>3, <1>4 DEF IInv

(* The inductive invariant: what the program remembers of its connection   *)
(* is true, the results of the page are those of the list, and the table   *)
(* of types is there for all results (msql.c, pg95.c, log.c).              *)
THEOREM DatabasesInvariant == Spec => []IInv
<1>1. Init => IInv
  BY InitHolds
<1>2. IInv /\ [Next]_vars => IInv'
  BY StepKeeps
<1>3. QED
  BY <1>1, <1>2, PTL DEF Spec

LEMMA TypeHolds ==
  ASSUME IInv
  PROVE  TypeOK
<1>1. /\ here.sock \in {None} \union Sockets /\ here.db \in DBs \union {LogDB, None}
      /\ here.port \in Ports \union {None, Empty} /\ here.results \subseteq Result
  BY KnownParts DEF IInv, MsqlInv
<1>2. MsqlTypeOK
  BY <1>1, HereParts DEF IInv, MsqlInv, MsqlTypeOK, Environment, Result
<1>3. QED
  BY <1>2 DEF TypeOK, IInv, PgInv

LEMMA KeptHolds ==
  ASSUME MsqlInv
  PROVE  MsqlResultsKept
<1> SUFFICES ASSUME Holding, NEW r \in owned
             PROVE  MsqlResult(r.ind) = {r.of}
  BY DEF MsqlResultsKept, Holding
<1>1. r \in results /\ \A s \in results : s.ind = r.ind => s = r
  BY DEF MsqlInv, Held, Holding
<1>2. {s \in results : s.ind = r.ind} = {r}
  BY <1>1
<1>3. QED
  BY <1>2 DEF MsqlResult

LEMMA OpenHolds ==
  ASSUME MsqlInv
  PROVE  MsqlSound
<1> SUFFICES ASSUME habits \cap {"nolog", "gone"} = {}, "switch" \in habits => "port" \in habits
             PROVE  ~crashed /\ (sock # None => sock.open)
  BY DEF MsqlSound
<1>1. ~crashed /\ "nolog" \notin habits
  BY DEF MsqlInv
<1>2. sock # None => sock.open
  BY <1>1, HereParts DEF MsqlInv, Truthful
<1>3. QED
  BY <1>1, <1>2

LEMMA ReadableHolds ==
  ASSUME PgInv
  PROVE  PgSound
BY DEF PgInv, PgSound, TypesKept, PGread

(* The lists are of their types; no result or connection that is gone is   *)
(* used, none that the page keeps is freed (msql.c:65-130, pg95.c:97-369). *)
THEOREM DatabasesSound == Spec => []DatabasesInv
<1>1. IInv => DatabasesInv
  BY TypeHolds, KeptHolds, OpenHolds, ReadableHolds DEF IInv, DatabasesInv, ResultsSound
<1>2. QED
  BY <1>1, DatabasesInvariant, PTL

(* A query runs on the host, by the port and on the database that it was   *)
(* sent to, on pages that list no tables, however connections are lost and *)
(* made anew (msql.c:132-256).                                             *)
THEOREM QueriesRun == Spec => []RanWhereWanted
<1>1. IInv => RanWhereWanted
  BY DEF IInv, MsqlInv
<1>2. QED
  BY <1>1, DatabasesInvariant, PTL

-----------------------------------------------------------------------------
(* The access log, which is kept in a dbm file, or in mSQL. *)

(* Where a process may be, with a dbm file and with mSQL.                  *)
LogPlaces ==
  IF Dbm
    THEN {"idle", "page", "reading", "create", "lock", "load", "insert", "wipe", "replace"}
    ELSE {"idle", "page", "lockfile", "lock", "select", "newrow", "update", "unlock", "unlink"}

LogHolding == {"load", "insert", "wipe", "replace", "select", "newrow", "update", "unlock"}

(* Types, and what they rest on: a lock is held between Lock and Release,  *)
(* and the counters are known when they are written.                       *)
LogTypes ==
  /\ LogTypeOK
  /\ IsFiniteSet(entries)
  /\ \A p \in Procs : pc[p] \in LogPlaces
  /\ \A p \in Procs, l \in Locks : holder[l] = p => pc[p] \in LogHolding
  /\ \A p \in Procs : pc[p] \in {"wipe", "replace", "newrow", "update"} => total[p] >= 0 /\ today[p] >= 0

(* The numbers of the entries of a second are those below their count, so  *)
(* that the next one is new.                                               *)
Dense == \A e \in entries : e[2] < Cardinality({d \in entries : d[1] = e[1]})

(* Processes whose entry is in the mSQL log and not counted yet.           *)
InDebt == {"lockfile", "lock", "select", "newrow", "update"}
Owed == IF Dbm THEN {} ELSE {p \in Procs : pc[p] \in InDebt}

(* The log counts what is in it: in mSQL, and in a flat file that is there.*)
Counting == setup.store = "msql" \/ (setup.store = "flat" /\ setup.exists)

(* What is counted, or is about to be, is in the log.                      *)
AheadInv ==
  Counting =>
    /\ Dbm => file = TRUE /\ \A p \in Procs : pc[p] # "create"
    /\ Dense
    /\ Cardinality(Owed) <= Cardinality(entries)
    /\ last # Nil => last.total + Cardinality(Owed) <= Cardinality(entries)
    /\ \A p \in Procs : Dbm \/ pc[p] \in {"newrow", "update"} =>
         total[p] + Cardinality(Owed) <= Cardinality(entries)

Inside == {"load", "insert", "wipe", "replace"}

(* No page asks for its counters, and no process is killed.                *)
Undisturbed == setup.store = "flat" /\ setup.exists /\ ~setup.footer /\ ~setup.kill

(* While nobody is past Insert the last record counts every entry; who is  *)
(* has the lock, and counts them all himself.                              *)
CountInv ==
  Undisturbed =>
    /\ \A p \in Procs : pc[p] # "reading"
    /\ \A p \in Procs : pc[p] \in Inside => holder[0] = p
    /\ \A p \in Procs : pc[p] = "lock" => fd[p] = 0
    /\ \A p \in Procs : pc[p] \in {"page", "lock", "load"} => total[p] = -1
    /\ \A p \in Procs : pc[p] \in {"insert", "wipe", "replace"} => total[p] = Cardinality(entries)
    /\ (\A p \in Procs : pc[p] \notin {"wipe", "replace"})
         => last # Nil /\ last.total = Cardinality(entries)

LogProofInv == LogTypes /\ AheadInv /\ CountInv

LEMMA LogConstants ==
  /\ Setups \subseteq Setup
  /\ IsFiniteSet(Procs) /\ Nil \notin Procs /\ Nil \notin Record
  /\ MaxTime \in Nat /\ MaxHits \in Nat /\ 0 \in Times /\ 0 \in Locks
<1>1. IsFiniteSet(Procs)
  BY LogAssumption
<1>2. Cardinality(Procs) \in Nat
  BY <1>1, FS_CardinalityType
<1>3. QED
  BY <1>1, <1>2, LogAssumption DEF Times, Locks

(* Which store a process logs in stays as it is.                           *)
LEMMA LogSetupStays == LogNext => setup' = setup
BY DEF LogNext, StartPage, Ask, AskRead, Lock, Logging, Kill, Tick,
       LogOpen, Create, CreateFails, Load, Insert, Wipe, Replace,
       MsqlInsert, LockFile, Select, NewRow, Update, Unlock, Unlink

(* The counters of a record, for the day it is read on.                    *)
LEMMA CountFromType ==
  ASSUME LogTypeOK, NEW p \in Procs, NEW t \in Times, last # Nil, CountFrom(p, last, t)
  PROVE  /\ total' = [total EXCEPT ![p] = last.total] /\ last.total \in Nat
         /\ total' \in [Procs -> Nat \union {-1}] /\ today' \in [Procs -> Nat \union {-1}]
         /\ total'[p] = last.total /\ today'[p] \in Nat
         /\ \A q \in Procs \ {p} : total'[q] = total[q] /\ today'[q] = today[q]
<1>1. last \in Record /\ total \in [Procs -> Nat \union {-1}] /\ today \in [Procs -> Nat \union {-1}]
  BY DEF LogTypeOK
<1>2. last.total \in Nat /\ last.today \in Nat
  BY <1>1 DEF Record
<1>3. PICK n \in Nat : today' = [today EXCEPT ![p] = n]
  BY <1>2 DEF CountFrom, Count
<1>4. total' = [total EXCEPT ![p] = last.total]
  BY DEF CountFrom, Count
<1>5. QED
  BY <1>1, <1>2, <1>3, <1>4

(* Whatever loadlastinfo does, the counters are counters.                  *)
LEMMA LoadType ==
  ASSUME LogTypeOK, NEW p \in Procs, LoadLastInfo(p)
  PROVE  /\ total' \in [Procs -> Nat \union {-1}] /\ today' \in [Procs -> Nat \union {-1}]
         /\ last # Nil => total'[p] = last.total /\ last.total \in Nat
         /\ last = Nil => UNCHANGED <<total, today>>
         /\ \A q \in Procs \ {p} : total'[q] = total[q] /\ today'[q] = today[q]
<1>1. now \in Times /\ total \in [Procs -> Nat \union {-1}] /\ today \in [Procs -> Nat \union {-1}]
  BY DEF LogTypeOK
<1>2. CASE last # Nil
  BY <1>1, <1>2, CountFromType DEF LoadLastInfo
<1>3. CASE last = Nil
  BY <1>1, <1>3 DEF LoadLastInfo
<1>4. QED
  BY <1>2, <1>3

(* What a step does to the place of the process and of the others.         *)
LEMMA At ==
  ASSUME LogTypeOK, NEW p \in Procs, NEW l \in Labels, Goto(p, l)
  PROVE  pc' \in [Procs -> Labels] /\ pc'[p] = l /\ \A q \in Procs \ {p} : pc'[q] = pc[q]
BY DEF LogTypeOK, Goto

(* What an entry adds to the log.                                          *)
LEMMA NewEntry ==
  ASSUME LogTypes, NEW t \in Times, entries' = EntriesWith(t)
  PROVE  /\ entries' \subseteq Times \X Nat /\ IsFiniteSet(entries')
         /\ Cardinality(entries) \in Nat
         /\ Dense /\ setup.store # "gdbm" => Dense' /\ Cardinality(entries') = Cardinality(entries) + 1
<1> DEFINE Of(S, u) == {e \in S : e[1] = u}
           n == Cardinality(Of(entries, t))
<1>0. entries \subseteq Times \X Nat /\ IsFiniteSet(entries)
  BY DEF LogTypes, LogTypeOK
<1>1. \A u : IsFiniteSet(Of(entries, u)) /\ Cardinality(Of(entries, u)) \in Nat
  BY <1>0, FS_Subset, FS_CardinalityType
<1>2. n \in Nat /\ Cardinality(entries) \in Nat
  BY <1>0, <1>1, FS_CardinalityType
<1>3. /\ entries' \in {entries, entries \union {<<t, n>>}}
      /\ setup.store # "gdbm" => entries' = entries \union {<<t, n>>}
  BY DEF EntriesWith, NoKeyFor
<1> HIDE DEF n
<1>4. entries' \subseteq Times \X Nat /\ IsFiniteSet(entries')
  <2>1. IsFiniteSet(entries \union {<<t, n>>})
    BY <1>0, FS_AddElement
  <2>2. <<t, n>> \in Times \X Nat
    BY <1>2
  <2>3. QED
    BY <1>0, <1>3, <2>1, <2>2
<1>5. ASSUME Dense, setup.store # "gdbm"
      PROVE  Dense' /\ Cardinality(entries') = Cardinality(entries) + 1
  <2>1. entries' = entries \union {<<t, n>>}
    BY <1>3, <1>5
  <2>2. <<t, n>> \notin entries
    <3>1. SUFFICES ASSUME <<t, n>> \in entries PROVE FALSE
      OBVIOUS
    <3>2. <<t, n>>[2] < Cardinality(Of(entries, <<t, n>>[1]))
      BY <3>1, <1>5 DEF Dense
    <3>3. <<t, n>>[1] = t /\ <<t, n>>[2] = n
      OBVIOUS
    <3>4. n < n
      BY <3>2, <3>3 DEF n
    <3>5. QED
      BY <1>2, <3>4
  <2>3. Cardinality(entries') = Cardinality(entries) + 1
    BY <1>0, <2>1, <2>2, FS_AddElement
  <2>4. ASSUME NEW e \in entries' PROVE e[2] < Cardinality(Of(entries', e[1]))
    <3>1. CASE e[1] # t
      <4>1. Of(entries', e[1]) = Of(entries, e[1]) /\ e \in entries
        BY <2>1, <3>1
      <4>2. QED
        BY <1>5, <4>1 DEF Dense
    <3>2. CASE e[1] = t
      <4>1. Of(entries', t) = Of(entries, t) \union {<<t, n>>} /\ <<t, n>> \notin Of(entries, t)
        BY <2>1, <2>2
      <4>2. Cardinality(Of(entries', t)) = n + 1
        <5> DEFINE Old == Of(entries, t)
                   New == Of(entries', t)
        <5>1. IsFiniteSet(Old) /\ New = Old \union {<<t, n>>} /\ <<t, n>> \notin Old /\ n = Cardinality(Old)
          BY <1>1, <4>1 DEF n
        <5> HIDE DEF Old, New
        <5>2. Cardinality(New) = n + 1
          BY <5>1, FS_AddElement
        <5>3. QED
          BY <5>2 DEF New
      <4>3. e[2] <= n
        <5>1. CASE e \in entries
          <6>1. n = Cardinality({d \in entries : d[1] = e[1]})
            BY <3>2 DEF n
          <6>2. e[2] < n
            BY <1>5, <5>1, <6>1 DEF Dense
          <6>3. e[2] \in Nat
            BY <1>0, <5>1
          <6>4. QED
            BY <1>2, <6>2, <6>3
        <5>2. CASE e = <<t, n>>
          BY <1>2, <5>2
        <5>3. QED
          BY <2>1, <5>1, <5>2
      <4>4. e[2] \in Nat
        BY <1>4
      <4>5. QED
        BY <1>2, <3>2, <4>2, <4>3, <4>4
    <3>3. QED
      BY <3>1, <3>2
  <2>5. Dense'
    BY <2>4 DEF Dense
  <2>6. QED
    BY <2>3, <2>5
<1>6. QED
  BY <1>2, <1>4, <1>5

(* The variables are of their types, whoever has which lock.               *)
LogData ==
  /\ setup \in Setups /\ now \in Times /\ hits \in 0..MaxHits /\ file \in BOOLEAN
  /\ entries \subseteq Times \X Nat /\ IsFiniteSet(entries) /\ last \in Record \union {Nil}
  /\ lockfn \in Locks \union {Nil} /\ time \in [Procs -> Times]
  /\ total \in [Procs -> Nat \union {-1}] /\ today \in [Procs -> Nat \union {-1}]
  /\ holder \in [Locks -> Procs \union {Nil}] /\ fd \in [Procs -> Locks \union {Nil}]

(* A step of a process leaves the others where they are, and gives them no *)
(* lock.                                                                   *)
OthersKept(p) ==
  /\ \A q \in Procs \ {p} : total'[q] = total[q] /\ today'[q] = today[q] /\ fd'[q] = fd[q]
  /\ \A k \in Locks, q \in Procs \ {p} : holder'[k] = q => holder[k] = q

(* It may be where it goes, with the locks that it then has.               *)
Arrives(p, l) ==
  /\ l \in LogPlaces /\ pc' = [pc EXCEPT ![p] = l]
  /\ \A k \in Locks : holder'[k] = p => fd'[p] = k /\ l \in LogHolding
  /\ l \in {"wipe", "replace", "newrow", "update"} => total'[p] >= 0 /\ today'[p] >= 0

LEMMA LogTypesOf ==
  ASSUME LogTypes
  PROVE  /\ LogData /\ LogTypeOK /\ pc \in [Procs -> Labels] /\ \A q \in Procs : pc[q] \in LogPlaces
         /\ \A k \in Locks, q \in Procs : holder[k] = q => fd[q] = k /\ pc[q] \in LogHolding
         /\ \A q \in Procs : pc[q] \in {"wipe", "replace", "newrow", "update"} => total[q] >= 0 /\ today[q] >= 0
BY DEF LogTypes, LogTypeOK, LogData

(* What a step of the log needs to leave the types as they are.            *)
LEMMA LogTypesKept ==
  ASSUME LogTypes, LogData', setup' = setup, NEW p \in Procs, NEW l, OthersKept(p), Arrives(p, l)
  PROVE  LogTypes' /\ pc'[p] = l /\ \A q \in Procs \ {p} : pc'[q] = pc[q]
<1>1. LogPlaces' = LogPlaces
  BY DEF LogPlaces, Dbm
<1>2. LogPlaces \subseteq Labels
  BY DEF LogPlaces, Labels
<1>3. /\ pc' \in [Procs -> Labels] /\ pc'[p] = l /\ \A q \in Procs \ {p} : pc'[q] = pc[q]
  BY <1>2 DEF LogTypes, LogTypeOK, Arrives
<1>4. \A k \in Locks, q \in Procs : holder'[k] = q => fd'[q] = k /\ pc'[q] \in LogHolding
  <2> SUFFICES ASSUME NEW k \in Locks, NEW q \in Procs, holder'[k] = q
               PROVE  fd'[q] = k /\ pc'[q] \in LogHolding
    OBVIOUS
  <2>1. CASE q = p
    BY <1>3, <2>1 DEF Arrives
  <2>2. CASE q # p
    BY <1>3, <2>2 DEF LogTypes, LogTypeOK, OthersKept
  <2>3. QED
    BY <2>1, <2>2
<1>5. \A q \in Procs : pc'[q] \in LogPlaces
  BY <1>3 DEF LogTypes, Arrives
<1>6. \A q \in Procs : pc'[q] \in {"wipe", "replace", "newrow", "update"} => total'[q] >= 0 /\ today'[q] >= 0
  BY <1>3 DEF LogTypes, Arrives, OthersKept
<1>7. LogTypeOK'
  BY <1>3, <1>4 DEF LogTypeOK, LogData
<1>8. QED
  BY <1>1, <1>3, <1>4, <1>5, <1>6, <1>7 DEF LogTypes, LogData

(* A step that takes no lock and gives none back.                          *)
LEMMA LocksKept ==
  ASSUME LogTypes, UNCHANGED <<holder, fd>>, NEW p \in Procs, NEW l \in LogPlaces, pc' = [pc EXCEPT ![p] = l],
         pc[p] \in LogHolding => l \in LogHolding,
         l \in {"wipe", "replace", "newrow", "update"} => total'[p] >= 0 /\ today'[p] >= 0,
         \A q \in Procs \ {p} : total'[q] = total[q] /\ today'[q] = today[q]
  PROVE  OthersKept(p) /\ Arrives(p, l)
BY LogTypesOf DEF OthersKept, Arrives

(* A process that waits for no lock, or not yet, has none.                 *)
LEMMA LockGained ==
  ASSUME LogTypes, NEW p \in Procs, NEW l \in LogPlaces, pc' = [pc EXCEPT ![p] = l], pc[p] \notin LogHolding,
         NEW m \in Locks, fd' = [fd EXCEPT ![p] = m],
         holder' = holder \/ (holder' = [holder EXCEPT ![m] = p] /\ l \in LogHolding),
         l \notin {"wipe", "replace", "newrow", "update"},
         \A q \in Procs \ {p} : total'[q] = total[q] /\ today'[q] = today[q]
  PROVE  OthersKept(p) /\ Arrives(p, l)
<1>1. /\ holder \in [Locks -> Procs \union {Nil}] /\ fd \in [Procs -> Locks \union {Nil}]
      /\ \A k \in Locks : holder[k] # p
  BY LogTypesOf DEF LogData
<1>2. fd'[p] = m /\ \A q \in Procs \ {p} : fd'[q] = fd[q]
  BY <1>1
<1>3. \A k \in Locks : holder'[k] = holder[k] \/ (holder'[k] = p /\ k = m /\ l \in LogHolding)
  BY <1>1
<1>4. OthersKept(p)
  BY <1>2, <1>3 DEF OthersKept
<1>5. Arrives(p, l)
  BY <1>1, <1>2, <1>3 DEF Arrives
<1>6. QED
  BY <1>4, <1>5

(* A process that gives up its locks has none.                             *)
LEMMA LockReleased ==
  ASSUME LogTypes, NEW p \in Procs, NEW l \in LogPlaces, pc' = [pc EXCEPT ![p] = l],
         Release(p), UNCHANGED <<total, today>>, l \notin {"wipe", "replace", "newrow", "update"}
  PROVE  /\ OthersKept(p) /\ Arrives(p, l)
         /\ holder' \in [Locks -> Procs \union {Nil}] /\ fd' \in [Procs -> Locks \union {Nil}]
         /\ \A k \in Locks : holder'[k] = IF holder[k] = p THEN Nil ELSE holder[k]
<1>1. /\ holder \in [Locks -> Procs \union {Nil}] /\ fd \in [Procs -> Locks \union {Nil}]
      /\ Nil \notin Procs
  BY LogTypesOf, LogConstants DEF LogData
<1>2. /\ holder' = [k \in Locks |-> IF holder[k] = p THEN Nil ELSE holder[k]]
      /\ fd' = [fd EXCEPT ![p] = Nil]
  BY DEF Release
<1>3. \A k \in Locks : holder'[k] # p /\ (holder'[k] = Nil \/ holder'[k] = holder[k])
  BY <1>1, <1>2
<1>4. \A q \in Procs \ {p} : fd'[q] = fd[q]
  BY <1>1, <1>2
<1>5. OthersKept(p)
  BY <1>1, <1>3, <1>4 DEF OthersKept
<1>6. Arrives(p, l)
  BY <1>3 DEF Arrives
<1>7. QED
  BY <1>1, <1>2, <1>5, <1>6

(* A record of the time and the counters of a process.                     *)
LEMMA RecordType ==
  ASSUME NEW t \in Times, NEW m \in Nat, NEW n \in Nat
  PROVE  [time |-> t, total |-> m, today |-> n] \in Record
BY DEF Record

(* A step of the page that reads, or tries to open the log.                *)
LEMMA LogTypesPage ==
  ASSUME LogTypes, LogNext, NEW p \in Procs,
         StartPage(p) \/ Ask(p) \/ AskRead(p) \/ LogOpen(p) \/ CreateFails(p) \/ Load(p)
  PROVE  LogTypes'
<1>0. setup' = setup
  BY LogSetupStays
<1>1. LogData /\ pc \in [Procs -> Labels] /\ pc[p] \in LogPlaces /\ LogTypeOK
  BY LogTypesOf
<1>2. 0 \in Locks /\ MaxHits \in Nat
  BY LogConstants
<1>3. CASE StartPage(p)
  <2>1. /\ pc' = [pc EXCEPT ![p] = "page"] /\ pc[p] = "idle" /\ hits < MaxHits /\ hits' = hits + 1
        /\ UNCHANGED <<now, file, entries, last, holder, lockfn, fd, time>>
        /\ total' = [total EXCEPT ![p] = -1] /\ today' = [today EXCEPT ![p] = -1]
    BY <1>3 DEF StartPage, Goto, Count, shared
  <2>2. "page" \in LogPlaces /\ "page" \notin {"wipe", "replace", "newrow", "update"} /\ "idle" \notin LogHolding
    BY DEF LogPlaces, LogHolding
  <2>3. LogData'
    BY <1>0, <1>1, <1>2, <2>1 DEF LogData
  <2>4. \A q \in Procs \ {p} : total'[q] = total[q] /\ today'[q] = today[q]
    BY <1>1, <2>1 DEF LogData
  <2>5. OthersKept(p) /\ Arrives(p, "page")
    BY <2>1, <2>2, <2>4, LocksKept, Zenon
  <2>6. QED
    BY <1>0, <2>1, <2>2, <2>3, <2>5, LogTypesKept, Zenon
<1>4. CASE Ask(p)
  <2>1. /\ UNCHANGED <<now, hits, file, entries, last, holder, lockfn, fd, time>> /\ pc[p] = "page" /\ Dbm
        /\ \/ pc' = [pc EXCEPT ![p] = "reading"] /\ UNCHANGED <<total, today>>
           \/ pc' = pc /\ total' = [total EXCEPT ![p] = 0] /\ today' = [today EXCEPT ![p] = 0]
    BY <1>4 DEF Ask, Count, shared, Goto
  <2>2. PICK l \in {"page", "reading"} : pc' = [pc EXCEPT ![p] = l]
    BY <1>1, <2>1
  <2>3. l \in LogPlaces /\ l \notin {"wipe", "replace", "newrow", "update"} /\ "page" \notin LogHolding
    BY <2>1 DEF LogPlaces, LogHolding
  <2>4. LogData' /\ \A q \in Procs \ {p} : total'[q] = total[q] /\ today'[q] = today[q]
    BY <1>0, <1>1, <2>1 DEF LogData
  <2>5. OthersKept(p) /\ Arrives(p, l)
    BY <2>1, <2>2, <2>3, <2>4, LocksKept, Zenon
  <2>6. QED
    BY <1>0, <2>2, <2>3, <2>4, <2>5, LogTypesKept, Zenon
<1>5. CASE AskRead(p)
  <2>1. /\ UNCHANGED <<now, hits, file, entries, last, holder, lockfn, fd, time>> /\ pc[p] = "reading"
        /\ pc' = [pc EXCEPT ![p] = "page"]
        /\ LoadLastInfo(p) \/ (total' = [total EXCEPT ![p] = 0] /\ today' = [today EXCEPT ![p] = 0])
    BY <1>5 DEF AskRead, shared, Goto, Count
  <2>2. "page" \in LogPlaces /\ "page" \notin {"wipe", "replace", "newrow", "update"} /\ "reading" \notin LogHolding
    BY DEF LogPlaces, LogHolding
  <2>3. /\ total' \in [Procs -> Nat \union {-1}] /\ today' \in [Procs -> Nat \union {-1}]
        /\ \A q \in Procs \ {p} : total'[q] = total[q] /\ today'[q] = today[q]
    BY <1>1, <2>1, LoadType DEF LogData
  <2>4. LogData'
    BY <1>0, <1>1, <2>1, <2>3 DEF LogData
  <2>5. OthersKept(p) /\ Arrives(p, "page")
    BY <2>1, <2>2, <2>3, LocksKept, Zenon
  <2>6. QED
    BY <1>0, <2>1, <2>2, <2>4, <2>5, LogTypesKept, Zenon
<1>6. CASE LogOpen(p)
  <2>1. /\ UNCHANGED <<now, hits, file, entries, last, lockfn, total, today, time>> /\ pc[p] = "page" /\ Dbm
        /\ \/ pc' = [pc EXCEPT ![p] = "create"] /\ UNCHANGED <<holder, fd>>
           \/ pc' = [pc EXCEPT ![p] = "lock"] /\ UNCHANGED holder /\ fd' = [fd EXCEPT ![p] = 0]
           \/ pc' = [pc EXCEPT ![p] = "load"] /\ holder' = [holder EXCEPT ![0] = p] /\ fd' = [fd EXCEPT ![p] = 0]
    BY <1>6 DEF LogOpen, shared, Goto, Opened
  <2>2. /\ {"create", "lock", "load"} \subseteq LogPlaces /\ "page" \notin LogHolding /\ "load" \in LogHolding
        /\ "create" \notin {"wipe", "replace", "newrow", "update"} /\ "lock" \notin {"wipe", "replace", "newrow", "update"}
        /\ "load" \notin {"wipe", "replace", "newrow", "update"}
    BY <2>1 DEF LogPlaces, LogHolding
  <2>3. LogData' /\ \A q \in Procs \ {p} : total'[q] = total[q] /\ today'[q] = today[q]
    BY <1>0, <1>1, <1>2, <2>1 DEF LogData
  <2>4. PICK l \in {"create", "lock", "load"} : pc' = [pc EXCEPT ![p] = l] /\ OthersKept(p) /\ Arrives(p, l)
    <3>1. CASE pc' = [pc EXCEPT ![p] = "create"] /\ UNCHANGED <<holder, fd>>
      BY <2>1, <2>2, <2>3, <3>1, LocksKept, Zenon
    <3>2. CASE pc' = [pc EXCEPT ![p] = "lock"] /\ UNCHANGED holder /\ fd' = [fd EXCEPT ![p] = 0]
      BY <1>2, <2>1, <2>2, <2>3, <3>2, LockGained, Zenon
    <3>3. CASE pc' = [pc EXCEPT ![p] = "load"] /\ holder' = [holder EXCEPT ![0] = p] /\ fd' = [fd EXCEPT ![p] = 0]
      BY <1>2, <2>1, <2>2, <2>3, <3>3, LockGained, Zenon
    <3>4. QED
      BY <2>1, <3>1, <3>2, <3>3
  <2>5. l \in LogPlaces
    BY <2>2
  <2>6. QED
    BY <1>0, <2>3, <2>4, <2>5, LogTypesKept, Zenon
<1>7. CASE CreateFails(p)
  <2>1. /\ UNCHANGED <<now, hits, file, entries, last, lockfn, holder, fd, total, today, time>>
        /\ pc[p] = "create" /\ pc' = [pc EXCEPT ![p] = "idle"]
    BY <1>7 DEF CreateFails, shared, Goto
  <2>2. "idle" \in LogPlaces /\ "create" \notin LogHolding /\ "idle" \notin {"wipe", "replace", "newrow", "update"}
    BY DEF LogPlaces, LogHolding
  <2>3. LogData'
    BY <1>0, <1>1, <2>1 DEF LogData
  <2>4. OthersKept(p) /\ Arrives(p, "idle")
    BY <2>1, <2>2, LocksKept, Zenon
  <2>5. QED
    BY <1>0, <2>1, <2>2, <2>3, <2>4, LogTypesKept, Zenon
<1>8. CASE Load(p)
  <2>1. /\ UNCHANGED <<now, hits, file, entries, last, lockfn, holder, fd, time>>
        /\ pc[p] = "load" /\ pc' = [pc EXCEPT ![p] = "insert"]
        /\ LoadLastInfo(p) \/ UNCHANGED <<total, today>>
    BY <1>8 DEF Load, shared, Goto
  <2>2. "insert" \in LogPlaces /\ "insert" \in LogHolding /\ "insert" \notin {"wipe", "replace", "newrow", "update"}
    <3>1. "load" \in LogPlaces
      BY <1>1, <2>1
    <3>2. QED
      BY <3>1 DEF LogPlaces, LogHolding
  <2>3. /\ total' \in [Procs -> Nat \union {-1}] /\ today' \in [Procs -> Nat \union {-1}]
        /\ \A q \in Procs \ {p} : total'[q] = total[q] /\ today'[q] = today[q]
    BY <1>1, <2>1, LoadType DEF LogData
  <2>4. LogData'
    BY <1>0, <1>1, <2>1, <2>3 DEF LogData
  <2>5. OthersKept(p) /\ Arrives(p, "insert")
    BY <2>1, <2>2, <2>3, LocksKept, Zenon
  <2>6. QED
    BY <1>0, <2>1, <2>2, <2>4, <2>5, LogTypesKept, Zenon
<1>9. QED
  BY <1>3, <1>4, <1>5, <1>6, <1>7, <1>8

(* A step of Log with the dbm file open, and of a process that is killed.  *)
LEMMA LogTypesDbm ==
  ASSUME LogTypes, LogNext, NEW p \in Procs,
         Create(p) \/ Lock(p) \/ Insert(p) \/ Wipe(p) \/ Replace(p) \/ Kill(p)
  PROVE  LogTypes'
<1>0. setup' = setup
  BY LogSetupStays
<1>1. LogData /\ pc \in [Procs -> Labels] /\ pc[p] \in LogPlaces /\ LogTypeOK
  BY LogTypesOf
<1>2. 0 \in Locks /\ MaxHits \in Nat /\ {} \subseteq Times \X Nat /\ IsFiniteSet({})
  BY LogConstants, FS_EmptySet
<1>3. CASE Create(p)
  <2>1. /\ UNCHANGED <<now, hits, lockfn, time>> /\ pc[p] = "create"
        /\ file' = TRUE /\ entries' = {} /\ last' = Nil
        /\ total' = [total EXCEPT ![p] = 0] /\ today' = [today EXCEPT ![p] = 0] /\ fd' = [fd EXCEPT ![p] = 0]
        /\ \/ pc' = [pc EXCEPT ![p] = "lock"] /\ UNCHANGED holder
           \/ pc' = [pc EXCEPT ![p] = "load"] /\ holder' = [holder EXCEPT ![0] = p]
    BY <1>3 DEF Create, Goto, Opened, Count
  <2>2. /\ {"lock", "load"} \subseteq LogPlaces /\ "create" \notin LogHolding /\ "load" \in LogHolding
        /\ "lock" \notin {"wipe", "replace", "newrow", "update"} /\ "load" \notin {"wipe", "replace", "newrow", "update"}
    BY <1>1, <2>1 DEF LogPlaces, LogHolding
  <2>3. LogData'
    BY <1>0, <1>1, <1>2, <2>1 DEF LogData
  <2>4. \A q \in Procs \ {p} : total'[q] = total[q] /\ today'[q] = today[q]
    BY <1>1, <2>1 DEF LogData
  <2>5. PICK l \in {"lock", "load"} : pc' = [pc EXCEPT ![p] = l] /\ OthersKept(p) /\ Arrives(p, l)
    <3>1. CASE pc' = [pc EXCEPT ![p] = "lock"] /\ UNCHANGED holder
      BY <1>2, <2>1, <2>2, <2>4, <3>1, LockGained, Zenon
    <3>2. CASE pc' = [pc EXCEPT ![p] = "load"] /\ holder' = [holder EXCEPT ![0] = p]
      BY <1>2, <2>1, <2>2, <2>4, <3>2, LockGained, Zenon
    <3>3. QED
      BY <2>1, <3>1, <3>2
  <2>6. l \in LogPlaces
    BY <2>2
  <2>7. QED
    BY <1>0, <2>3, <2>5, <2>6, LogTypesKept, Zenon
<1>4. CASE Lock(p)
  <2>1. /\ UNCHANGED <<now, hits, file, entries, last, lockfn, fd, total, today, time>> /\ pc[p] = "lock"
        /\ holder[fd[p]] = Nil /\ holder' = [holder EXCEPT ![fd[p]] = p]
        /\ \/ Dbm /\ pc' = [pc EXCEPT ![p] = "load"]
           \/ ~Dbm /\ pc' = [pc EXCEPT ![p] = "select"]
    BY <1>4 DEF Lock, shared, Goto
  <2>2. PICK l \in {"load", "select"} : pc' = [pc EXCEPT ![p] = l] /\ l \in LogPlaces
    BY <2>1 DEF LogPlaces
  <2>3. l \in LogHolding /\ l \notin {"wipe", "replace", "newrow", "update"} /\ "lock" \notin LogHolding
    BY DEF LogHolding
  <2>4. LogData' /\ \A k \in Locks : holder'[k] = holder[k] \/ (holder'[k] = p /\ k = fd[p])
    BY <1>0, <1>1, <2>1 DEF LogData
  <2>5. OthersKept(p)
    BY <1>1, <2>1, <2>4 DEF OthersKept, LogData
  <2>6. \A k \in Locks : holder[k] # p
    BY <2>1, <2>3, LogTypesOf
  <2>7. Arrives(p, l)
    BY <2>1, <2>2, <2>3, <2>4, <2>6 DEF Arrives
  <2>8. QED
    BY <1>0, <2>2, <2>4, <2>5, <2>7, LogTypesKept, Zenon
<1>5. CASE Insert(p)
  <2>1. /\ UNCHANGED <<now, hits, file, last, lockfn, holder, fd>> /\ pc[p] = "insert"
        /\ time' = [time EXCEPT ![p] = now] /\ entries' = EntriesWith(now)
        /\ total' = [total EXCEPT ![p] = total[p] + 1] /\ today' = [today EXCEPT ![p] = today[p] + 1]
        /\ pc' = [pc EXCEPT ![p] = IF setup.store = "flat" THEN "wipe" ELSE "replace"]
    BY <1>5 DEF Insert, Goto, Count
  <2>2. entries' \subseteq Times \X Nat /\ IsFiniteSet(entries')
    BY <1>1, <2>1, NewEntry DEF LogData
  <2>3. total[p] + 1 \in Nat /\ today[p] + 1 \in Nat
    BY <1>1 DEF LogData
  <2>4. LogData'
    <3>1. /\ total' \in [Procs -> Nat \union {-1}] /\ today' \in [Procs -> Nat \union {-1}]
          /\ time' \in [Procs -> Times]
      BY <1>1, <2>1, <2>3 DEF LogData
    <3>2. QED
      BY <1>0, <1>1, <2>1, <2>2, <3>1 DEF LogData
  <2>5. /\ total'[p] >= 0 /\ today'[p] >= 0
        /\ \A q \in Procs \ {p} : total'[q] = total[q] /\ today'[q] = today[q]
    BY <1>1, <2>1, <2>3 DEF LogData
  <2>6. PICK l \in {"wipe", "replace"} : pc' = [pc EXCEPT ![p] = l]
    BY <2>1
  <2>7. l \in LogPlaces /\ l \in LogHolding
    <3>1. "insert" \in LogPlaces
      BY <1>1, <2>1
    <3>2. QED
      BY <3>1 DEF LogPlaces, LogHolding
  <2>8. OthersKept(p) /\ Arrives(p, l)
    BY <2>1, <2>5, <2>6, <2>7, LocksKept, Zenon
  <2>9. QED
    BY <1>0, <2>4, <2>6, <2>7, <2>8, LogTypesKept, Zenon
<1>6. CASE Wipe(p)
  <2>1. /\ UNCHANGED <<now, hits, file, entries, lockfn, holder, fd, total, today, time>>
        /\ last' = Nil /\ pc[p] = "wipe" /\ pc' = [pc EXCEPT ![p] = "replace"]
    BY <1>6 DEF Wipe, Goto
  <2>2. "replace" \in LogPlaces /\ "replace" \in LogHolding /\ "wipe" \in {"wipe", "replace", "newrow", "update"}
    <3>1. "wipe" \in LogPlaces
      BY <1>1, <2>1
    <3>2. QED
      BY <3>1 DEF LogPlaces, LogHolding
  <2>3. LogData'
    BY <1>0, <1>1, <2>1 DEF LogData
  <2>4. total'[p] >= 0 /\ today'[p] >= 0
    BY <2>1, LogTypesOf
  <2>5. OthersKept(p) /\ Arrives(p, "replace")
    BY <2>1, <2>2, <2>4, LocksKept, Zenon
  <2>6. QED
    BY <1>0, <2>1, <2>2, <2>3, <2>5, LogTypesKept, Zenon
<1>7. CASE Replace(p)
  <2>1. /\ UNCHANGED <<now, hits, file, entries, lockfn, total, today, time>> /\ pc[p] = "replace"
        /\ last' = [time |-> time[p], total |-> total[p], today |-> today[p]]
        /\ Release(p) /\ pc' = [pc EXCEPT ![p] = "idle"]
    BY <1>7 DEF Replace, Goto
  <2>2. "idle" \in LogPlaces /\ "idle" \notin {"wipe", "replace", "newrow", "update"}
    BY DEF LogPlaces
  <2>3. time[p] \in Times /\ total[p] \in Nat /\ today[p] \in Nat
    BY <1>1, <2>1, LogTypesOf DEF LogData
  <2>4. last' \in Record
    BY <2>1, <2>3, RecordType, Zenon
  <2>5. /\ OthersKept(p) /\ Arrives(p, "idle")
        /\ holder' \in [Locks -> Procs \union {Nil}] /\ fd' \in [Procs -> Locks \union {Nil}]
    BY <2>1, <2>2, LockReleased, Zenon
  <2>6. LogData'
    BY <1>0, <1>1, <2>1, <2>4, <2>5 DEF LogData
  <2>7. QED
    BY <1>0, <2>1, <2>2, <2>5, <2>6, LogTypesKept, Zenon
<1>8. CASE Kill(p)
  <2>1. /\ UNCHANGED <<now, hits, file, entries, last, lockfn, total, today, time>>
        /\ Release(p) /\ pc' = [pc EXCEPT ![p] = "idle"]
    BY <1>8 DEF Kill, Goto, shared
  <2>2. "idle" \in LogPlaces /\ "idle" \notin {"wipe", "replace", "newrow", "update"}
    BY DEF LogPlaces
  <2>3. /\ OthersKept(p) /\ Arrives(p, "idle")
        /\ holder' \in [Locks -> Procs \union {Nil}] /\ fd' \in [Procs -> Locks \union {Nil}]
    BY <2>1, <2>2, LockReleased, Zenon
  <2>4. LogData'
    BY <1>0, <1>1, <2>1, <2>3 DEF LogData
  <2>5. QED
    BY <1>0, <2>1, <2>2, <2>3, <2>4, LogTypesKept, Zenon
<1>9. QED
  BY <1>3, <1>4, <1>5, <1>6, <1>7, <1>8

(* A step of MsqlLog.                                                      *)
LEMMA LogTypesMsql ==
  ASSUME LogTypes, LogNext, NEW p \in Procs,
         \/ MsqlInsert(p) \/ LockFile(p) \/ Select(p)
         \/ NewRow(p) \/ Update(p) \/ Unlock(p) \/ Unlink(p)
  PROVE  LogTypes'
<1>0. setup' = setup
  BY LogSetupStays
<1>1. LogData /\ pc \in [Procs -> Labels] /\ pc[p] \in LogPlaces /\ LogTypeOK
  BY LogTypesOf
<1>2. now \in Times /\ time[p] \in Times
  BY <1>1 DEF LogData
<1>3. ASSUME ~Dbm
      PROVE  {"lockfile", "lock", "select", "newrow", "update", "unlock", "unlink", "idle"} \subseteq LogPlaces
  BY <1>3 DEF LogPlaces
<1>4. /\ "page" \notin LogHolding /\ "lockfile" \notin LogHolding /\ "unlink" \notin LogHolding
      /\ {"select", "newrow", "update", "unlock"} \subseteq LogHolding
  BY DEF LogHolding
<1>5. CASE MsqlInsert(p)
  <2>1. /\ UNCHANGED <<now, hits, file, last, lockfn, holder, fd, total, today>> /\ pc[p] = "page" /\ ~Dbm
        /\ time' = [time EXCEPT ![p] = now] /\ entries' = EntriesWith(now)
        /\ pc' = [pc EXCEPT ![p] = "lockfile"]
    BY <1>5 DEF MsqlInsert, Goto
  <2>2. entries' \subseteq Times \X Nat /\ IsFiniteSet(entries')
    BY <1>2, <2>1, NewEntry
  <2>3. LogData'
    BY <1>0, <1>1, <2>1, <2>2 DEF LogData
  <2>4. "lockfile" \in LogPlaces /\ "lockfile" \notin {"wipe", "replace", "newrow", "update"}
    BY <1>3, <2>1
  <2>5. OthersKept(p) /\ Arrives(p, "lockfile")
    BY <1>4, <2>1, <2>4, LocksKept, Zenon
  <2>6. QED
    BY <1>0, <2>1, <2>3, <2>4, <2>5, LogTypesKept, Zenon
<1>6. CASE LockFile(p)
  <2>1. /\ UNCHANGED <<now, hits, file, entries, last, holder, total, today, time>> /\ pc[p] = "lockfile"
        /\ pc' = [pc EXCEPT ![p] = "lock"]
    BY <1>6 DEF LockFile, Goto, shared
  <2>2. PICK m \in Locks : lockfn' = m /\ fd' = [fd EXCEPT ![p] = m]
    BY <1>6 DEF LockFile
  <2>3. LogData'
    BY <1>0, <1>1, <2>1, <2>2 DEF LogData
  <2>4. "lock" \in LogPlaces /\ "lock" \notin {"wipe", "replace", "newrow", "update"}
    BY DEF LogPlaces
  <2>5. \A q \in Procs \ {p} : total'[q] = total[q] /\ today'[q] = today[q]
    BY <2>1
  <2>6. OthersKept(p) /\ Arrives(p, "lock")
    BY <1>4, <2>1, <2>2, <2>4, <2>5, LockGained, Zenon
  <2>7. QED
    BY <1>0, <2>1, <2>3, <2>4, <2>6, LogTypesKept, Zenon
<1>7. CASE Select(p)
  <2>1. UNCHANGED <<now, hits, file, entries, last, lockfn, holder, fd, time>> /\ pc[p] = "select"
    BY <1>7 DEF Select, shared
  <2>2. ~Dbm
    BY <1>1, <2>1 DEF LogPlaces
  <2>3. /\ total' \in [Procs -> Nat \union {-1}] /\ today' \in [Procs -> Nat \union {-1}]
        /\ total'[p] \in Nat /\ today'[p] \in Nat
        /\ \A q \in Procs \ {p} : total'[q] = total[q] /\ today'[q] = today[q]
    <3>1. CASE last # Nil
      <4>1. CountFrom(p, last, time[p])
        BY <1>7, <3>1 DEF Select
      <4>2. QED
        BY <1>1, <1>2, <3>1, <4>1, CountFromType
    <3>2. CASE last = Nil
      <4>1. total' = [total EXCEPT ![p] = 0] /\ today' = [today EXCEPT ![p] = 0]
        BY <1>7, <3>2 DEF Select, Count
      <4>2. QED
        BY <1>1, <4>1 DEF LogData
    <3>3. QED
      BY <3>1, <3>2
  <2>4. LogData'
    BY <1>0, <1>1, <2>1, <2>3 DEF LogData
  <2>5. PICK l \in {"update", "newrow"} : pc' = [pc EXCEPT ![p] = l]
    BY <1>7 DEF Select, Goto
  <2>6. l \in LogPlaces /\ l \in LogHolding
    BY <1>3, <1>4, <2>2
  <2>7. total'[p] >= 0 /\ today'[p] >= 0
    BY <2>3
  <2>8. OthersKept(p) /\ Arrives(p, l)
    BY <2>1, <2>3, <2>5, <2>6, <2>7, LocksKept, Zenon
  <2>9. QED
    BY <1>0, <2>4, <2>5, <2>6, <2>8, LogTypesKept, Zenon
<1>8. CASE NewRow(p)
  <2>1. /\ UNCHANGED <<now, hits, file, entries, lockfn, holder, fd, total, today, time>> /\ pc[p] = "newrow"
        /\ last' = IF last = Nil THEN [time |-> time[p], total |-> 0, today |-> 0] ELSE last
        /\ pc' = [pc EXCEPT ![p] = "update"]
    BY <1>8 DEF NewRow, Goto
  <2>2. "update" \in LogPlaces /\ "update" \in LogHolding
    <3>1. ~Dbm
      BY <1>1, <2>1 DEF LogPlaces
    <3>2. QED
      BY <1>3, <1>4, <3>1
  <2>3. total'[p] >= 0 /\ today'[p] >= 0
    BY <2>1, LogTypesOf
  <2>4. [time |-> time[p], total |-> 0, today |-> 0] \in Record
    BY <1>2, RecordType
  <2>5. last' \in Record \union {Nil}
    BY <1>1, <2>1, <2>4 DEF LogData
  <2>6. LogData'
    BY <1>0, <1>1, <2>1, <2>5 DEF LogData
  <2>7. OthersKept(p) /\ Arrives(p, "update")
    BY <2>1, <2>2, <2>3, LocksKept, Zenon
  <2>8. QED
    BY <1>0, <2>1, <2>2, <2>6, <2>7, LogTypesKept, Zenon
<1>9. CASE Update(p)
  <2>1. /\ UNCHANGED <<now, hits, file, entries, lockfn, holder, fd, time>> /\ pc[p] = "update"
        /\ total' = [total EXCEPT ![p] = total[p] + 1] /\ today' = [today EXCEPT ![p] = today[p] + 1]
        /\ last' = [time |-> time[p], total |-> total[p] + 1, today |-> today[p] + 1]
        /\ pc' = [pc EXCEPT ![p] = "unlock"]
    BY <1>9 DEF Update, Goto, Count
  <2>2. "unlock" \in LogPlaces /\ "unlock" \in LogHolding /\ "unlock" \notin {"wipe", "replace", "newrow", "update"}
    <3>1. ~Dbm
      BY <1>1, <2>1 DEF LogPlaces
    <3>2. QED
      BY <1>3, <1>4, <3>1
  <2>3. total[p] + 1 \in Nat /\ today[p] + 1 \in Nat
    BY <1>1 DEF LogData
  <2>4. last' \in Record
    BY <1>2, <2>1, <2>3, RecordType, Zenon
  <2>5. /\ total' \in [Procs -> Nat \union {-1}] /\ today' \in [Procs -> Nat \union {-1}]
        /\ \A q \in Procs \ {p} : total'[q] = total[q] /\ today'[q] = today[q]
    BY <1>1, <2>1, <2>3 DEF LogData
  <2>6. LogData'
    BY <1>0, <1>1, <2>1, <2>4, <2>5 DEF LogData
  <2>7. OthersKept(p) /\ Arrives(p, "unlock")
    BY <2>1, <2>2, <2>5, LocksKept, Zenon
  <2>8. QED
    BY <1>0, <2>1, <2>2, <2>6, <2>7, LogTypesKept, Zenon
<1>10. CASE Unlock(p)
  <2>1. /\ UNCHANGED <<now, hits, file, entries, last, lockfn, total, today, time>> /\ pc[p] = "unlock"
        /\ Release(p) /\ pc' = [pc EXCEPT ![p] = "unlink"]
    BY <1>10 DEF Unlock, Goto, shared
  <2>2. "unlink" \in LogPlaces /\ "unlink" \notin {"wipe", "replace", "newrow", "update"}
    <3>1. ~Dbm
      BY <1>1, <2>1 DEF LogPlaces
    <3>2. QED
      BY <1>3, <3>1
  <2>3. /\ OthersKept(p) /\ Arrives(p, "unlink")
        /\ holder' \in [Locks -> Procs \union {Nil}] /\ fd' \in [Procs -> Locks \union {Nil}]
    BY <2>1, <2>2, LockReleased, Zenon
  <2>4. LogData'
    BY <1>0, <1>1, <2>1, <2>3 DEF LogData
  <2>5. QED
    BY <1>0, <2>1, <2>2, <2>3, <2>4, LogTypesKept, Zenon
<1>11. CASE Unlink(p)
  <2>1. /\ UNCHANGED <<now, hits, file, entries, last, holder, fd, total, today, time>> /\ pc[p] = "unlink"
        /\ lockfn' = Nil /\ pc' = [pc EXCEPT ![p] = "idle"]
    BY <1>11 DEF Unlink, Goto, shared
  <2>2. "idle" \in LogPlaces /\ "idle" \notin {"wipe", "replace", "newrow", "update"}
    BY DEF LogPlaces
  <2>3. LogData'
    BY <1>0, <1>1, <2>1 DEF LogData
  <2>4. OthersKept(p) /\ Arrives(p, "idle")
    BY <1>4, <2>1, <2>2, LocksKept, Zenon
  <2>5. QED
    BY <1>0, <2>1, <2>2, <2>3, <2>4, LogTypesKept, Zenon
<1>12. QED
  BY <1>5, <1>6, <1>7, <1>8, <1>9, <1>10, <1>11

(* The clock.                                                              *)
LEMMA LogTypesTick ==
  ASSUME LogTypes, Tick
  PROVE  LogTypes'
<1>1. /\ UNCHANGED <<setup, hits, file, entries, last, lockfn, holder, fd, total, today, time, pc>>
      /\ now < MaxTime /\ now' = now + 1
  BY DEF Tick, shared
<1>2. now' \in Times
  BY <1>1, LogConstants, LogTypesOf DEF LogData, Times
<1>3. LogPlaces' = LogPlaces
  BY <1>1 DEF LogPlaces, Dbm
<1>4. QED
  BY <1>1, <1>2, <1>3 DEF LogTypes, LogTypeOK

(* Which step it is.                                                       *)
LEMMA LogSteps ==
  ASSUME LogNext
  PROVE  \/ Tick
         \/ \E p \in Procs :
              \/ StartPage(p) \/ Ask(p) \/ AskRead(p) \/ LogOpen(p) \/ CreateFails(p) \/ Load(p)
              \/ Create(p) \/ Lock(p) \/ Insert(p) \/ Wipe(p) \/ Replace(p) \/ Kill(p)
              \/ MsqlInsert(p) \/ LockFile(p) \/ Select(p)
              \/ NewRow(p) \/ Update(p) \/ Unlock(p) \/ Unlink(p)
BY DEF LogNext, Logging

LEMMA LogTypesStep ==
  ASSUME LogTypes, [LogNext]_logVars
  PROVE  LogTypes'
<1>1. CASE LogNext
  BY <1>1, LogSteps, LogTypesPage, LogTypesDbm, LogTypesMsql, LogTypesTick, Zenon
<1>2. CASE UNCHANGED logVars
  <2>1. UNCHANGED <<setup, now, file, entries, last, holder, lockfn, hits, pc, fd, total, today, time>>
    BY <1>2 DEF logVars, shared
  <2>2. LogPlaces' = LogPlaces
    BY <2>1 DEF LogPlaces, Dbm
  <2>3. QED
    BY <2>1, <2>2 DEF LogTypes, LogTypeOK
<1>3. QED
  BY <1>1, <1>2

-----------------------------------------------------------------------------
(* What is counted is in the log. *)

(* How many owe an entry, as a process goes from one place to another.     *)
LEMMA OwedMoves ==
  ASSUME LogTypes, setup' = setup, NEW p \in Procs, NEW l, pc' = [pc EXCEPT ![p] = l]
  PROVE  /\ Cardinality(Owed) \in Nat /\ Cardinality(Owed') \in Nat
         /\ Dbm => Cardinality(Owed) = 0 /\ Cardinality(Owed') = 0
         /\ (pc[p] \in InDebt <=> l \in InDebt) => Cardinality(Owed') = Cardinality(Owed)
         /\ l \notin InDebt => Cardinality(Owed') <= Cardinality(Owed)
         /\ ~Dbm /\ pc[p] \in InDebt /\ l \notin InDebt => Cardinality(Owed') = Cardinality(Owed) - 1
         /\ ~Dbm /\ pc[p] \notin InDebt /\ l \in InDebt => Cardinality(Owed') = Cardinality(Owed) + 1
<1>1. Dbm' <=> Dbm
  BY DEF Dbm
<1>2. pc'[p] = l /\ \A q \in Procs \ {p} : pc'[q] = pc[q]
  BY LogTypesOf
<1>3. CASE Dbm
  <2>1. Owed = {} /\ Owed' = {}
    BY <1>1, <1>3 DEF Owed
  <2>2. Cardinality(Owed) = 0 /\ Cardinality(Owed') = 0
    BY <2>1, FS_EmptySet
  <2>3. QED
    BY <1>3, <2>2
<1>4. CASE ~Dbm
  <2>1. Owed = {q \in Procs : pc[q] \in InDebt} /\ Owed' = {q \in Procs : pc'[q] \in InDebt}
    BY <1>1, <1>4 DEF Owed
  <2>2. IsFiniteSet(Owed) /\ IsFiniteSet(Owed') /\ Cardinality(Owed) \in Nat /\ Cardinality(Owed') \in Nat
    BY <2>1, LogConstants, FS_Subset, FS_CardinalityType
  <2>3. CASE pc[p] \in InDebt <=> l \in InDebt
    <3>1. Owed' = Owed
      BY <1>2, <2>1, <2>3
    <3>2. Cardinality(Owed') = Cardinality(Owed)
      BY <3>1
    <3>3. QED
      BY <1>4, <2>2, <2>3, <3>2
  <2>4. CASE pc[p] \in InDebt /\ l \notin InDebt
    <3>1. Owed' = Owed \ {p} /\ p \in Owed
      BY <1>2, <2>1, <2>4
    <3>2. Cardinality(Owed') = Cardinality(Owed) - 1
      BY <2>2, <3>1, FS_RemoveElement
    <3>3. QED
      BY <1>4, <2>2, <2>4, <3>2
  <2>5. CASE pc[p] \notin InDebt /\ l \in InDebt
    <3>1. Owed' = Owed \union {p} /\ p \notin Owed
      BY <1>2, <2>1, <2>5
    <3>2. Cardinality(Owed') = Cardinality(Owed) + 1
      BY <2>2, <3>1, FS_AddElement
    <3>3. QED
      BY <1>4, <2>2, <2>5, <3>2
  <2>6. QED
    BY <2>3, <2>4, <2>5
<1>5. QED
  BY <1>3, <1>4

(* What is known of the numbers that are compared.                         *)
LEMMA LogNumbers ==
  ASSUME LogTypes
  PROVE  /\ Cardinality(entries) \in Nat
         /\ \A q \in Procs : total[q] \in Nat \union {-1}
         /\ last # Nil => last.total \in Nat
<1>1. IsFiniteSet(entries) /\ total \in [Procs -> Nat \union {-1}] /\ last \in Record \union {Nil}
  BY LogTypesOf DEF LogData
<1>2. QED
  BY <1>1, FS_CardinalityType DEF Record

LEMMA OwedType == IsFiniteSet(Owed) /\ Cardinality(Owed) \in Nat
<1>1. Owed \subseteq Procs /\ IsFiniteSet(Procs)
  BY LogConstants DEF Owed
<1>2. QED
  BY <1>1, FS_Subset, FS_CardinalityType

(* What a step needs so that no more is counted than there is: it may owe  *)
(* an entry only with the entry.                                           *)
LEMMA AheadKept ==
  ASSUME LogTypes, LogTypes', AheadInv, setup' = setup, Counting,
         NEW p \in Procs, NEW l, pc' = [pc EXCEPT ![p] = l], \A q \in Procs \ {p} : total'[q] = total[q],
         Dbm => file' = TRUE /\ l # "create",
         Dense',
         Cardinality(Owed') + Cardinality(entries) <= Cardinality(Owed) + Cardinality(entries'),
         last' # Nil => last'.total + Cardinality(Owed') <= Cardinality(entries'),
         Dbm \/ l \in {"newrow", "update"} => total'[p] + Cardinality(Owed') <= Cardinality(entries')
  PROVE  AheadInv'
<1>1. (Dbm' <=> Dbm) /\ Counting'
  BY DEF Dbm, Counting
<1>2. pc'[p] = l /\ \A q \in Procs \ {p} : pc'[q] = pc[q] /\ total'[q] = total[q]
  BY LogTypesOf
<1>3. /\ Cardinality(entries) \in Nat /\ Cardinality(entries') \in Nat
      /\ Cardinality(Owed) \in Nat /\ Cardinality(Owed') \in Nat
      /\ \A q \in Procs : total[q] \in Nat \union {-1}
  <2>1. Cardinality(entries') \in Nat
    BY FS_CardinalityType DEF LogTypes
  <2>2. QED
    BY <2>1, LogNumbers, OwedMoves
<1>4. Dbm => file' = TRUE /\ \A q \in Procs : pc'[q] # "create"
  BY <1>2 DEF AheadInv
<1>5. Cardinality(Owed') <= Cardinality(entries')
  <2>1. Cardinality(Owed) <= Cardinality(entries)
    BY DEF AheadInv
  <2>2. QED
    BY <1>3, <2>1
<1>6. ASSUME NEW q \in Procs, Dbm \/ pc'[q] \in {"newrow", "update"}
      PROVE  total'[q] + Cardinality(Owed') <= Cardinality(entries')
  <2>1. CASE q = p
    BY <1>2, <1>6, <2>1
  <2>2. CASE q # p
    <3>1. total'[q] = total[q] /\ (Dbm \/ pc[q] \in {"newrow", "update"})
      BY <1>2, <1>6, <2>2
    <3>2. total[q] + Cardinality(Owed) <= Cardinality(entries)
      BY <3>1 DEF AheadInv
    <3>3. total[q] \in Int
      BY <1>3
    <3>4. QED
      BY <1>3, <3>1, <3>2, <3>3
  <2>3. QED
    BY <2>1, <2>2
<1>7. QED
  BY <1>1, <1>4, <1>5, <1>6 DEF AheadInv

(* A step that leaves the log alone, and owes no more than before.         *)
LEMMA AheadIdle ==
  ASSUME LogTypes, LogTypes', AheadInv, setup' = setup, Counting,
         NEW p \in Procs, NEW l, pc' = [pc EXCEPT ![p] = l], \A q \in Procs \ {p} : total'[q] = total[q],
         UNCHANGED <<file, entries, last>>,
         Dbm => l # "create",
         l \in InDebt => Dbm \/ pc[p] \in InDebt,
         Dbm \/ l \in {"newrow", "update"} =>
           \/ total'[p] <= 0
           \/ total'[p] = total[p] /\ (Dbm \/ pc[p] = "newrow")
           \/ last # Nil /\ total'[p] = last.total
  PROVE  AheadInv'
<1> DEFINE N == Cardinality(entries)
           W == Cardinality(Owed)
           V == Cardinality(Owed')
<1>1. N \in Nat /\ W \in Nat /\ V \in Nat /\ V <= W /\ \A q \in Procs : total[q] \in Nat \union {-1}
  <2>1. /\ W \in Nat /\ V \in Nat /\ (Dbm => W = 0 /\ V = 0)
        /\ (pc[p] \in InDebt <=> l \in InDebt) => V = W
        /\ l \notin InDebt => V <= W
    BY OwedMoves, Zenon
  <2> HIDE DEF W, V
  <2>2. V <= W
    <3>1. CASE l \in InDebt /\ pc[p] \in InDebt
      BY <2>1, <3>1
    <3>2. CASE l \notin InDebt
      BY <2>1, <3>2
    <3>3. CASE Dbm
      BY <2>1, <3>3
    <3>4. QED
      BY <3>1, <3>2, <3>3
  <2>3. QED
    BY <2>1, <2>2, LogNumbers DEF N
<1>2. Cardinality(entries') = N
  OBVIOUS
<1>3. /\ Dbm => file = TRUE /\ \A q \in Procs : pc[q] # "create"
      /\ Dense /\ W <= N /\ (last # Nil => last.total + W <= N)
      /\ Dbm \/ pc[p] \in {"newrow", "update"} => total[p] + W <= N
  BY DEF AheadInv
<1>4. last # Nil => last.total \in Nat
  BY LogNumbers
<1>5. Dense'
  BY <1>3 DEF Dense
<1>6. total'[p] \in Int
  BY LogTypesOf DEF LogTypes, LogTypeOK
<1> HIDE DEF N, W, V
<1>7. last' # Nil => last'.total + V <= N
  BY <1>1, <1>3, <1>4
<1>8. Dbm \/ l \in {"newrow", "update"} => total'[p] + V <= N
  <2>1. CASE total'[p] <= 0
    BY <1>1, <1>3, <1>6, <2>1
  <2>2. CASE total'[p] = total[p] /\ (Dbm \/ pc[p] = "newrow")
    BY <1>1, <1>3, <1>6, <2>2
  <2>3. CASE last # Nil /\ total'[p] = last.total
    BY <1>1, <1>3, <1>4, <2>3
  <2>4. QED
    BY <2>1, <2>2, <2>3
<1>9. V + N <= W + N
  BY <1>1
<1>10. QED
  BY <1>2, <1>3, <1>5, <1>7, <1>8, <1>9, AheadKept DEF N, W, V

(* A step of the page, or of Log until the entry is inserted.              *)
LEMMA AheadPage ==
  ASSUME LogTypes, LogTypes', AheadInv, setup' = setup, Counting, NEW p \in Procs,
         \/ StartPage(p) \/ Ask(p) \/ AskRead(p) \/ LogOpen(p) \/ CreateFails(p)
         \/ Load(p) \/ Lock(p)
  PROVE  AheadInv'
<1>1. LogData /\ pc \in [Procs -> Labels] /\ pc[p] \in LogPlaces /\ LogTypeOK
  BY LogTypesOf
<1>2. total \in [Procs -> Nat \union {-1}]
  BY <1>1 DEF LogData
<1>3. CASE StartPage(p)
  <2>1. pc' = [pc EXCEPT ![p] = "page"] /\ total' = [total EXCEPT ![p] = -1] /\ UNCHANGED <<file, entries, last>>
    BY <1>3 DEF StartPage, Goto, Count, shared
  <2>2. total'[p] <= 0 /\ \A q \in Procs \ {p} : total'[q] = total[q]
    BY <1>2, <2>1
  <2>3. "page" \notin InDebt /\ "page" # "create"
    BY DEF InDebt
  <2>4. QED
    BY <2>1, <2>2, <2>3, AheadIdle, Zenon
<1>4. CASE Ask(p)
  <2>1. /\ UNCHANGED <<file, entries, last>> /\ pc[p] = "page" /\ Dbm
        /\ \/ pc' = [pc EXCEPT ![p] = "reading"] /\ total' = total
           \/ pc' = pc /\ total' = [total EXCEPT ![p] = 0]
    BY <1>4 DEF Ask, Count, shared, Goto
  <2>2. PICK l \in {"page", "reading"} : pc' = [pc EXCEPT ![p] = l]
    BY <1>1, <2>1
  <2>3. (total'[p] <= 0 \/ total'[p] = total[p]) /\ \A q \in Procs \ {p} : total'[q] = total[q]
    BY <1>2, <2>1
  <2>4. l \notin InDebt /\ l # "create"
    BY DEF InDebt
  <2>5. QED
    BY <2>1, <2>2, <2>3, <2>4, AheadIdle, Zenon
<1>5. CASE AskRead(p)
  <2>1. /\ UNCHANGED <<file, entries, last>> /\ pc' = [pc EXCEPT ![p] = "page"] /\ pc[p] = "reading"
        /\ LoadLastInfo(p) \/ total' = [total EXCEPT ![p] = 0]
    BY <1>5 DEF AskRead, Count, shared, Goto
  <2>2. /\ total'[p] <= 0 \/ total'[p] = total[p] \/ (last # Nil /\ total'[p] = last.total)
        /\ \A q \in Procs \ {p} : total'[q] = total[q]
    BY <1>1, <1>2, <2>1, LoadType
  <2>3. Dbm
    BY <1>1, <2>1 DEF LogPlaces
  <2>4. "page" \notin InDebt /\ "page" # "create"
    BY DEF InDebt
  <2>5. QED
    BY <2>1, <2>2, <2>3, <2>4, AheadIdle, Zenon
<1>6. CASE LogOpen(p)
  <2>1. file = TRUE /\ setup.store # "gdbm" /\ Dbm
    BY <1>6 DEF LogOpen, AheadInv, Counting, Dbm
  <2>2. UNCHANGED <<file, entries, last, total>> /\ pc' = [pc EXCEPT ![p] = "lock"]
    BY <1>6, <2>1 DEF LogOpen, Goto, Opened, shared
  <2>3. "lock" # "create"
    OBVIOUS
  <2>4. QED
    BY <2>1, <2>2, <2>3, AheadIdle, Zenon
<1>7. CASE CreateFails(p)
  <2>1. UNCHANGED <<file, entries, last, total>> /\ pc' = [pc EXCEPT ![p] = "idle"] /\ pc[p] = "create"
    BY <1>7 DEF CreateFails, Goto, shared
  <2>2. Dbm
    BY <1>1, <2>1 DEF LogPlaces
  <2>3. "idle" \notin InDebt /\ "idle" # "create"
    BY DEF InDebt
  <2>4. QED
    BY <2>1, <2>2, <2>3, AheadIdle, Zenon
<1>8. CASE Load(p)
  <2>1. /\ UNCHANGED <<file, entries, last>> /\ pc' = [pc EXCEPT ![p] = "insert"] /\ pc[p] = "load"
        /\ LoadLastInfo(p) \/ total' = total
    BY <1>8 DEF Load, Goto, shared
  <2>2. /\ total'[p] = total[p] \/ (last # Nil /\ total'[p] = last.total)
        /\ \A q \in Procs \ {p} : total'[q] = total[q]
    BY <1>1, <1>2, <2>1, LoadType
  <2>3. Dbm
    BY <1>1, <2>1 DEF LogPlaces
  <2>4. "insert" \notin InDebt /\ "insert" # "create"
    BY DEF InDebt
  <2>5. QED
    BY <2>1, <2>2, <2>3, <2>4, AheadIdle, Zenon
<1>9. CASE Lock(p)
  <2>1. /\ UNCHANGED <<file, entries, last, total>> /\ pc[p] = "lock"
        /\ \/ Dbm /\ pc' = [pc EXCEPT ![p] = "load"]
           \/ ~Dbm /\ pc' = [pc EXCEPT ![p] = "select"]
    BY <1>9 DEF Lock, Goto, shared
  <2>2. PICK l \in {"load", "select"} : pc' = [pc EXCEPT ![p] = l]
    BY <2>1
  <2>3. "lock" \in InDebt /\ l # "create" /\ l \notin {"newrow", "update"}
    BY DEF InDebt
  <2>4. QED
    BY <2>1, <2>2, <2>3, AheadIdle, Zenon
<1>10. QED
  BY <1>3, <1>4, <1>5, <1>6, <1>7, <1>8, <1>9

(* A step of Log that writes, and of a process that is killed.             *)
LEMMA AheadDbm ==
  ASSUME LogTypes, LogTypes', AheadInv, setup' = setup, Counting, NEW p \in Procs,
         Create(p) \/ Insert(p) \/ Wipe(p) \/ Replace(p) \/ Kill(p)
  PROVE  AheadInv'
<1> DEFINE N == Cardinality(entries)
           M == Cardinality(entries')
           W == Cardinality(Owed)
           V == Cardinality(Owed')
<1>1. LogData /\ pc \in [Procs -> Labels] /\ pc[p] \in LogPlaces /\ LogTypeOK
  BY LogTypesOf
<1>2. total \in [Procs -> Nat \union {-1}] /\ N \in Nat /\ W \in Nat
  BY <1>1, LogNumbers, OwedType DEF LogData
<1>3. /\ Dbm => file = TRUE /\ setup.store # "gdbm" /\ \A q \in Procs : pc[q] # "create"
      /\ Dense /\ W <= N /\ (last # Nil => last.total + W <= N)
      /\ Dbm => total[p] + W <= N
  BY DEF AheadInv, Counting
<1>4. CASE Create(p)
  <2>1. pc[p] = "create"
    BY <1>4 DEF Create
  <2>2. Dbm
    BY <1>1, <2>1 DEF LogPlaces
  <2>3. QED
    BY <1>3, <2>1, <2>2
<1>5. CASE Insert(p)
  <2>1. /\ UNCHANGED <<file, last>> /\ pc[p] = "insert" /\ now \in Times
        /\ entries' = EntriesWith(now) /\ total' = [total EXCEPT ![p] = total[p] + 1]
        /\ pc' = [pc EXCEPT ![p] = IF setup.store = "flat" THEN "wipe" ELSE "replace"]
    BY <1>1, <1>5 DEF Insert, Goto, Count, LogData
  <2>2. PICK l \in {"wipe", "replace"} : pc' = [pc EXCEPT ![p] = l]
    BY <2>1
  <2>3. Dbm
    BY <1>1, <2>1 DEF LogPlaces
  <2>4. Dense' /\ M = N + 1
    BY <1>3, <2>1, <2>3, NewEntry
  <2>5. W = 0 /\ V = 0
    BY <2>2, <2>3, OwedMoves
  <2>6. total'[p] = total[p] + 1 /\ \A q \in Procs \ {p} : total'[q] = total[q]
    BY <1>2, <2>1
  <2>7. last # Nil => last.total \in Nat
    BY LogNumbers
  <2> HIDE DEF N, M, W, V
  <2>8. /\ V + N <= W + M
        /\ last' # Nil => last'.total + V <= M
        /\ total'[p] + V <= M
    BY <1>2, <1>3, <2>1, <2>3, <2>4, <2>5, <2>6, <2>7
  <2>9. file' = TRUE /\ l # "create"
    BY <1>3, <2>1, <2>3
  <2>10. QED
    BY <2>2, <2>4, <2>6, <2>8, <2>9, AheadKept, Zenon DEF N, M, W, V
<1>6. CASE Wipe(p)
  <2>1. /\ UNCHANGED <<file, entries, total>> /\ pc[p] = "wipe" /\ last' = Nil
        /\ pc' = [pc EXCEPT ![p] = "replace"]
    BY <1>6 DEF Wipe, Goto
  <2>2. Dbm
    BY <1>1, <2>1 DEF LogPlaces
  <2>3. W = 0 /\ V = 0 /\ M = N
    BY <2>1, <2>2, OwedMoves
  <2>4. Dense'
    BY <1>3, <2>1 DEF Dense
  <2> HIDE DEF N, M, W, V
  <2>5. V + N <= W + M /\ total'[p] + V <= M
    BY <1>2, <1>3, <2>1, <2>2, <2>3
  <2>6. file' = TRUE /\ "replace" # "create" /\ last' = Nil
    BY <1>3, <2>1, <2>2
  <2>7. \A q \in Procs \ {p} : total'[q] = total[q]
    BY <2>1
  <2>8. QED
    BY <2>1, <2>4, <2>5, <2>6, <2>7, AheadKept, Zenon DEF N, M, W, V
<1>7. CASE Replace(p)
  <2>1. /\ UNCHANGED <<file, entries, total>> /\ pc[p] = "replace"
        /\ last' = [time |-> time[p], total |-> total[p], today |-> today[p]]
        /\ pc' = [pc EXCEPT ![p] = "idle"]
    BY <1>7 DEF Replace, Goto
  <2>2. Dbm
    BY <1>1, <2>1 DEF LogPlaces
  <2>3. W = 0 /\ V = 0 /\ M = N
    BY <2>1, <2>2, OwedMoves
  <2>4. Dense'
    BY <1>3, <2>1 DEF Dense
  <2>5. last'.total = total[p]
    BY <2>1
  <2> HIDE DEF N, M, W, V
  <2>6. V + N <= W + M /\ total'[p] + V <= M /\ last'.total + V <= M
    BY <1>2, <1>3, <2>1, <2>2, <2>3, <2>5
  <2>7. file' = TRUE /\ "idle" # "create"
    BY <1>3, <2>1, <2>2
  <2>8. \A q \in Procs \ {p} : total'[q] = total[q]
    BY <2>1
  <2>9. QED
    BY <2>1, <2>4, <2>6, <2>7, <2>8, AheadKept, Zenon DEF N, M, W, V
<1>8. CASE Kill(p)
  <2>1. UNCHANGED <<file, entries, last, total>> /\ pc' = [pc EXCEPT ![p] = "idle"]
    BY <1>8 DEF Kill, Goto, shared
  <2>2. "idle" \notin InDebt /\ "idle" # "create" /\ "idle" \notin {"newrow", "update"}
    BY DEF InDebt
  <2>3. \A q \in Procs : total'[q] = total[q]
    BY <2>1
  <2>4. QED
    BY <2>1, <2>2, <2>3, AheadIdle, Zenon
<1>9. QED
  BY <1>4, <1>5, <1>6, <1>7, <1>8

(* A step of MsqlLog.                                                      *)
LEMMA AheadMsql ==
  ASSUME LogTypes, LogTypes', AheadInv, setup' = setup, Counting, NEW p \in Procs,
         \/ MsqlInsert(p) \/ LockFile(p) \/ Select(p)
         \/ NewRow(p) \/ Update(p) \/ Unlock(p) \/ Unlink(p)
  PROVE  AheadInv'
<1> DEFINE N == Cardinality(entries)
           M == Cardinality(entries')
           W == Cardinality(Owed)
           V == Cardinality(Owed')
<1>1. LogData /\ pc \in [Procs -> Labels] /\ pc[p] \in LogPlaces /\ LogTypeOK
  BY LogTypesOf
<1>2. /\ total \in [Procs -> Nat \union {-1}] /\ N \in Nat /\ W \in Nat
      /\ now \in Times /\ time[p] \in Times
  BY <1>1, LogNumbers, OwedType DEF LogData
<1>3. /\ Dense /\ W <= N /\ (last # Nil => last.total + W <= N)
      /\ pc[p] \in {"newrow", "update"} => total[p] + W <= N
  BY DEF AheadInv
<1>4. last # Nil => last.total \in Nat
  BY LogNumbers
<1>5. ~Dbm
  <2>1. CASE MsqlInsert(p)
    BY <2>1 DEF MsqlInsert
  <2>2. CASE pc[p] \in {"lockfile", "select", "newrow", "update", "unlock", "unlink"}
    BY <1>1, <2>2 DEF LogPlaces
  <2>3. QED
    BY <2>1, <2>2 DEF LockFile, Select, NewRow, Update, Unlock, Unlink
<1>6. /\ {"lockfile", "lock", "select", "newrow", "update"} \subseteq InDebt
      /\ "unlock" \notin InDebt /\ "unlink" \notin InDebt /\ "idle" \notin InDebt /\ "page" \notin InDebt
  BY DEF InDebt
<1>7. CASE MsqlInsert(p)
  <2>1. /\ UNCHANGED <<file, last, total>> /\ pc[p] = "page" /\ entries' = EntriesWith(now)
        /\ pc' = [pc EXCEPT ![p] = "lockfile"]
    BY <1>7 DEF MsqlInsert, Goto
  <2>2. Dense' /\ M = N + 1
    BY <1>2, <1>3, <1>5, <2>1, NewEntry DEF Dbm
  <2>3. V = W + 1
    BY <1>5, <1>6, <2>1, OwedMoves
  <2> HIDE DEF N, M, W, V
  <2>4. V + N <= W + M /\ (last' # Nil => last'.total + V <= M)
    BY <1>2, <1>3, <1>4, <2>1, <2>2, <2>3
  <2>5. "lockfile" \notin {"newrow", "update"} /\ \A q \in Procs \ {p} : total'[q] = total[q]
    BY <2>1
  <2>6. QED
    BY <1>5, <2>1, <2>2, <2>4, <2>5, AheadKept, Zenon DEF N, M, W, V
<1>8. CASE LockFile(p)
  <2>1. UNCHANGED <<file, entries, last, total>> /\ pc[p] = "lockfile" /\ pc' = [pc EXCEPT ![p] = "lock"]
    BY <1>8 DEF LockFile, Goto, shared
  <2>2. "lock" \notin {"newrow", "update"} /\ "lockfile" \in InDebt /\ \A q \in Procs \ {p} : total'[q] = total[q]
    BY <1>6, <2>1
  <2>3. QED
    BY <1>5, <2>1, <2>2, AheadIdle, Zenon
<1>9. CASE Select(p)
  <2>1. UNCHANGED <<file, entries, last>> /\ pc[p] = "select"
    BY <1>9 DEF Select, shared
  <2>2. PICK l \in {"update", "newrow"} : pc' = [pc EXCEPT ![p] = l]
    BY <1>9 DEF Select, Goto
  <2>3. /\ total'[p] <= 0 \/ (last # Nil /\ total'[p] = last.total)
        /\ \A q \in Procs \ {p} : total'[q] = total[q]
    <3>1. CASE last # Nil
      <4>1. CountFrom(p, last, time[p])
        BY <1>9, <3>1 DEF Select
      <4>2. QED
        BY <1>1, <1>2, <3>1, <4>1, CountFromType
    <3>2. CASE last = Nil
      BY <1>2, <1>9, <3>2 DEF Select, Count
    <3>3. QED
      BY <3>1, <3>2
  <2>4. pc[p] \in InDebt
    BY <1>6, <2>1
  <2>5. QED
    BY <1>5, <2>1, <2>2, <2>3, <2>4, AheadIdle, Zenon
<1>10. CASE NewRow(p)
  <2>1. /\ UNCHANGED <<file, entries, total>> /\ pc[p] = "newrow" /\ pc' = [pc EXCEPT ![p] = "update"]
        /\ last' = IF last = Nil THEN [time |-> time[p], total |-> 0, today |-> 0] ELSE last
    BY <1>10 DEF NewRow, Goto
  <2>2. Dense' /\ M = N
    BY <1>3, <2>1 DEF Dense
  <2>3. V = W
    BY <1>6, <2>1, OwedMoves
  <2>4. last = Nil => last'.total = 0
    BY <2>1
  <2> HIDE DEF N, M, W, V
  <2>5. V + N <= W + M /\ (last' # Nil => last'.total + V <= M) /\ total'[p] + V <= M
    BY <1>2, <1>3, <1>4, <2>1, <2>2, <2>3, <2>4
  <2>6. \A q \in Procs \ {p} : total'[q] = total[q]
    BY <2>1
  <2>7. QED
    BY <1>5, <2>1, <2>2, <2>5, <2>6, AheadKept, Zenon DEF N, M, W, V
<1>11. CASE Update(p)
  <2>1. /\ UNCHANGED <<file, entries>> /\ pc[p] = "update" /\ pc' = [pc EXCEPT ![p] = "unlock"]
        /\ total' = [total EXCEPT ![p] = total[p] + 1]
        /\ last' = [time |-> time[p], total |-> total[p] + 1, today |-> today[p] + 1]
    BY <1>11 DEF Update, Goto, Count
  <2>2. Dense' /\ M = N
    BY <1>3, <2>1 DEF Dense
  <2>3. V = W - 1
    BY <1>5, <1>6, <2>1, OwedMoves
  <2>4. last'.total = total[p] + 1
    BY <2>1
  <2> HIDE DEF N, M, W, V
  <2>5. V + N <= W + M /\ last'.total + V <= M
    BY <1>2, <1>3, <2>1, <2>2, <2>3, <2>4
  <2>6. "unlock" \notin {"newrow", "update"} /\ \A q \in Procs \ {p} : total'[q] = total[q]
    BY <1>2, <2>1
  <2>7. QED
    BY <1>5, <2>1, <2>2, <2>5, <2>6, AheadKept, Zenon DEF N, M, W, V
<1>12. CASE Unlock(p) \/ Unlink(p)
  <2>1. UNCHANGED <<file, entries, last, total>>
    BY <1>12 DEF Unlock, Unlink, shared
  <2>2. PICK l \in {"unlink", "idle"} : pc' = [pc EXCEPT ![p] = l]
    BY <1>12 DEF Unlock, Unlink, Goto
  <2>3. l \notin InDebt /\ l \notin {"newrow", "update"} /\ \A q \in Procs \ {p} : total'[q] = total[q]
    BY <1>6, <2>1
  <2>4. QED
    BY <1>5, <2>1, <2>2, <2>3, AheadIdle, Zenon
<1>13. QED
  BY <1>7, <1>8, <1>9, <1>10, <1>11, <1>12

(* Nothing is counted that is not in the log.                              *)
LEMMA AheadStep ==
  ASSUME LogTypes, AheadInv, [LogNext]_logVars
  PROVE  AheadInv'
<1>1. LogTypes'
  BY LogTypesStep
<1>2. CASE UNCHANGED <<setup, file, entries, last, pc, total>>
  <2>1. (Dbm' <=> Dbm) /\ (Counting' <=> Counting)
    BY <1>2 DEF Dbm, Counting
  <2>2. Owed' = Owed
    BY <1>2, <2>1 DEF Owed
  <2>3. QED
    BY <1>2, <2>1, <2>2 DEF AheadInv, Dense
<1>3. CASE LogNext /\ ~Tick
  <2>1. setup' = setup /\ (Counting' <=> Counting)
    BY <1>3, LogSetupStays DEF Counting
  <2>2. CASE Counting
    BY <1>1, <1>3, <2>1, <2>2, LogSteps, AheadPage, AheadDbm, AheadMsql, Zenon
  <2>3. CASE ~Counting
    BY <2>1, <2>3 DEF AheadInv
  <2>4. QED
    BY <2>2, <2>3
<1>4. QED
  BY <1>2, <1>3 DEF Tick, logVars, shared

-----------------------------------------------------------------------------
(* While nobody is logging, everything that is in the log is counted. *)

(* A step of a process that is not between Lock and the end of Replace.    *)
LEMMA CountOutside ==
  ASSUME LogTypes, LogTypes', CountInv, setup' = setup, Undisturbed,
         NEW p \in Procs, NEW l, pc' = [pc EXCEPT ![p] = l], OthersKept(p),
         UNCHANGED <<entries, last, holder>>,
         pc[p] \notin Inside, l \in {"idle", "page", "lock"},
         l = "lock" => fd'[p] = 0,
         l \in {"page", "lock"} => total'[p] = -1
  PROVE  CountInv'
<1>1. Undisturbed'
  BY DEF Undisturbed
<1>2. pc'[p] = l /\ \A q \in Procs \ {p} : pc'[q] = pc[q] /\ total'[q] = total[q] /\ fd'[q] = fd[q]
  BY LogTypesOf DEF OthersKept
<1>3. l \notin Inside /\ l \notin {"reading", "load", "insert", "wipe", "replace"}
  BY DEF Inside
<1>4. \A q \in Procs : pc'[q] # "reading" /\ (pc'[q] \in Inside => holder'[0] = q) /\ (pc'[q] = "lock" => fd'[q] = 0)
  BY <1>2, <1>3 DEF CountInv
<1>5. \A q \in Procs : /\ pc'[q] \in {"page", "lock", "load"} => total'[q] = -1
                       /\ pc'[q] \in {"insert", "wipe", "replace"} => total'[q] = Cardinality(entries')
  BY <1>2, <1>3 DEF CountInv
<1>6. ASSUME \A q \in Procs : pc'[q] \notin {"wipe", "replace"}
      PROVE  last' # Nil /\ last'.total = Cardinality(entries')
  <2>1. \A q \in Procs : pc[q] \notin {"wipe", "replace"}
    BY <1>2, <1>6 DEF Inside
  <2>2. QED
    BY <2>1 DEF CountInv
<1>7. QED
  BY <1>1, <1>4, <1>5, <1>6 DEF CountInv

(* A step of the one that is, or will be: it is alone there.               *)
LEMMA CountInside ==
  ASSUME LogTypes, LogTypes', CountInv, setup' = setup, Undisturbed,
         NEW p \in Procs, NEW l, pc' = [pc EXCEPT ![p] = l], OthersKept(p),
         \A q \in Procs \ {p} : pc[q] \notin Inside,
         l \in Inside \union {"idle"},
         l \in Inside => holder'[0] = p,
         l = "load" => total'[p] = -1,
         l \in {"insert", "wipe", "replace"} => total'[p] = Cardinality(entries'),
         l \notin {"wipe", "replace"} => last' # Nil /\ last'.total = Cardinality(entries')
  PROVE  CountInv'
<1>1. Undisturbed'
  BY DEF Undisturbed
<1>2. pc'[p] = l /\ \A q \in Procs \ {p} : pc'[q] = pc[q] /\ total'[q] = total[q] /\ fd'[q] = fd[q]
  BY LogTypesOf DEF OthersKept
<1>3. l \notin {"reading", "lock", "page"}
  BY DEF Inside
<1>4. \A q \in Procs : pc'[q] # "reading" /\ (pc'[q] \in Inside => holder'[0] = q) /\ (pc'[q] = "lock" => fd'[q] = 0)
  BY <1>2, <1>3 DEF CountInv
<1>5. \A q \in Procs : /\ pc'[q] \in {"page", "lock", "load"} => total'[q] = -1
                       /\ pc'[q] \in {"insert", "wipe", "replace"} => total'[q] = Cardinality(entries')
  BY <1>2, <1>3 DEF CountInv, Inside
<1>6. ASSUME \A q \in Procs : pc'[q] \notin {"wipe", "replace"}
      PROVE  last' # Nil /\ last'.total = Cardinality(entries')
  BY <1>2, <1>6
<1>7. QED
  BY <1>1, <1>4, <1>5, <1>6 DEF CountInv

(* Each step of the page, when nothing disturbs the count.                 *)
LEMMA CountMoves ==
  ASSUME LogTypes, LogTypes', AheadInv, CountInv, setup' = setup, Undisturbed,
         NEW p \in Procs,
         \/ StartPage(p) \/ Ask(p) \/ AskRead(p) \/ LogOpen(p) \/ CreateFails(p)
         \/ Load(p) \/ Create(p) \/ Lock(p) \/ Insert(p) \/ Wipe(p) \/ Replace(p)
         \/ Kill(p) \/ MsqlInsert(p) \/ LockFile(p) \/ Select(p)
         \/ NewRow(p) \/ Update(p) \/ Unlock(p) \/ Unlink(p)
  PROVE  CountInv'
<1> DEFINE N == Cardinality(entries)
<1>1. LogData /\ pc \in [Procs -> Labels] /\ pc[p] \in LogPlaces /\ LogTypeOK /\ 0 \in Locks
  BY LogTypesOf, LogConstants
<1>2. /\ total \in [Procs -> Nat \union {-1}] /\ N \in Nat /\ holder \in [Locks -> Procs \union {Nil}]
      /\ fd \in [Procs -> Locks \union {Nil}] /\ now \in Times /\ Nil \notin Procs
  BY <1>1, LogNumbers, LogConstants DEF LogData
<1>3. Dbm /\ setup.store = "flat" /\ ~setup.footer /\ ~setup.kill /\ Counting
  BY DEF Undisturbed, Dbm, Counting
<1>4. /\ file = TRUE /\ Dense /\ \A q \in Procs : pc[q] # "create" /\ pc[q] # "reading"
      /\ \A q \in Procs : pc[q] \in Inside => holder[0] = q
      /\ pc[p] = "lock" => fd[p] = 0
      /\ pc[p] \in {"page", "lock", "load"} => total[p] = -1
      /\ pc[p] \in {"insert", "wipe", "replace"} => total[p] = N
      /\ (\A q \in Procs : pc[q] \notin {"wipe", "replace"}) => last # Nil /\ last.total = N
  BY <1>3 DEF AheadInv, CountInv
<1>5. pc[p] \notin {"lockfile", "select", "newrow", "update", "unlock", "unlink"}
  BY <1>1, <1>3 DEF LogPlaces
<1>6. pc[p] \in Inside => \A q \in Procs \ {p} : pc[q] \notin Inside
  BY <1>4
<1>7. {"wipe", "replace", "insert", "load"} = Inside /\ "idle" \notin Inside /\ "page" \notin Inside /\ "lock" \notin Inside
  BY DEF Inside
<1>8. CASE StartPage(p)
  <2>1. /\ pc' = [pc EXCEPT ![p] = "page"] /\ pc[p] = "idle" /\ UNCHANGED <<entries, last, holder, fd>>
        /\ total' = [total EXCEPT ![p] = -1] /\ today' = [today EXCEPT ![p] = -1]
    BY <1>8 DEF StartPage, Goto, Count, shared
  <2>2. total'[p] = -1 /\ OthersKept(p)
    BY <1>1, <1>2, <2>1 DEF OthersKept, LogData
  <2>3. "page" # "lock" /\ "page" \in {"idle", "page", "lock"}
    OBVIOUS
  <2>4. QED
    BY <1>7, <2>1, <2>2, <2>3, CountOutside, Zenon
<1>9. CASE LogOpen(p)
  <2>1. /\ pc' = [pc EXCEPT ![p] = "lock"] /\ pc[p] = "page"
        /\ UNCHANGED <<entries, last, holder, total, today>> /\ fd' = [fd EXCEPT ![p] = 0]
    BY <1>3, <1>4, <1>9 DEF LogOpen, Opened, Goto, shared
  <2>2. fd'[p] = 0 /\ total'[p] = -1 /\ OthersKept(p)
    BY <1>2, <1>4, <2>1 DEF OthersKept
  <2>3. "lock" \in {"idle", "page", "lock"}
    OBVIOUS
  <2>4. QED
    BY <1>7, <2>1, <2>2, <2>3, CountOutside, Zenon
<1>10. CASE Lock(p)
  <2>1. /\ pc' = [pc EXCEPT ![p] = "load"] /\ pc[p] = "lock" /\ UNCHANGED <<entries, last, fd, total, today>>
        /\ holder[0] = Nil /\ holder' = [holder EXCEPT ![0] = p]
    BY <1>3, <1>4, <1>10 DEF Lock, Goto, shared
  <2>2. holder'[0] = p /\ total'[p] = -1
    BY <1>1, <1>2, <1>4, <2>1
  <2>3. \A q \in Procs : pc[q] \notin Inside
    BY <1>2, <1>4, <2>1
  <2>4. OthersKept(p)
    BY <1>1, <1>2, <2>1 DEF OthersKept
  <2>5. last' # Nil /\ last'.total = Cardinality(entries')
    BY <1>4, <1>7, <2>1, <2>3
  <2>6. "load" \in Inside \union {"idle"} /\ "load" \notin {"insert", "wipe", "replace"}
    BY <1>7
  <2>7. QED
    BY <2>1, <2>2, <2>3, <2>4, <2>5, <2>6, CountInside, Zenon
<1>11. CASE Load(p)
  <2>1. /\ pc' = [pc EXCEPT ![p] = "insert"] /\ pc[p] = "load" /\ UNCHANGED <<entries, last, fd, holder>>
        /\ IF total[p] < 0 THEN LoadLastInfo(p) ELSE UNCHANGED <<total, today>>
    BY <1>11 DEF Load, Goto, shared
  <2>2. /\ total[p] = -1 /\ holder'[0] = p /\ last # Nil /\ last.total = N
        /\ \A q \in Procs \ {p} : pc[q] \notin Inside
    BY <1>4, <1>6, <1>7, <2>1
  <2>3. LoadLastInfo(p)
    BY <2>1, <2>2
  <2>4. total'[p] = N /\ OthersKept(p)
    BY <1>1, <2>1, <2>2, <2>3, LoadType DEF OthersKept
  <2>5. total'[p] = Cardinality(entries') /\ last' # Nil /\ last'.total = Cardinality(entries')
    BY <2>1, <2>2, <2>4
  <2>6. "insert" \in Inside \union {"idle"} /\ "insert" # "load"
    BY <1>7
  <2>7. QED
    BY <2>1, <2>2, <2>4, <2>5, <2>6, CountInside, Zenon
<1>12. CASE Insert(p)
  <2>1. /\ pc' = [pc EXCEPT ![p] = "wipe"] /\ pc[p] = "insert" /\ UNCHANGED <<last, fd, holder>>
        /\ entries' = EntriesWith(now)
        /\ total' = [total EXCEPT ![p] = total[p] + 1] /\ today' = [today EXCEPT ![p] = today[p] + 1]
    BY <1>3, <1>12 DEF Insert, Goto, Count
  <2>2. holder'[0] = p /\ total[p] = N /\ \A q \in Procs \ {p} : pc[q] \notin Inside
    BY <1>4, <1>6, <1>7, <2>1
  <2>3. Cardinality(entries') = N + 1
    BY <1>2, <1>3, <1>4, <2>1, NewEntry
  <2>4. total'[p] = Cardinality(entries') /\ OthersKept(p)
    BY <1>1, <1>2, <2>1, <2>2, <2>3 DEF OthersKept, LogData
  <2>5. "wipe" \in Inside \union {"idle"} /\ "wipe" # "load" /\ "wipe" \in {"wipe", "replace"}
    BY <1>7
  <2>6. QED
    BY <2>1, <2>2, <2>4, <2>5, CountInside, Zenon
<1>13. CASE Wipe(p)
  <2>1. /\ pc' = [pc EXCEPT ![p] = "replace"] /\ pc[p] = "wipe" /\ UNCHANGED <<entries, fd, holder, total, today>>
    BY <1>13 DEF Wipe, Goto
  <2>2. holder'[0] = p /\ total[p] = N /\ \A q \in Procs \ {p} : pc[q] \notin Inside
    BY <1>4, <1>6, <1>7, <2>1
  <2>3. total'[p] = Cardinality(entries') /\ OthersKept(p)
    BY <2>1, <2>2 DEF OthersKept
  <2>4. "replace" \in Inside \union {"idle"} /\ "replace" # "load" /\ "replace" \in {"wipe", "replace"}
    BY <1>7
  <2>5. QED
    BY <2>1, <2>2, <2>3, <2>4, CountInside, Zenon
<1>14. CASE Replace(p)
  <2>1. /\ pc' = [pc EXCEPT ![p] = "idle"] /\ pc[p] = "replace" /\ UNCHANGED <<entries, total, today>>
        /\ last' = [time |-> time[p], total |-> total[p], today |-> today[p]] /\ Release(p)
    BY <1>14 DEF Replace, Goto
  <2>2. total[p] = N /\ \A q \in Procs \ {p} : pc[q] \notin Inside
    BY <1>4, <1>6, <1>7, <2>1
  <2>3. OthersKept(p)
    <3>1. "idle" \in LogPlaces /\ "idle" \notin {"wipe", "replace", "newrow", "update"}
      BY DEF LogPlaces
    <3>2. QED
      BY <2>1, <3>1, LockReleased, Zenon
  <2>4. last' # Nil /\ last'.total = Cardinality(entries')
    <3>1. last'.total = N
      BY <2>1, <2>2
    <3>2. time[p] \in Times /\ total[p] \in Nat /\ today[p] \in Nat
      BY <1>1, <2>1, LogTypesOf DEF LogData
    <3>3. last' \in Record
      BY <2>1, <3>2, RecordType, Zenon
    <3>4. last' # Nil
      BY <3>3, LogConstants
    <3>5. QED
      BY <2>1, <3>1, <3>4
  <2>5. "idle" \in Inside \union {"idle"} /\ "idle" # "load" /\ "idle" \notin {"insert", "wipe", "replace"}
    OBVIOUS
  <2>6. QED
    BY <1>7, <2>1, <2>2, <2>3, <2>4, <2>5, CountInside, Zenon
<1>15. CASE Ask(p) \/ AskRead(p) \/ Create(p) \/ CreateFails(p) \/ Kill(p)
  BY <1>3, <1>4, <1>15 DEF Ask, AskRead, Create, CreateFails, Kill
<1>16. CASE \/ MsqlInsert(p) \/ LockFile(p) \/ Select(p)
            \/ NewRow(p) \/ Update(p) \/ Unlock(p) \/ Unlink(p)
  BY <1>3, <1>5, <1>16
     DEF MsqlInsert, LockFile, Select, NewRow, Update, Unlock, Unlink
<1>17. QED
  BY <1>8, <1>9, <1>10, <1>11, <1>12, <1>13, <1>14, <1>15, <1>16

LEMMA CountStep ==
  ASSUME LogTypes, AheadInv, CountInv, [LogNext]_logVars
  PROVE  CountInv'
<1>1. LogTypes'
  BY LogTypesStep
<1>2. CASE UNCHANGED <<setup, entries, last, holder, pc, fd, total>>
  BY <1>2 DEF CountInv, Undisturbed
<1>3. CASE LogNext /\ ~Tick
  <2>1. setup' = setup /\ (Undisturbed' <=> Undisturbed)
    BY <1>3, LogSetupStays DEF Undisturbed
  <2>2. CASE Undisturbed
    BY <1>1, <1>3, <2>1, <2>2, LogSteps, CountMoves, Zenon
  <2>3. CASE ~Undisturbed
    BY <2>1, <2>3 DEF CountInv
  <2>4. QED
    BY <2>2, <2>3
<1>4. QED
  BY <1>2, <1>3 DEF Tick, logVars, shared

-----------------------------------------------------------------------------
(* The theorems of the log. *)

LEMMA LogStarts ==
  ASSUME LogInit
  PROVE  LogProofInv
<1>1. /\ setup \in Setups /\ now = 0 /\ file = (Dbm /\ setup.exists)
      /\ entries = IF setup.exists THEN {<<0, 0>>} ELSE {}
      /\ last = IF setup.exists THEN [time |-> 0, total |-> 1, today |-> 1] ELSE Nil
      /\ holder = [k \in Locks |-> Nil] /\ lockfn = Nil /\ hits = 0
      /\ pc = [q \in Procs |-> "idle"] /\ fd = [q \in Procs |-> Nil]
      /\ total = [q \in Procs |-> -1] /\ today = [q \in Procs |-> -1] /\ time = [q \in Procs |-> 0]
  BY DEF LogInit
<1>2. /\ 0 \in Times /\ MaxHits \in Nat /\ Nil \notin Procs /\ setup \in Setup /\ Nil \notin Record
  BY <1>1, LogConstants
<1>3. /\ entries \subseteq Times \X Nat /\ IsFiniteSet(entries)
      /\ setup.exists => entries = {<<0, 0>>} /\ Cardinality(entries) = 1
      /\ Cardinality(entries) \in Nat
  <2>1. setup.exists \in BOOLEAN
    BY <1>2 DEF Setup
  <2>2. CASE setup.exists
    <3>1. entries = {<<0, 0>>} /\ <<0, 0>> \in Times \X Nat
      BY <1>1, <1>2, <2>2
    <3>2. IsFiniteSet(entries) /\ Cardinality(entries) = 1
      BY <3>1, FS_Singleton
    <3>3. QED
      BY <3>1, <3>2
  <2>3. CASE ~setup.exists
    BY <1>1, <2>3, FS_EmptySet
  <2>4. QED
    BY <2>1, <2>2, <2>3
<1>4. last \in Record \union {Nil} /\ (setup.exists => last # Nil /\ last.total = 1)
  <2>1. [time |-> 0, total |-> 1, today |-> 1] \in Record
    BY <1>2, RecordType
  <2>2. QED
    BY <1>1, <1>2, <2>1
<1>5. LogTypes
  <2>1. /\ now \in Times /\ hits \in 0..MaxHits /\ file \in BOOLEAN /\ lockfn \in Locks \union {Nil}
        /\ holder \in [Locks -> Procs \union {Nil}] /\ fd \in [Procs -> Locks \union {Nil}]
        /\ total \in [Procs -> Nat \union {-1}] /\ today \in [Procs -> Nat \union {-1}]
        /\ time \in [Procs -> Times]
    BY <1>1, <1>2
  <2>2. pc \in [Procs -> Labels] /\ \A q \in Procs : pc[q] = "idle"
    BY <1>1 DEF Labels
  <2>3. \A k \in Locks, q \in Procs : holder[k] # q
    BY <1>1, <1>2
  <2>4. "idle" \in LogPlaces
    BY DEF LogPlaces
  <2>5. QED
    BY <1>1, <1>3, <1>4, <2>1, <2>2, <2>3, <2>4 DEF LogTypes, LogTypeOK
<1>6. \A q \in Procs : pc[q] = "idle" /\ total[q] = -1
  BY <1>1
<1>7. Cardinality(Owed) = 0
  <2>1. Owed = {}
    BY <1>6 DEF Owed, InDebt
  <2>2. QED
    BY <2>1, FS_EmptySet
<1>8. Dense
  <2>1. CASE setup.exists
    <3>1. SUFFICES ASSUME NEW e \in entries PROVE e[2] < Cardinality({d \in entries : d[1] = e[1]})
      BY DEF Dense
    <3>2. e = <<0, 0>> /\ {d \in entries : d[1] = e[1]} = {<<0, 0>>}
      BY <1>3, <2>1
    <3>3. Cardinality({<<0, 0>>}) = 1
      BY FS_Singleton
    <3>4. e[2] = 0 /\ Cardinality({d \in entries : d[1] = e[1]}) = 1
      BY <3>2, <3>3
    <3>5. QED
      BY <3>4
  <2>2. CASE ~setup.exists
    BY <1>1, <2>2 DEF Dense
  <2>3. QED
    BY <2>1, <2>2
<1>9. AheadInv
  <2> DEFINE N == Cardinality(entries)
             W == Cardinality(Owed)
  <2>1. Counting /\ Dbm => file = TRUE
    BY <1>1 DEF Counting, Dbm
  <2>2. \A q \in Procs : pc[q] # "create" /\ pc[q] \notin {"newrow", "update"}
    BY <1>6
  <2> HIDE DEF N, W
  <2>3. last # Nil => last.total + W <= N
    <3>1. last # Nil => setup.exists
      BY <1>1
    <3>2. QED
      BY <1>3, <1>4, <1>7, <3>1 DEF N, W
  <2>4. W <= N /\ \A q \in Procs : total[q] + W <= N
    BY <1>3, <1>6, <1>7 DEF N, W
  <2>5. QED
    BY <1>8, <2>1, <2>2, <2>3, <2>4 DEF AheadInv, N, W
<1>10. CountInv
  BY <1>3, <1>4, <1>6 DEF CountInv, Undisturbed, Inside
<1>11. QED
  BY <1>5, <1>9, <1>10 DEF LogProofInv

LEMMA LogStep ==
  ASSUME LogProofInv, [LogNext]_logVars
  PROVE  LogProofInv'
BY LogTypesStep, AheadStep, CountStep DEF LogProofInv

LEMMA LogInvariant == LogSpec => []LogProofInv
<1>1. LogInit => LogProofInv
  BY LogStarts
<1>2. LogProofInv /\ [LogNext]_logVars => LogProofInv'
  BY LogStep
<1>3. QED
  BY <1>1, <1>2, PTL DEF LogSpec

(* The log is of its type, and with mSQL and flat files the last record    *)
(* never counts more hits than are logged (log.c:186-216).                 *)
THEOREM LogNeverAhead == LogSpec => []LogInv
<1>1. LogProofInv => LogInv
  <2>1. SUFFICES ASSUME LogProofInv, Counting, last # Nil
                 PROVE  last.total <= Cardinality(entries)
    BY DEF LogProofInv, LogTypes, LogInv, NeverAhead, Counting
  <2>2. last.total + Cardinality(Owed) <= Cardinality(entries)
    BY <2>1 DEF LogProofInv, AheadInv
  <2>3. Cardinality(Owed) \in Nat /\ Cardinality(entries) \in Nat /\ last.total \in Nat
    BY <2>1, OwedType, LogNumbers DEF LogProofInv
  <2>4. QED
    BY <2>2, <2>3
<1>2. QED
  BY <1>1, LogInvariant, PTL

(* While no process is logging, the last record of a flat file that was    *)
(* there counts every entry (db.c:107, log.c:186-216), if no page asks for *)
(* its counters first and no process is killed.                            *)
THEOREM LogCountsAll == LogSpec => []CountedUnderLock
<1>1. LogProofInv => CountedUnderLock
  <2>1. SUFFICES ASSUME LogProofInv, Undisturbed, \A p \in Procs : pc[p] \in {"idle", "page", "reading"}
                 PROVE  IF last = Nil THEN entries = {} ELSE last.total = Cardinality(entries)
    BY DEF CountedUnderLock, Undisturbed
  <2>2. last # Nil /\ last.total = Cardinality(entries)
    BY <2>1 DEF LogProofInv, CountInv
  <2>3. QED
    BY <2>2
<1>2. QED
  BY <1>1, LogInvariant, PTL
=============================================================================
