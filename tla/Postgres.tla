------------------------------- MODULE Postgres ------------------------------
(***************************************************************************)
(* The Postgres95 connections and results of a page (pg95.c): two lists,   *)
(* and the table of types, a result among the others, which is made with   *)
(* the first connection and by which the values of all others are typed.   *)
(*                                                                         *)
(* A PGconn is known by the number of its connection: once that is not in  *)
(* the list the memory has been freed, though results may point to it.     *)
(***************************************************************************)
EXTENDS Integers, FiniteSets

CONSTANTS
  MaxConns, MaxRes   \* bounds: numbers of connections and results in a request

(* connects: the page uses Postgres95.  strays: numbers are used that the  *)
(* page has not got.  dies: the connection is lost under a query.          *)
(* typeless: the table of types cannot be read when the page connects.     *)
PgHabits == {"connects", "strays", "dies", "typeless"}

ASSUME PostgresAssumption == MaxConns \in Nat \ {0} /\ MaxRes \in Nat

Conns == 1 .. MaxConns
Res   == 2 .. MaxRes + 1      \* 1 says that a command has been executed

VARIABLES
  conns,     \* pg_conn_top: the numbers, and is the connection bad?
  pgResults, \* pg_result_top: the numbers, and the connection of each
  pgTypeRes, \* the number of the table of types, 0 before there is one
  nextConn, nextRes,  \* pg95_conn_ind, pg95_ind
  kept,      \* history: the results that the page has got and not freed
  freed,     \* has memory been used that was freed, or a NULL?
  pgHabits

pgVars == <<conns, pgResults, pgTypeRes, nextConn, nextRes, kept, freed>>

Live   == DOMAIN conns
Typed  == pgTypeRes \in DOMAIN pgResults

Drop(f, S) == [x \in DOMAIN f \ S |-> f[x]]
Put(f, x, y) == [z \in DOMAIN f \union {x} |-> IF z = x THEN y ELSE f[z]]

Uses(c) == c \notin Live => "strays" \in pgHabits
Holds(n) == n \notin kept => "strays" \in pgHabits

(* A bad connection is made anew, or given up.                             *)
Reset(c) == IF conns[c] = "good" THEN {conns} ELSE {Put(conns, c, "good"), Drop(conns, {c})}

-----------------------------------------------------------------------------

(* The table of types is read by a connection that is good now.            *)
TypesRead(c) == IF nextRes \in Res THEN {0, nextRes} ELSE {0}

PGconnect ==
  /\ nextConn \in Conns
  /\ conns' = Put(conns, nextConn, "good")
  /\ nextConn' = nextConn + 1
  /\ IF pgTypeRes # 0
       THEN UNCHANGED <<pgResults, pgTypeRes, nextRes>>
       ELSE \E t \in TypesRead(nextConn) :
              /\ t = 0 => "typeless" \in pgHabits
              /\ pgTypeRes' = t
              /\ pgResults' = IF t = 0 THEN pgResults ELSE Put(pgResults, t, nextConn)
              /\ nextRes' = IF t = 0 THEN nextRes ELSE nextRes + 1
  /\ UNCHANGED <<kept, freed>>

PGcloseWithResults(c) ==
  /\ Uses(c)
  /\ conns' = Drop(conns, {c})
  /\ pgResults' = [n \in {m \in DOMAIN pgResults : pgResults[m] # c} |-> pgResults[n]]
  /\ UNCHANGED <<pgTypeRes, nextConn, nextRes, kept, freed>>

(* pg_close: its results stay.                                             *)
PGclose(c) ==
  /\ Uses(c)
  /\ conns' = Drop(conns, {c})
  /\ UNCHANGED <<pgResults, pgTypeRes, nextConn, nextRes, kept, freed>>

(* The server or the network.                                              *)
GoesBad(c) ==
  /\ c \in Live
  /\ conns' = [conns EXCEPT ![c] = "bad"]
  /\ UNCHANGED <<pgResults, pgTypeRes, nextConn, nextRes, kept, freed>>

(* What becomes of a query: a list entry is made of every answer that is no*)
(* error and not that of a command; after a fatal error the connection is  *)
(* given up.  For want of an answer the status of the connection is taken  *)
(* for that of an answer, a connection that is bad for a command that has  *)
(* been executed: it stays in the list.                                    *)
Outcomes == {"rows", "nothing", "fatal"} \union (IF "dies" \in pgHabits THEN {"lost"} ELSE {})

PGexec(c) ==
  /\ Uses(c)
  /\ IF c \notin Live THEN UNCHANGED <<conns, pgResults, nextRes, kept>>
     ELSE \E now \in Reset(c) :
       IF c \notin DOMAIN now THEN conns' = now /\ UNCHANGED <<pgResults, nextRes, kept>>
       ELSE \E o \in Outcomes :
              /\ conns' = CASE o = "fatal" -> Drop(now, {c})
                            [] o = "lost" -> Put(now, c, "bad")
                            [] OTHER -> now
              /\ IF o = "rows"
                   THEN /\ nextRes \in Res
                        /\ pgResults' = Put(pgResults, nextRes, c)
                        /\ nextRes' = nextRes + 1
                        /\ kept' = kept \union {nextRes}
                   ELSE UNCHANGED <<pgResults, nextRes, kept>>
  /\ UNCHANGED <<pgTypeRes, nextConn, freed>>

(* pg_type: the type of a value in a result of connection c, NULL without  *)
(* one.                                                                    *)
PgType(c) ==
  IF Typed THEN UNCHANGED <<conns, pgResults, pgTypeRes, nextRes, freed>>
  ELSE IF c \notin Live THEN freed' = TRUE /\ UNCHANGED <<conns, pgResults, pgTypeRes, nextRes>>
  ELSE \E now \in Reset(c) :
         /\ conns' = now
         /\ \/ UNCHANGED <<pgResults, pgTypeRes, nextRes>>
            \/ /\ c \in DOMAIN now /\ nextRes \in Res
               /\ pgResults' = Put(pgResults, nextRes, c)
               /\ pgTypeRes' = nextRes /\ nextRes' = nextRes + 1
         /\ UNCHANGED freed

(* pg_result: for a number that is not in the list an error is printed     *)
(* with the number as the address of a string.                             *)
PGresult(n) ==
  /\ Holds(n)
  /\ IF n \in DOMAIN pgResults
       THEN PgType(pgResults[n])
       ELSE freed' = TRUE /\ UNCHANGED <<conns, pgResults, pgTypeRes, nextRes>>
  /\ UNCHANGED <<nextConn, kept>>

(* What the other functions that read a result find: it, or an error.      *)
PGread(n) == IF n \in DOMAIN pgResults THEN "rows" ELSE "error"

PGfieldType(n) ==
  /\ Holds(n) /\ PGread(n) = "rows"
  /\ PgType(0)
  /\ UNCHANGED <<nextConn, kept>>

PGfreeResult(n) ==
  /\ Holds(n)
  /\ pgResults' = Drop(pgResults, {n})
  /\ kept' = kept \ {n}
  /\ UNCHANGED <<conns, pgTypeRes, nextConn, nextRes, freed>>

-----------------------------------------------------------------------------

PGcloseAll ==
  /\ conns' = <<>> /\ pgResults' = <<>> /\ kept' = {}
  /\ pgTypeRes' = 0 /\ nextConn' = 1 /\ nextRes' = 2

PgInit ==
  /\ conns = <<>> /\ pgResults = <<>> /\ kept = {}
  /\ pgTypeRes = 0 /\ nextConn = 1 /\ nextRes = 2
  /\ freed = FALSE

PgNext ==
  /\ "connects" \in pgHabits /\ ~freed
  /\ \/ PGconnect
     \/ \E c \in Conns : PGclose(c) \/ GoesBad(c) \/ PGexec(c)
     \/ \E n \in Res : PGresult(n) \/ PGfieldType(n) \/ PGfreeResult(n)

-----------------------------------------------------------------------------
(* Properties. *)

PgTypeOK ==
  /\ Live \subseteq Conns /\ \A c \in Live : conns[c] \in {"good", "bad"}
  /\ DOMAIN pgResults \subseteq Res /\ \A n \in DOMAIN pgResults : pgResults[n] \in Conns
  /\ pgTypeRes \in Res \union {0}
  /\ nextConn \in 1 .. MaxConns + 1 /\ nextRes \in 2 .. MaxRes + 2
  /\ kept \subseteq Res /\ freed \in BOOLEAN

(* Results can be read for as long as the page keeps them, also when their *)
(* connection has been closed, has gone bad or has been given up: no freed *)
(* connection is used to type them (PG_result, pg_type).                   *)
PgSound ==
  pgHabits \cap {"strays", "typeless"} = {} =>
    ~freed /\ \A n \in kept : PGread(n) = "rows"
=============================================================================
