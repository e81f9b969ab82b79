------------------------------ MODULE Databases ------------------------------
(***************************************************************************)
(* The databases of a request: pages use Msql and Postgres, and Exit logs  *)
(* the page and closes everything (lex.c).  A resident process goes on to  *)
(* the next page with the environment that the last one left.              *)
(***************************************************************************)
EXTENDS Msql, Postgres

CONSTANT Pages   \* what pages do with each kind: sets of habits

ASSUME DatabasesAssumption == Pages \subseteq [msql : SUBSET MsqlHabits, pg : SUBSET PgHabits]

fixed == <<build, habits, pgHabits>>
vars  == <<msqlVars, pgVars, fixed>>

(* MsqlClose and PGcloseAll, and a new request with them.  A new process   *)
(* has the environment of the server.                                      *)
EndOfRequest ==
  /\ ~crashed /\ ~freed
  /\ MsqlReset /\ PGcloseAll
  /\ \/ build = "cgi" /\ first' = Functions1 /\ env' \in (IF "port" \in habits THEN Ports ELSE {None})
     \/ build # "cgi" /\ UNCHANGED <<first, env>>
  /\ UNCHANGED <<crashed, freed, fixed>>

Init ==
  /\ build \in Builds
  /\ \E p \in Pages : habits = p.msql /\ pgHabits = p.pg
  /\ MsqlInit /\ PgInit

Next ==
  \/ MsqlNext /\ UNCHANGED <<pgVars, fixed>>
  \/ PgNext /\ UNCHANGED <<msqlVars, fixed>>
  \/ EndOfRequest

Spec == Init /\ [][Next]_vars

-----------------------------------------------------------------------------
(* Properties. *)

TypeOK ==
  /\ MsqlTypeOK /\ PgTypeOK
  /\ build \in Builds /\ [msql |-> habits, pg |-> pgHabits] \in Pages

(* msql.c and pg95.c keep what the page holds and nothing that is gone.    *)
ResultsSound == MsqlResultsKept /\ MsqlSound /\ PgSound

(* The lists are of their types and no result or connection that is gone   *)
(* is used, none that the page keeps is freed (msql.c:65-130, pg95.c:97-369). *)
DatabasesInv == TypeOK /\ ResultsSound
=============================================================================
