--------------------------------- MODULE Msql --------------------------------
(***************************************************************************)
(* The mSQL connection of a page and its results (msql.c), and the use     *)
(* that the log makes of both (log.c).  There is one connection, made when *)
(* it is needed; the program remembers which database it has selected on   *)
(* it and by which port, given by the environment, it was made.            *)
(*                                                                         *)
(* What queries do in the server, and the rows of results, are left out.   *)
(***************************************************************************)
EXTENDS Integers, FiniteSets

CONSTANTS
  Hosts, Local,   \* the hosts; the one that NULL stands for
  DBs, LogDB,     \* the databases of pages, and of the log
  Ports,          \* values of MSQL_TCP_PORT and MSQL_UNIX_PORT
  None,           \* no connection, no database, a variable that is not set
  Empty,          \* the port remembered before there is a connection: ""
  Builds,         \* subset of {"cgi", "fastcgi", "apache"}
  MaxResults      \* bound: results in a request

(* connects: the page uses mSQL.  lists: tables are listed.  hosts: the    *)
(* page connects to other hosts.  logs: the page is logged.  nolog: there  *)
(* is no database for the log.  port: the port is set in the environment.  *)
(* switch: the page sets it.  frees: results are freed.  gone: the name of *)
(* a table or a database is asked of a result that is not there.           *)
MsqlHabits == {"connects", "lists", "hosts", "logs", "nolog", "port", "switch", "frees", "gone"}

Functions1 == {"msql", "listtables", "createdb", "dropdb", "listdbs"}

Places == [host : Hosts, port : Ports \union {None}, db : DBs \union {LogDB, None}]

Sockets == [host : Hosts, port : Ports \union {None}, db : DBs \union {LogDB, None}, open : BOOLEAN]

ASSUME MsqlAssumption ==
  /\ Local \in Hosts /\ None \notin Sockets
  /\ None \notin DBs \union Ports \union {LogDB} /\ Empty \notin Ports \union {None}
  /\ LogDB \notin DBs
  /\ Builds \subseteq {"cgi", "fastcgi", "apache"}
  /\ MaxResults \in Nat

VARIABLES
  sock,      \* the connection: where it leads, what the server has selected, is it open?
  curDB,     \* CurrentDB
  curHost,   \* CurrentHost
  curPort,   \* CurrentTcpPort and CurrentUnixPort
  env,       \* the ports in the environment
  first,     \* the functions whose variable First is 1
  results,   \* the list of results: number and what it is a result of
  ind,       \* msql_ind
  owned,     \* history: the results that the page has got and not given up
  ran,       \* history: where the last query should have run, and where it did
  crashed,   \* has NULL been dereferenced?
  build, habits

conn     == <<sock, curDB, curPort, results>>
msqlVars == <<conn, curHost, env, first, ind, owned, ran, crashed>>

Place(h, p, d) == [host |-> h, port |-> p, db |-> d]

(* The part of the state that a call may change before it gets to work.    *)
here == [sock |-> sock, db |-> curDB, port |-> curPort, results |-> results]

Becomes(c) == sock' = c.sock /\ curDB' = c.db /\ curPort' = c.port /\ results' = c.results

(* Every function resets what is remembered when it is called first, not   *)
(* in the Apache module.                                                   *)
FirstCall(f) == IF f \in first THEN [here EXCEPT !.db = None, !.port = Empty] ELSE here

Closed(c) == [c EXCEPT !.sock = None, !.db = None, !.results = {}]

Connected(c, h) ==
  [c EXCEPT !.sock = [host |-> h, port |-> env, db |-> None, open |-> TRUE], !.port = env]

(* A connection by another port is closed and made again.  strcmp() is     *)
(* given the port that is remembered, NULL if there was none.              *)
Stale(c) == c.sock # None /\ env # None /\ env # c.port
Crashes(c) == Stale(c) /\ c.port = None

MadeAnyway(c, up) ==
  IF c.sock # None THEN c ELSE IF up THEN Connected(c, curHost) ELSE c

(* up: does the server answer?                                             *)
Made(c, up) ==
  LET old == IF Stale(c) THEN Closed(c) ELSE c IN
  IF old.sock = None /\ up THEN Connected(old, curHost) ELSE old

Ready(c) == IF c.sock = None THEN FALSE ELSE c.sock.open

Selected(c, d) == [c EXCEPT !.sock.db = d]

Added(c, place) == [c EXCEPT !.results = @ \union {[ind |-> ind, of |-> place]}]

Calls(f) == first' = first \ {f}

Crash == crashed' = TRUE /\ UNCHANGED <<conn, curHost, env, first, ind, owned, ran>>

Fails(c) == Becomes(c) /\ UNCHANGED <<ind, owned, ran>>

(* A query on the connection, which may give a result to the page.         *)
Runs(c, wanted) ==
  LET place == Place(c.sock.host, c.sock.port, c.sock.db) IN
  /\ ran' = [wanted |-> wanted, on |-> place]
  /\ \/ Becomes(c) /\ UNCHANGED <<ind, owned>>
     \/ /\ ind <= MaxResults
        /\ Becomes(Added(c, place))
        /\ ind' = ind + 1
        /\ owned' = owned \union {[ind |-> ind, of |-> wanted]}

-----------------------------------------------------------------------------
(* The functions of pages. *)

(* msql(d, query): d is selected unless it is what is remembered.          *)
Msql(d) ==
  LET c == FirstCall("msql") IN
  \/ Crashes(c) /\ Crash
  \/ /\ ~Crashes(c)
     /\ Calls("msql")
     /\ \E up \in BOOLEAN :
          LET m == Made(c, up) IN
          \/ (IF m.db = d THEN ~Ready(m) ELSE TRUE) /\ Fails(m)
          \/ /\ Ready(m)
             /\ IF m.db = d THEN Runs(m, Place(curHost, env, d))
                ELSE Runs([Selected(m, d) EXCEPT !.db = d], Place(curHost, env, d))
     /\ UNCHANGED <<curHost, env, crashed>>

(* A database is selected, and not remembered.                             *)
MsqlListTables(d) ==
  LET c == FirstCall("listtables") IN
  /\ "lists" \in habits
  /\ \/ Crashes(c) /\ Crash
     \/ /\ ~Crashes(c)
        /\ Calls("listtables")
        /\ \E up \in BOOLEAN :
             LET m == Made(c, up) IN
             \/ ~Ready(m) /\ Fails(m)
             \/ Ready(m) /\ Runs(Selected(m, d), Place(curHost, env, d))
        /\ UNCHANGED <<curHost, env, crashed>>

(* Functions that need no database, of which one gives a result.           *)
Other(f) ==
  LET c == FirstCall(f) IN
  \/ Crashes(c) /\ Crash
  \/ /\ ~Crashes(c)
     /\ Calls(f)
     /\ \E up \in BOOLEAN :
          LET m == Made(c, up) IN
          \/ Fails(m)
          \/ /\ f = "listdbs" /\ Ready(m)
             /\ Runs(m, Place(curHost, env, m.sock.db))
     /\ UNCHANGED <<curHost, env, crashed>>

MsqlCreateDB == Other("createdb")
MsqlDropDB   == Other("dropdb")
MsqlListDBs  == Other("listdbs")

(* A connection is closed, with the results; the next is made when needed. *)
MsqlConnect(h) ==
  /\ h # Local => "hosts" \in habits
  /\ Becomes(Closed(here)) /\ curHost' = h
  /\ owned' = {}
  /\ UNCHANGED <<env, first, ind, ran, crashed>>

MsqlFreeResult(n) ==
  /\ "frees" \in habits
  /\ results' = {r \in results : r.ind # n}
  /\ owned' = {r \in owned : r.ind # n}
  /\ UNCHANGED <<sock, curDB, curPort, curHost, env, first, ind, ran, crashed>>

(* What the functions that read a result find: it, or an error.            *)
MsqlResult(n) == {r.of : r \in {s \in results : s.ind = n}}

(* Only msql_tablename() and msql_dbname() do not look.                    *)
MsqlName(n) ==
  /\ "gone" \in habits /\ MsqlResult(n) = {}
  /\ Crash

PutEnv(p) ==
  /\ "switch" \in habits
  /\ env' = p
  /\ UNCHANGED <<conn, curHost, first, ind, owned, ran, crashed>>

-----------------------------------------------------------------------------
(* The log, which uses the connection of the page, or makes one to the     *)
(* local host.                                                             *)

LogConnection(up) == IF sock # None THEN here ELSE IF up THEN Connected(here, Local) ELSE here

(* If the database cannot be selected the connection is closed, behind the *)
(* back of msql.c.                                                         *)
MsqlLog ==
  /\ "logs" \in habits
  /\ \E up \in BOOLEAN :
       LET c == LogConnection(up) IN
       \/ c.sock = None /\ UNCHANGED <<conn, ran>>
       \/ /\ c.sock # None /\ (Ready(c) => "nolog" \in habits)
          /\ Becomes(IF sock = None THEN here ELSE [here EXCEPT !.sock.open = FALSE])
          /\ ran' = ran
       \/ /\ Ready(c) /\ "nolog" \notin habits
          /\ Becomes([Selected(c, LogDB) EXCEPT !.db = LogDB, !.port = env])
          /\ ran' = [wanted |-> [Place(Local, c.sock.port, LogDB) EXCEPT !.port = env],
                     on     |-> Place(c.sock.host, c.sock.port, LogDB)]
  /\ UNCHANGED <<curHost, env, first, ind, owned, crashed>>

-----------------------------------------------------------------------------

Nothing == [wanted |-> Place(Local, None, None), on |-> Place(Local, None, None)]

(* php_init_msql.                                                          *)
MsqlReset ==
  /\ sock' = None /\ curDB' = None /\ curPort' = Empty /\ results' = {}
  /\ curHost' = Local /\ ind' = 1
  /\ owned' = {} /\ ran' = Nothing

MsqlInit ==
  /\ sock = None /\ curDB = None /\ curPort = Empty /\ results = {}
  /\ curHost = Local /\ ind = 1
  /\ owned = {} /\ ran = Nothing
  /\ env \in (IF "port" \in habits THEN Ports ELSE {None})
  /\ first = IF build = "apache" THEN {} ELSE Functions1
  /\ crashed = FALSE

MsqlNext ==
  /\ "connects" \in habits /\ ~crashed
  /\ \/ \E d \in DBs : Msql(d) \/ MsqlListTables(d)
     \/ MsqlCreateDB \/ MsqlDropDB \/ MsqlListDBs
     \/ \E h \in Hosts : MsqlConnect(h)
     \/ \E n \in 1..MaxResults : MsqlFreeResult(n) \/ MsqlName(n)
     \/ \E p \in Ports : PutEnv(p)
     \/ MsqlLog

-----------------------------------------------------------------------------
(* Properties. *)

MsqlTypeOK ==
  /\ sock \in {None} \union Sockets
  /\ curDB \in DBs \union {LogDB, None} /\ curPort \in Ports \union {None, Empty}
  /\ curHost \in Hosts /\ env \in Ports \union {None} /\ first \subseteq Functions1
  /\ ind \in 1 .. MaxResults + 1
  /\ results \subseteq [ind : 1..MaxResults, of : Places]
  /\ owned \subseteq [ind : 1..MaxResults, of : Places]
  /\ ran \in [wanted : Places, on : Places] /\ crashed \in BOOLEAN

(* A query runs on the host, by the port and on the database that it was   *)
(* sent to, on pages that list no tables; and so does that of the log, if  *)
(* the page neither connects to other hosts nor changes the port (Msql,    *)
(* MsqlLog).                                                               *)
RanWhereWanted ==
  "lists" \notin habits /\ ("logs" \in habits => habits \cap {"hosts", "switch"} = {}) =>
    ran.on = ran.wanted

(* A result is there, and is what the page asked for, until the page frees *)
(* it or connects anew, if no port is set in the environment and the log   *)
(* does not connect for a page that uses other hosts.                      *)
MsqlResultsKept ==
  habits \cap {"lists", "port", "switch"} = {} /\ ~({"hosts", "logs"} \subseteq habits) =>
    \A r \in owned : MsqlResult(r.ind) = {r.of}

(* The connection that is remembered is open, and NULL is not compared,    *)
(* however queries fail and connections are made, if the page changes no   *)
(* port that was not set.                                                  *)
MsqlSound ==
  habits \cap {"nolog", "gone"} = {} /\ ("switch" \in habits => "port" \in habits) =>
    ~crashed /\ (sock # None => sock.open)
=============================================================================
