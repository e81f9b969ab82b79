-------------------------------- MODULE Access --------------------------------
(***************************************************************************)
(* The file with the rule-sets of one user, and the administrators who     *)
(* change it on the ?config screen (conf.c, acc.c).  Each request of an    *)
(* administrator is a process of its own, which opens and closes the dbm   *)
(* file several times; Session adds the process that serves pages and      *)
(* reads the file.                                                         *)
(*                                                                         *)
(* The dbm file is opened as DbmLock describes: gdbm refuses to open what  *)
(* somebody else writes, or to write what somebody reads; a flat file      *)
(* locks writers once they have opened it, and readers never.  A replace   *)
(* is seen in the flat file as two steps.  Administrators know their       *)
(* password; it and the addresses of the pages shown to those who are      *)
(* refused are left out.                                                   *)
(*                                                                         *)
(* Of a key that is not there _dbmFetch returns nothing with gdbm, and in  *)
(* a flat build the content that the process has fetched before: on the    *)
(* screen that is the password, which each request fetches first.          *)
(***************************************************************************)
EXTENDS Rules

CONSTANTS
  Admins,      \* administrators
  Server,      \* the process that serves pages
  None,        \* no string, no process
  Page,        \* the key of the page, beside Default
  EditRules,   \* bound: what a rule is changed into
  Configs,     \* rule-sets to begin with: what they are, and the habits of who wrote them
  MaxChanges,  \* bound: requests of administrators
  Workloads    \* what happens: builds, administrators, habits

Default == "cfg-accessALL"
Keys    == {Default, Page}
Empty   == [k \in Keys |-> None]
Clients == Admins \union {Server}

(* The string of a rule-set, or none.                                      *)
Str(set) == IF set = None THEN None ELSE Write(set)

(* adds, saves: rules are added, forms are saved.  fresh: there is no file *)
(* at first.  kill: a request may end at any time.  passfirst: the first   *)
(* rule of the default set may ask for a password.  slashes: patterns may  *)
(* have a character to which a slash is added.  together: pages are served *)
(* while a request of an administrator is under way.  The others are       *)
(* described in Session.                                                   *)
AccessHabits == {"adds", "saves", "fresh", "kill", "passfirst", "slashes", "together"}

One(w) == \A a, b \in w.admins : a = b

(* Bounds: a request is killed only with gdbm, which replaces a record as  *)
(* a whole, and where there is one administrator; and two do not make a    *)
(* flat file at once.                                                      *)
ASSUME AccessAssumption ==
  /\ Page # Default /\ Server \notin Admins /\ None \notin Clients
  /\ MaxChanges \in Nat
  /\ \A w \in Workloads :
       /\ w.db \in {"gdbm", "flat"} /\ w.admins \subseteq Admins
       /\ "kill" \in w.habits => w.db = "gdbm" /\ One(w)
       /\ "fresh" \in w.habits => w.db = "gdbm" \/ One(w)

Plain(rule) == AddSlashes(rule.patt) = rule.patt

(* The files to begin with were written by the screen, which deletes a set *)
(* without rules, and always leaves a first rule in the default one; or a  *)
(* page has put a set of its own into a flat file, which the screen never  *)
(* does (AddFile).                                                         *)
ASSUME ConfigsAssumption ==
  /\ EditRules \subseteq AllRules
  /\ None \notin RuleSets /\ None \notin Seq(AllFields)
  /\ \A c \in Configs :
       /\ c.sets \in [Keys -> RuleSets \union {None}] /\ c.sets[Default] # None
       /\ \A k \in Keys : c.sets[k] # None => c.sets[k].rules # <<>>
       /\ "passfirst" \notin c.habits => c.sets[Default].rules[1].mode # "P"
       /\ "slashes" \notin c.habits =>
            \A k \in Keys : c.sets[k] # None => \A i \in DOMAIN c.sets[k].rules : Plain(c.sets[k].rules[i])

VARIABLES
  work,    \* the workload, chosen once
  exists,  \* is there a file?
  cfg,     \* the strings in it
  reads,   \* who has it open for reading
  writer,  \* who has it open for writing, and locked
  pc,      \* where the request of an administrator is
  req,     \* what it is to do
  shown,   \* the forms an administrator has in front of him
  left,    \* requests left
  meant,   \* history: the rule-sets the administrators have made
  blind    \* history: was a set replaced that was not the one in the form?

file    == <<exists, cfg, reads, writer>>
desk    == <<pc, req, shown, left>>
history == <<meant, blind>>
access  == <<work, file, desk, history>>

Has(h) == h \in work.habits

Parsed(str) == IF str = None THEN None ELSE StrtoAccess(str)

Goto(a, l) == pc' = [pc EXCEPT ![a] = l]

-----------------------------------------------------------------------------
(* The dbm file. *)

CanRead == exists /\ (work.db = "gdbm" => writer = None)

(* For one who reads the file no more.                                     *)
CanWrite(a) == writer = None /\ (work.db = "gdbm" => reads \subseteq {a})

(* _dbmClose, then _dbmOpen with mode w: with gdbm it may fail, and the    *)
(* request goes on without a file; a flat file is waited for.              *)
Reopened(a) == /\ CanWrite(a)
               /\ writer' = a /\ reads' = reads \ {a}

Refused(a) == /\ work.db = "gdbm" /\ ~CanWrite(a)
              /\ reads' = reads \ {a} /\ writer' = writer

(* _dbmClose, then _dbmOpen with mode r, in two steps: others may come in  *)
(* between.                                                                *)
OpenToRead(a) == /\ reads' = IF CanRead THEN reads \union {a} ELSE reads
                 /\ writer' = writer

-----------------------------------------------------------------------------
(* Configuration. *)

Quiet == \A a \in Admins : pc[a] = "idle"

(* What a form is turned into: a rule less, a rule changed, another type.  *)
Removed(set, i)     == [set EXCEPT !.rules = RemoveAt(@, i)]
Replaced(set, i, r) == [set EXCEPT !.rules[i] = r]
Turned(set)         == [set EXCEPT !.def = IF @ = "pub" THEN "pri" ELSE "pub"]

(* The first rule of the default set asks for a password on request only.  *)
MayBe(k, i, r) ==
  /\ k = Default /\ i = 1 /\ r.mode = "P" => Has("passfirst")
  /\ ~Plain(r) => Has("slashes")

(* Of a rule without a mode the form has none, and the program ends when   *)
(* it is posted.                                                           *)
Postable(set) == \A i \in DOMAIN set.rules : set.rules[i].mode \in Letters

Edits(set, k) ==
  {Removed(set, i) : i \in {j \in DOMAIN set.rules : k = Default => j >= 2}}
    \union {Turned(set)}
    \union UNION {{Replaced(set, i, r) : r \in {q \in EditRules : MayBe(k, i, q)}} : i \in DOMAIN set.rules}

Requests(a) ==
  {[op |-> "view", key |-> Default, set |-> None, base |-> None, str |-> None]}
    \union {[op |-> "add", key |-> k, set |-> None, base |-> None, str |-> None] :
              k \in {j \in Keys : Has("adds") /\ shown[a][j] # None}}
    \union UNION {{[op |-> "save", key |-> k, set |-> s, base |-> shown[a][k], str |-> None] : s \in Edits(shown[a][k], k)} :
              k \in {j \in Keys : Has("saves") /\ shown[a][j] # None /\ Postable(shown[a][j])}}

(* The file that cannot be opened is taken for one that is not there.      *)
Configuration(a) ==
  /\ a \in work.admins /\ pc[a] = "idle" /\ left > 0
  /\ left' = left - 1
  /\ \E r \in Requests(a) : req' = [req EXCEPT ![a] = r]
  /\ OpenToRead(a)
  /\ Goto(a, IF CanRead THEN "file" ELSE "make")
  /\ UNCHANGED <<work, exists, cfg, shown, history>>

(* Mode n: gdbm empties the file when it has locked it, fopen before.      *)
Make(a) ==
  /\ pc[a] = "make"
  /\ IF work.db = "gdbm" /\ ~CanWrite(a)
       THEN Goto(a, "idle") /\ UNCHANGED file
       ELSE /\ exists' = TRUE /\ cfg' = Empty
            /\ Goto(a, "lock")
            /\ writer' = IF work.db = "gdbm" THEN a ELSE writer
            /\ UNCHANGED reads
  /\ UNCHANGED <<work, req, shown, left, history>>

Lock(a) ==
  /\ pc[a] = "lock"
  /\ writer \in {None, a}
  /\ writer' = a
  /\ Goto(a, "made")
  /\ UNCHANGED <<work, exists, cfg, reads, req, shown, left, history>>

(* What is inserted is the first of its key: nobody else has written since *)
(* the file was emptied.                                                   *)
Made(a) ==
  /\ pc[a] = "made"
  /\ cfg' = [cfg EXCEPT ![Default] = Initial]
  /\ meant' = [meant EXCEPT ![Default] = IF @ = None THEN StrtoAccess(Initial) ELSE @]
  /\ writer' = None
  /\ Goto(a, "reread")
  /\ UNCHANGED <<work, exists, reads, req, shown, left, blind>>

Reread(a) ==
  /\ pc[a] = "reread"
  /\ OpenToRead(a)
  /\ Goto(a, IF CanRead THEN "file" ELSE "idle")
  /\ UNCHANGED <<work, exists, cfg, req, shown, left, history>>

(* The password is made together with the default set.  A file without it, *)
(* which gdbm has emptied for one who was killed, is not shown.  (A flat   *)
(* file has it even while the default set is being replaced.)              *)
NoPassword == work.db = "gdbm" /\ cfg[Default] = None

AskPassword(a) ==
  /\ pc[a] = "file" /\ NoPassword
  /\ reads' = reads \ {a}
  /\ Goto(a, "idle")
  /\ req' = [req EXCEPT ![a] = None]
  /\ UNCHANGED <<work, exists, cfg, writer, shown, left, history>>

(* A page without a rule-set of its own is given the default one.  In a    *)
(* flat build it seems to have one: the password.                          *)
AddFile(a) ==
  /\ pc[a] = "file" /\ ~NoPassword
  /\ IF work.db = "flat" \/ cfg[Page] # None
       THEN Goto(a, "change") /\ UNCHANGED reads
       ELSE Goto(a, "open") /\ reads' = reads \ {a}
  /\ UNCHANGED <<work, exists, cfg, writer, req, shown, left, history>>

AddFileOpen(a) ==
  /\ pc[a] = "open"
  /\ \/ Reopened(a) /\ Goto(a, "fill")
     \/ Refused(a) /\ Goto(a, "change")
  /\ UNCHANGED <<work, exists, cfg, req, shown, left, history>>

(* gdbm inserts nothing under a key that is there by now.  The slashes of  *)
(* _dbmFetch are taken off by _dbmInsert.                                  *)
AddFileInsert(a) ==
  /\ pc[a] = "fill"
  /\ cfg' = [cfg EXCEPT ![Page] = IF @ = None THEN cfg[Default] ELSE @]
  /\ meant' = [meant EXCEPT ![Page] = IF @ = None THEN meant[Default] ELSE @]
  /\ writer' = None
  /\ Goto(a, "filled")
  /\ UNCHANGED <<work, exists, reads, req, shown, left, blind>>

AddFileEnd(a) ==
  /\ pc[a] = "filled"
  /\ OpenToRead(a)
  /\ Goto(a, "change")
  /\ UNCHANGED <<work, exists, cfg, req, shown, left, history>>

(* ChkPostVars, AddRule, PostToAccessStr: what is posted is the form, and  *)
(* what is added is read from the file.  _dbmReplace leaves slashes where  *)
(* they are; those that posted patterns come with have been taken off.     *)
(* For a key that is not there AddRule adds to nothing, or to the password,*)
(* which is read as pub.                                                   *)
NewString(r) ==
  CASE r.op = "save" -> IF r.set.rules = <<>> THEN None ELSE Write(r.set)
    [] r.op = "add"  ->
         LET nothing == IF work.db = "gdbm" THEN <<>> ELSE <<Field("def", "pub")>> IN
         Added(IF cfg[r.key] = None THEN nothing ELSE cfg[r.key], cfg[Default])

Change(a) ==
  LET r == req[a] IN
  /\ pc[a] = "change"
  /\ IF r.op = "view"
       THEN Goto(a, "show") /\ UNCHANGED <<file, req, history>>
       ELSE \/ /\ Reopened(a)
               /\ Goto(a, "write")
               /\ req' = [req EXCEPT ![a].str = NewString(r)]
               /\ cfg' = IF work.db = "flat" THEN [cfg EXCEPT ![r.key] = None] ELSE cfg
               /\ blind' = (blind \/ (r.op = "save" /\ Parsed(cfg[r.key]) # r.base))
               /\ meant' = [meant EXCEPT ![r.key] =
                    IF r.op = "save" THEN IF r.set.rules = <<>> THEN None ELSE r.set
                    ELSE [def   |-> IF @ = None THEN "pub" ELSE @.def,
                          rules |-> Append(IF @ = None THEN <<>> ELSE @.rules, meant[Default].rules[1])]]
               /\ UNCHANGED exists
            \/ Refused(a) /\ Goto(a, "show") /\ UNCHANGED <<exists, cfg, req, history>>
  /\ UNCHANGED <<work, shown, left>>

ChangeWrite(a) ==
  /\ pc[a] = "write"
  /\ cfg' = [cfg EXCEPT ![req[a].key] = req[a].str]
  /\ writer' = None
  /\ Goto(a, "written")
  /\ UNCHANGED <<work, exists, reads, req, shown, left, history>>

ChangeEnd(a) ==
  /\ pc[a] = "written"
  /\ OpenToRead(a)
  /\ Goto(a, "show")
  /\ UNCHANGED <<work, exists, cfg, req, shown, left, history>>

(* Without an open file, or without the default set, the program reads     *)
(* from no string, and ends.                                               *)
Show(a) ==
  /\ pc[a] = "show"
  /\ shown' = IF a \in reads /\ cfg[Default] # None
                THEN [shown EXCEPT ![a] = [k \in Keys |-> Parsed(cfg[k])]]
                ELSE shown
  /\ reads' = reads \ {a}
  /\ Goto(a, "idle")
  /\ req' = [req EXCEPT ![a] = None]
  /\ UNCHANGED <<work, exists, cfg, writer, left, history>>

(* The request is killed.                                                  *)
Killed(a) ==
  /\ Has("kill") /\ pc[a] # "idle"
  /\ reads' = reads \ {a}
  /\ writer' = IF writer = a THEN None ELSE writer
  /\ Goto(a, "idle")
  /\ req' = [req EXCEPT ![a] = None]
  /\ UNCHANGED <<work, exists, cfg, shown, left, history>>

-----------------------------------------------------------------------------

(* The forms in front of the administrators are from earlier requests.     *)
AccessInit ==
  /\ work \in Workloads
  /\ reads = {} /\ writer = None
  /\ pc = [a \in Admins |-> "idle"] /\ req = [a \in Admins |-> None]
  /\ left = MaxChanges
  /\ blind = FALSE
  /\ \/ Has("fresh") /\ exists = FALSE /\ cfg = Empty /\ meant = Empty
     \/ /\ ~Has("fresh") /\ exists = TRUE
        /\ \E c \in Configs : c.habits \subseteq work.habits /\ meant = c.sets
        /\ cfg = [k \in Keys |-> Str(meant[k])]
  /\ shown = [a \in Admins |-> meant]

Administer ==
  \E a \in Admins :
    \/ Configuration(a) \/ Make(a) \/ Lock(a) \/ Made(a) \/ Reread(a)
    \/ AskPassword(a) \/ AddFile(a) \/ AddFileOpen(a) \/ AddFileInsert(a) \/ AddFileEnd(a)
    \/ Change(a) \/ ChangeWrite(a) \/ ChangeEnd(a) \/ Show(a) \/ Killed(a)

-----------------------------------------------------------------------------
(* Properties. *)

Alone == One(work)

(* An administrator alone, or several of a flat file that is there; not    *)
(* after a killed request, nor where rules are added and the first one of  *)
(* the default set has three fields, or a pattern which is given slashes.  *)
Intact ==
  /\ ~Has("kill") /\ ~(Has("adds") /\ (Has("passfirst") \/ Has("slashes")))
  /\ Alone \/ (work.db = "flat" /\ ~Has("fresh"))

(* Whenever nobody is writing, the file holds the rule-sets that the       *)
(* administrators have made, read as CheckAccess and the next form will    *)
(* read them (StrtoAccess), with pages served meanwhile; and, if several   *)
(* do nothing but add rules, no form replaces a set that it did not show.  *)
RulesKept ==
  Intact => /\ writer = None => \A k \in Keys : Parsed(cfg[k]) = meant[k]
            /\ Alone \/ ~Has("saves") => ~blind
=============================================================================
