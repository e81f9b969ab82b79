-------------------------------- MODULE Session --------------------------------
(***************************************************************************)
(* Requests for pages, one after another: finding the file (OpenFile,      *)
(* FixFilename), access control (CheckAccess), the page with its header    *)
(* and its errors (head.c, error.c), and the end of the request (Exit), in *)
(* a process that serves one page (CGI) or many (FastCGI, Apache), while   *)
(* administrators change the rule-sets (Access).                           *)
(*                                                                         *)
(* Of a page only what it does to all this is modelled: its output, its    *)
(* errors, the header and the error reporting it sets, its includes and    *)
(* Exit.  The Apache module gets the file of the page from the server.     *)
(***************************************************************************)
EXTENDS Access

CONSTANTS
  Disk,        \* the size of each file, by its path; every proper prefix is a directory
  Htm(_),      \* the name with .htm of a name with .html, None of others
  Start,       \* the directory in which the process starts
  Asked,       \* the requests for pages, each with the habits it takes
  Includes,    \* the names that pages include, each with the habits it takes
  Visitors,    \* what patterns match them, whether they give an e-mail address, and a password
  MaxSteps     \* bound: what a page does

(* asks: a rule asks for an address or a password.  badpattern: a pattern  *)
(* is no regular expression.  bans: a visitor is refused.  missing: there  *)
(* is no such file.  script: it, or its directory, is found by way of      *)
(* SCRIPT_NAME.  relative, root: its name begins with a directory, or is   *)
(* in the root.  noslash: it is the index of a directory named without a   *)
(* slash.  works: the page does something.  late, empty: Header comes      *)
(* after other output, or without a string.  garbled: the posted data is   *)
(* no form.                                                                *)
SessionHabits ==
  {"asks", "badpattern", "bans", "missing", "script", "relative", "root", "noslash", "works",
    "late", "empty", "garbled"}

ASSUME SessionAssumption ==
  /\ MaxSteps \in Nat
  /\ \A w \in Workloads :
       w.build \in {"cgi", "fastcgi", "apache"} /\ w.habits \subseteq AccessHabits \union SessionHabits
  /\ \A v \in Visitors : v.password \in Texts
  /\ \A p \in DOMAIN Disk : Disk[p] \in Nat \ {0}

VARIABLES
  phase,    \* where the request is
  asked,    \* the request, who makes it, and whether the process has fetched something before
  io,       \* header: HeaderPrinted; sent, misplaced: headers that went out; body: what else did
  report,   \* PrintErrors
  exited,   \* ExitCalled
  running,  \* is state another than 99?
  judge,    \* CheckAccess: rules, the rule it is at, allow, the forms shown, Logging, ShowInfo
  due,      \* history: the rule-set that applies, when it is read
  cwd,      \* the working directory
  gsb,      \* what the last stat that worked was about: a file or directory, and its size
  parsed,   \* the file last given to the parser, its size, the page's directory; history: what it should be
  steps     \* what the page may still do

page == <<io, report, exited, running, judge, due, cwd, gsb, parsed, steps>>
vars == <<access, phase, asked, page>>

Cgi == work.build # "apache"

-----------------------------------------------------------------------------
(* The header, and errors. *)

NoOutput == [header |-> 0, sent |-> 0, misplaced |-> FALSE, body |-> {}]

(* Mutant: the header is not marked as sent.                               *)
php_header_unmarked(o) ==
  CASE o.header = 0 \/ (o.header = 2 /\ ~Cgi) -> [o EXCEPT !.sent = @ + 1, !.misplaced = @ \/ o.body # {}]
    [] OTHER -> o

php_header(o) ==
  CASE o.header = 0 \/ (o.header = 2 /\ ~Cgi) ->
         [o EXCEPT !.header = 1, !.sent = @ + 1, !.misplaced = @ \/ o.body # {}]
    [] OTHER -> o

Printed(o, what) == [o EXCEPT !.body = @ \union {what}, !.misplaced = @ \/ o.sent = 0]

Error(o) == IF report THEN Printed(php_header(o), "error") ELSE o

(* Header.  The CGI program takes the header for printed before it has its *)
(* string, and prints it where it is; the module keeps it for later.       *)
Header(o, string) ==
  IF Cgi
    THEN IF string
           THEN [o EXCEPT !.header = 1, !.sent = IF @ = 0 THEN 1 ELSE @, !.misplaced = @ \/ o.body # {}]
           ELSE Error([o EXCEPT !.header = 1])
    ELSE IF ~string THEN Error(o)
         ELSE IF o.header = 1 THEN o ELSE [o EXCEPT !.header = 2]

-----------------------------------------------------------------------------
(* Finding a file.  A name is whether it begins with a slash, the          *)
(* directories, and what is behind the last slash, if anything.            *)

IsDir(p) == p = <<>> \/ \E f \in DOMAIN Disk : Len(p) < Len(f) /\ IsPrefix(p, f)
IsFile(p) == p \in DOMAIN Disk

(* The first of the paths that is a file, or None.                         *)
First(paths) == FoldLeft(LAMBDA p, q : IF p = None /\ IsFile(q) THEN q ELSE p, None, paths)

Size(p) == IF IsFile(p) THEN Disk[p] ELSE 1

StatOf(p) == IF p = None THEN gsb ELSE [of |-> p, size |-> Size(p)]

(* The page is found in the directory the name leads to from a place.      *)
Look(dir, n, htm) ==
  LET p == IF n.base = None THEN dir ELSE Append(dir, n.base) IN
  CASE IsDir(p) -> First(<<Append(p, "index.html"), Append(p, "index.phtml")>>)
    [] IsFile(p) -> p
    [] OTHER -> IF htm /\ n.base # None /\ Htm(n.base) # None
                  THEN First(<<Append(dir, Htm(n.base))>>) ELSE None

(* A slash alone at the beginning is lost.  With cd the name is looked for *)
(* from where chdir has led, a relative one for a second time.             *)
FixFilename(n, cd, wd) ==
  LET bare  == n.dir = <<>>
      At(d) == IF n.abs THEN n.dir ELSE d \o n.dir
      wd2   == IF cd /\ ~bare /\ IsDir(At(wd)) THEN At(wd) ELSE wd
      dir   == IF bare THEN wd ELSE At(wd2)
      found == Look(dir, n, ~bare)
      p     == IF n.base = None THEN dir ELSE Append(dir, n.base)
  IN  [found |-> found, cwd |-> wd2, stat |-> StatOf(IF found = None /\ IsDir(p) THEN p ELSE found)]

(* Mutant: the directory is changed for an include, too.                   *)
OpenFileFromTop(n, pi, sn, top) ==
  LET one == FixFilename(n, TRUE, cwd) IN
  [file |-> one.found, size |-> one.stat.size, cwd |-> one.cwd, stat |-> one.stat]

(* OpenFile: the size is that of the first look, the file that of the      *)
(* second, beside the program, if the first finds none.  The name of a     *)
(* relative file is glued to that of the directory and not found.          *)
OpenFile(n, pi, sn, top) ==
  LET one == FixFilename(n, top, cwd)
      two == FixFilename([pi EXCEPT !.dir = sn \o @], TRUE, one.cwd)
  IN  IF one.found # None \/ sn = None \/ ~pi.abs
        THEN [file |-> one.found, size |-> one.stat.size, cwd |-> one.cwd, stat |-> one.stat]
        ELSE [file |-> two.found, size |-> one.stat.size, cwd |-> two.cwd,
              stat |-> IF two.found = None /\ two.stat = gsb THEN one.stat ELSE two.stat]

(* What the name stands for, seen from a directory.                        *)
Target(n, from) == Look(IF n.abs THEN n.dir ELSE from \o n.dir, n, n.dir # <<>>)

Directory(p) == SubSeq(p, 1, Len(p) - 1)

FileName == [abs : BOOLEAN, dir : Seq(STRING), base : STRING \union {None}]

(* The habits with which a name may stand for another file, or for none.   *)
Devious == {"script", "relative", "root", "noslash"}

(* Looking beside the program as well leads to another file.               *)
Beside(n, sn) ==
  LET m == [n EXCEPT !.dir = sn \o @] IN m.dir = <<>> \/ Look(m.dir, m, TRUE) # None

(* A name that begins with a slash has a directory, and one that does not  *)
(* has none.                                                               *)
Straight(n) == n.abs <=> n.dir # <<>>

(* The name of a directory ends with a slash, and no other does.           *)
Slashed(n, dir) ==
  IF n.base = None THEN ~IsFile(dir) ELSE ~IsDir(Append(dir, n.base))

(* A request to the server is for an absolute name.  Names that are found  *)
(* beside the program, and directories there that an include could be led  *)
(* to, are for requests and pages that say so.                             *)
ASSUME NamesAssumption ==
  LET Programs == {r.script : r \in Asked} \union {Directory(f) : f \in DOMAIN Disk} IN
  /\ DOMAIN Disk \subseteq Seq(STRING) /\ None \notin DOMAIN Disk /\ Start \in Seq(STRING)
  /\ \A f \in DOMAIN Disk : ~IsDir(f)
  /\ \A r \in Asked :
       /\ r.name \in FileName /\ r.info \in FileName
       /\ r.script = None \/ r.script \in Seq(STRING)
       /\ IF r.line THEN r.script = None ELSE r.name.abs
       /\ r.habits \cap Devious = {} =>
            /\ Straight(r.name) /\ Slashed(r.name, IF r.name.abs THEN r.name.dir ELSE Start)
            /\ r.script # None /\ r.info.abs /\ Target(r.name, Start) = None => ~Beside(r.info, r.script)
  /\ \A i \in Includes :
       /\ i.name \in FileName
       /\ i.habits \cap Devious = {} =>
            /\ Straight(i.name)
            /\ i.name.abs /\ Target(i.name, Start) = None =>
                 \A sn \in Programs \ {None} : ~Beside(i.name, sn) /\ ~IsDir(sn \o i.name.dir)

-----------------------------------------------------------------------------
(* A request begins. *)

Nobody == [set |-> None, at |-> 0, allow |-> 0, forms |-> {}, logging |-> TRUE, info |-> TRUE]

(* The module is given an open file and its size, and is in its directory. *)
Begin ==
  /\ phase = "idle"
  /\ Quiet \/ Has("together")
  /\ \E r \in Asked, v \in Visitors :
       /\ r.habits \subseteq work.habits
       /\ r.line => work.build = "cgi"
       /\ work.build = "apache" => Target(r.name, <<>>) # None
       /\ asked' = [request |-> r, visitor |-> v,
                    stale |-> asked # None /\ (asked.stale \/ judge.set # None)]
       /\ IF Cgi
            THEN /\ cwd' = IF work.build = "cgi" THEN Start ELSE cwd
                 /\ parsed' = None
            ELSE LET f == Target(r.name, <<>>) IN
                 /\ cwd' = Directory(f)
                 /\ parsed' = [file |-> f, size |-> Disk[f], due |-> f, home |-> Directory(f)]
  /\ io' = NoOutput /\ report' = TRUE
  /\ exited' = FALSE /\ running' = TRUE
  /\ judge' = Nobody /\ due' = None /\ steps' = MaxSteps
  /\ gsb' = IF work.build = "cgi" THEN [of |-> None, size |-> 0] ELSE gsb
  /\ phase' = "data"
  /\ UNCHANGED access

(* TreatData may find an error in what is posted.                          *)
TreatData ==
  /\ phase = "data"
  /\ io' \in {io} \union (IF Has("garbled") THEN {Error(io)} ELSE {})
  /\ phase' = IF Cgi THEN "open" ELSE "access"
  /\ UNCHANGED <<access, asked, report, exited, running, judge, due, cwd, gsb, parsed, steps>>

(* A FastCGI process ends when a page cannot be opened.                    *)
GiveUp == phase' = IF work.build = "fastcgi" THEN "dead" ELSE "done"

OpenPage ==
  LET r == asked.request IN
  /\ phase = "open"
  /\ \E o \in {OpenFile(r.name, r.info, r.script, TRUE)} :
       /\ cwd' = o.cwd /\ gsb' = o.stat
       /\ IF o.file = None
            THEN io' = Error(io) /\ GiveUp
            ELSE phase' = (IF r.line THEN "parse" ELSE "access") /\ UNCHANGED io
       /\ parsed' = [file |-> o.file, size |-> o.size, due |-> Target(r.name, cwd),
                      home |-> IF o.file = None THEN None ELSE Directory(o.file)]
  /\ UNCHANGED <<access, asked, report, exited, running, judge, due, steps>>

-----------------------------------------------------------------------------
(* CheckAccess. *)

Applies(sets) == IF sets[Page] # None THEN sets[Page] ELSE sets[Default]

(* A process that serves many pages from a flat file has for a page without*)
(* a set of its own what it fetched before.  That was the address of a page*)
(* shown to those who are refused, which has no rules, unless its memory   *)
(* has become an empty string by now, or it has not fetched anything.      *)
Resident == work.db = "flat" /\ work.build # "cgi"
NoRules  == [def |-> "pub", rules |-> <<>>]

(* Mutant: the default set is not looked for.                              *)
FetchedSetsOwn == {IF CanRead THEN Parsed(cfg[Page]) ELSE None}

FetchedSets ==
  IF ~CanRead THEN {None}
  ELSE {Parsed(Applies(cfg))}
         \union (IF Resident /\ asked.stale /\ cfg[Page] = None THEN {NoRules} ELSE {})

(* A file that cannot be opened is taken for none, and one without rules   *)
(* for this page stays open.                                               *)
CheckAccess ==
  /\ phase = "access"
  /\ due' = Applies(meant)
  /\ \E set \in FetchedSets :
       /\ judge' = [judge EXCEPT !.set = set, !.at = 1]
       /\ reads' = IF set # None /\ set.rules = <<>> THEN reads \union {Server} ELSE reads
  /\ phase' = "rule"
  /\ UNCHANGED <<work, exists, cfg, writer, desk, history, asked, io, report, exited, running, cwd, gsb,
                 parsed, steps>>

(* Mutant: the parser is not ended.                                        *)
ExitRunning(o) ==
  /\ io' = IF exited THEN o ELSE php_header(o)
  /\ exited' = TRUE
  /\ running' = running
  /\ reads' = IF exited THEN reads ELSE reads \ {Server}

(* Exit: the header, if it did not go out, and the end of the parser.      *)
Exit(o) ==
  /\ io' = IF exited THEN o ELSE php_header(o)
  /\ exited' = TRUE
  /\ running' = IF exited THEN running ELSE FALSE
  /\ reads' = IF exited THEN reads ELSE reads \ {Server}

(* ShowEmailPage, ShowPasswordPage and ShowBanPage.                        *)
ShowPage(form) == Exit(Printed(php_header(io), form))

Left == judge.set # None /\ judge.at <= Len(judge.set.rules)

(* Mutant: after a rule that does not match the loop does not go on.       *)
CheckRuleAgain ==
  LET r == judge.set.rules[judge.at] IN
  /\ phase = "rule" /\ Left
  /\ judge' = IF r.patt \in asked.visitor.match THEN [judge EXCEPT !.at = @ + 1] ELSE judge
  /\ UNCHANGED <<io, exited, running, reads>>
  /\ UNCHANGED <<work, exists, cfg, writer, desk, history, asked, phase, report, due, cwd, gsb, parsed, steps>>

(* One rule.  The one that is no regular expression is tried for ever.     *)
CheckRule ==
  LET r == judge.set.rules[judge.at]
      v == asked.visitor
      Past(j) == judge' = [j EXCEPT !.at = @ + 1]
      Asks(form) == Past([judge EXCEPT !.forms = @ \union {form}, !.info = FALSE]) /\ ShowPage(form)
      Still == UNCHANGED <<io, exited, running, reads>> IN
  /\ phase = "rule" /\ Left
  /\ \/ r.patt = "bad" /\ io' = Error(io) /\ UNCHANGED <<judge, exited, running, reads>>
     \/ r.patt # "bad" /\ r.patt \notin v.match /\ Past(judge) /\ Still
     \/ /\ r.patt # "bad" /\ r.patt \in v.match
        /\ \/ r.mode = "E" /\ IF v.email THEN Past(judge) /\ Still ELSE Asks("email")
           \/ r.mode = "P" /\ IF AddSlashes(v.password) = r.password THEN Past(judge) /\ Still ELSE Asks("password")
           \/ /\ r.mode \in {"A", "B"} /\ Still
              /\ Past([judge EXCEPT !.allow = IF r.mode = "A" THEN @ + 1 ELSE @ - 1])
           \/ r.mode \in {"L", "N"} /\ Past([judge EXCEPT !.logging = (r.mode = "L")]) /\ Still
           \/ r.mode \in {"S", "H"} /\ Past([judge EXCEPT !.info = (r.mode = "S")]) /\ Still
           \/ r.mode \notin Letters /\ Past(judge) /\ Still
  /\ UNCHANGED <<work, exists, cfg, writer, desk, history, asked, phase, report, due, cwd, gsb, parsed, steps>>

(* No allow and no ban counts more than another; private counts as a ban.  *)
Verdict ==
  LET allow == IF judge.set # None /\ judge.set.rules # <<>> /\ judge.set.def = "pri"
                 THEN judge.allow - 1 ELSE judge.allow IN
  /\ phase = "rule" /\ ~Left
  /\ IF allow < 0
       THEN /\ judge' = [judge EXCEPT !.forms = @ \union {"ban"}, !.info = FALSE]
            /\ ShowPage("ban") /\ GiveUp
       ELSE /\ phase' = IF Cgi THEN "parse" ELSE "page"
            /\ UNCHANGED <<judge, io, exited, running, reads>>
  /\ UNCHANGED <<work, exists, cfg, writer, desk, history, asked, report, due, cwd, gsb, parsed, steps>>

-----------------------------------------------------------------------------
(* The page. *)

(* ParserInit sets the parser going, whatever stopped it.                  *)
ParserInit ==
  /\ phase = "parse"
  /\ running' = TRUE
  /\ phase' = "page"
  /\ UNCHANGED <<access, asked, io, report, exited, judge, due, cwd, gsb, parsed, steps>>

Step == phase = "page" /\ running /\ Has("works") /\ steps > 0 /\ steps' = steps - 1
Shown(o) == Printed(php_header(o), IF exited THEN "after" ELSE "page")
OfPage == <<work, exists, cfg, writer, desk, history, asked, phase, judge, due>>

Echo ==
  /\ Step /\ io' = Shown(io)
  /\ UNCHANGED <<OfPage, reads, report, exited, running, cwd, gsb, parsed>>

PageError ==
  /\ Step /\ io' = Error(io)
  /\ UNCHANGED <<OfPage, reads, report, exited, running, cwd, gsb, parsed>>

SetErrorReporting ==
  /\ Step /\ report' = ~report
  /\ UNCHANGED <<OfPage, reads, io, exited, running, cwd, gsb, parsed>>

PageHeader ==
  /\ Step
  /\ \/ (io.body = {} \/ Has("late")) /\ io' = Header(io, TRUE)
     \/ Has("empty") /\ io' = Header(io, FALSE)
  /\ UNCHANGED <<OfPage, reads, report, exited, running, cwd, gsb, parsed>>

(* Include: the file has some output, and may call Exit, which must end    *)
(* the page too.                                                           *)
Include ==
  /\ Step
  /\ \E n \in {m \in Includes : m.habits \subseteq work.habits} :
     \E o \in {OpenFile(n.name, n.name, IF Cgi THEN asked.request.script ELSE parsed.home, FALSE)} :
       /\ cwd' = o.cwd /\ gsb' = o.stat
       /\ IF o.file = None
            THEN io' = Error(Error(io)) /\ UNCHANGED <<reads, exited, running>>
            ELSE \/ Exit(Shown(io))
                 \/ io' = Shown(io) /\ running' = ~exited /\ UNCHANGED <<reads, exited>>
       /\ parsed' = [parsed EXCEPT !.file = o.file, !.size = o.size, !.due = Target(n.name, parsed.home)]
  /\ UNCHANGED <<OfPage, report>>

ExitPage ==
  /\ Step /\ Exit(io)
  /\ UNCHANGED <<OfPage, report, cwd, gsb, parsed>>

EndOfFile ==
  /\ phase = "page" /\ running
  /\ running' = FALSE
  /\ UNCHANGED <<OfPage, reads, io, report, exited, cwd, gsb, parsed, steps>>

End ==
  /\ phase = "page" /\ ~running
  /\ Exit(io)
  /\ phase' = "done"
  /\ UNCHANGED <<work, exists, cfg, writer, desk, history, asked, report, judge, due, cwd, gsb, parsed, steps>>

Done ==
  /\ phase = "done"
  /\ phase' = "idle"
  /\ UNCHANGED <<access, asked, page>>

-----------------------------------------------------------------------------

Init ==
  /\ AccessInit
  /\ phase = "idle" /\ asked = None
  /\ io = NoOutput /\ report = TRUE /\ exited = FALSE /\ running = TRUE
  /\ judge = Nobody /\ due = None
  /\ cwd = Start /\ gsb = [of |-> None, size |-> 0]
  /\ parsed = None /\ steps = 0

Serve ==
  \/ TreatData \/ OpenPage \/ CheckAccess \/ CheckRule \/ Verdict \/ ParserInit
  \/ Echo \/ PageError \/ SetErrorReporting \/ PageHeader \/ Include \/ ExitPage
  \/ EndOfFile \/ End \/ Done

Next ==
  \/ Begin \/ Serve
  \/ /\ phase = "idle" \/ Has("together")
     /\ Administer
     /\ UNCHANGED <<phase, asked, page>>

Spec == Init /\ [][Next]_vars /\ WF_vars(Serve)

-----------------------------------------------------------------------------
(* Properties. *)

Without(H) == work.habits \cap H = {}
Over == phase \in {"done", "dead"}

(* What a rule-set means for a visitor: who is refused, by which pages,    *)
(* and whether the visit is logged, and counters shown, as the last rule   *)
(* for it says.                                                            *)
Meaning(set, v) ==
  LET all   == IF set = None THEN {} ELSE {i \in DOMAIN set.rules : set.rules[i].patt \in v.match}
      For(modes) == {i \in all : set.rules[i].mode \in modes}
      Unknown == {i \in For({"P"}) : set.rules[i].password # v.password}
                   \union (IF v.email THEN {} ELSE For({"E"}))
      Ends(on, off) == \A i \in off : \E j \in on : j > i
      private == IF set # None /\ set.def = "pri" THEN 1 ELSE 0
      banned == Cardinality(For({"A"})) < Cardinality(For({"B"})) + private
  IN  [forms   |-> {IF set.rules[i].mode = "E" THEN "email" ELSE "password" : i \in Unknown}
                     \union (IF banned THEN {"ban"} ELSE {}),
       logging |-> Ends(For({"L"}), For({"N"})),
       info    |-> ~banned /\ Ends(For({"S"}), For({"H"}) \union Unknown)]

(* A visitor is judged by the rule-set that the administrators made for    *)
(* the page, all of its rules and no others (CheckAccess), if nobody       *)
(* changes them at that moment, when with gdbm they cannot be read, and in *)
(* a flat file may not be there.  Not so for a page without a set of its   *)
(* own where a process serves many pages from a flat file: it may be       *)
(* judged by none.                                                         *)
RulesApplied ==
  /\ Intact /\ ~Has("together")
  /\ phase \in {"parse", "page", "done", "dead"}
  /\ Resident /\ asked.stale => due = meant[Page]
  => LET m == Meaning(due, asked.visitor) IN
     judge.forms = m.forms /\ judge.logging = m.logging /\ judge.info = m.info

(* The answer begins with one header, whatever goes wrong and in whatever  *)
(* order (php_header, Error, Exit); for pages that call Header as they     *)
(* should, in the CGI program.                                             *)
OneHeader ==
  (Cgi => Without({"late", "empty"})) => (Over => io.sent = 1 /\ ~io.misplaced)

(* The answer is the page, or the pages with which the rules ask or        *)
(* refuse, each of these and never both; and after Exit there is nothing   *)
(* more of the page (ShowPage, Exit, Include).  Not so in the CGI program  *)
(* where a rule asks, which shows the form, and goes on (ParserInit).      *)
OneAnswer ==
  (Cgi => judge.forms \subseteq {"ban"}) =>
    (Over => LET answer == io.body \ {"error"} IN
             answer = judge.forms \/ (judge.forms = {} /\ answer = {"page"}))

(* The file that is parsed is the one the name stands for, seen from where *)
(* the process starts, or, for all that is included, from the directory of *)
(* the page; it is parsed to its end, and none is missed that is there     *)
(* (OpenFile, FixFilename).                                                *)
FileFaithful ==
  Without(Devious) =>
    (parsed # None => /\ parsed.file = parsed.due
                      /\ parsed.file # None => parsed.size = Disk[parsed.file])

(* A request comes to its end, and its process takes the next.  Not with a *)
(* pattern that is no regular expression; nor in a FastCGI process where a *)
(* page is not found or refused.                                           *)
Served ==
  (/\ Without({"badpattern"})
   /\ work.build = "fastcgi" => Without({"missing", "bans", "saves"})
   /\ phase # "idle") ~> (phase = "idle")
=============================================================================
