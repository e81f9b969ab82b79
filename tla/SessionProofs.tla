---------------------------- MODULE SessionProofs ----------------------------
(* OneHeader, OneAnswer, FileFaithful, RulesKept and RulesApplied for any  *)
(* files, names, rule-sets, visitors and pages, and any number of          *)
(* administrators; and, for any names, builds, pages and number of         *)
(* descriptors, what a page's open files and the remembered answer of      *)
(* stat() lead to, and what fgetss() takes out of what it reads (the       *)
(* module Files).                                                          *)
EXTENDS Session, Files, FiniteSetTheorems, SequenceTheorems, WellFoundedInduction, TLAPS

-----------------------------------------------------------------------------
(* The inductive invariant.  OneHeader speaks of the end of a request; it  *)
(* rests on what php_header, Error, Header and Exit keep between           *)
(* HeaderPrinted and what has gone out, and on every way to the end of a   *)
(* request passing one of them.                                            *)

Outputs  == {"error", "page", "after", "email", "password", "ban"}
Output == [header : {0, 1, 2}, sent : {0, 1}, misplaced : BOOLEAN, body : SUBSET Outputs]

(* The header is marked as sent exactly when it is out, and before it      *)
(* nothing is.                                                             *)
Orderly(o) ==
  /\ o \in Output
  /\ o.header = 1 <=> o.sent = 1
  /\ o.header = 2 => ~Cgi
  /\ o.sent = 0 => o.body = {}
  /\ ~o.misplaced

Proper == Cgi => Without({"late", "empty"})

HeaderInv ==
  Proper => /\ Orderly(io)
            /\ phase \in {"data", "open"} => report = TRUE
            /\ exited = TRUE \/ Over => io.header = 1

-----------------------------------------------------------------------------
(* What the helpers do. *)

(* php_header puts the header out, once.                                   *)
LEMMA php_headerOrderly ==
  ASSUME NEW o, Orderly(o)
  PROVE  Orderly(php_header(o)) /\ php_header(o).header = 1 /\ php_header(o).sent = 1
<1>0. o \in Output
  BY DEF Orderly
<1>1. CASE o.header = 0 \/ (o.header = 2 /\ ~Cgi)
  <2>1. PICK p : p = [o EXCEPT !.header = 1, !.sent = @ + 1, !.misplaced = @ \/ o.body # {}]
    OBVIOUS
  <2>2. o.sent = 0 /\ o.body = {} /\ ~o.misplaced
    BY <1>1 DEF Orderly, Output
  <2>3. p = [header |-> 1, sent |-> o.sent + 1, misplaced |-> (o.misplaced \/ o.body # {}), body |-> o.body]
    BY <1>0, <2>1, Zenon DEF Output
  <2>4. p.header = 1 /\ p.sent = o.sent + 1 /\ p.misplaced = (o.misplaced \/ o.body # {}) /\ p.body = o.body
    BY <2>3, Zenon
  <2>5. o.sent + 1 = 1 /\ o.sent + 1 \in {0, 1} /\ o.body \in SUBSET Outputs
    BY <2>2
  <2>6. p \in Output
    BY <2>3, <2>5, Zenon DEF Output
  <2>7. ~p.misplaced
    BY <2>2, <2>4, Zenon
  <2>8. Orderly(p) /\ p.header = 1 /\ p.sent = 1
    BY <2>2, <2>4, <2>5, <2>6, <2>7 DEF Orderly
  <2>9. php_header(o) = p
    BY <1>1, <2>1 DEF php_header
  <2>10. QED
    BY <2>8, <2>9
<1>2. CASE ~(o.header = 0 \/ (o.header = 2 /\ ~Cgi))
  <2>1. php_header(o) = o
    BY <1>2 DEF php_header
  <2>2. o.header = 1
    BY <1>2 DEF Orderly, Output
  <2>3. QED
    BY <2>1, <2>2 DEF Orderly
<1>3. QED
  BY <1>1, <1>2

(* What is printed behind the header is in its place.                      *)
LEMMA PrintedOrderly ==
  ASSUME NEW o, Orderly(o), o.sent = 1, NEW what \in Outputs
  PROVE  Orderly(Printed(o, what)) /\ Printed(o, what).header = o.header
<1>0. o \in Output
  BY DEF Orderly
<1>1. PICK p : p = [o EXCEPT !.body = @ \union {what}, !.misplaced = @ \/ o.sent = 0]
  OBVIOUS
<1>2. p = [header |-> o.header, sent |-> o.sent, misplaced |-> (o.misplaced \/ o.sent = 0),
           body |-> o.body \union {what}]
  BY <1>0, <1>1, Zenon DEF Output
<1>3. p.header = o.header /\ p.sent = o.sent /\ p.misplaced = (o.misplaced \/ o.sent = 0)
  BY <1>2, Zenon
<1>4. o.header \in {0, 1, 2} /\ o.sent \in {0, 1} /\ o.body \union {what} \in SUBSET Outputs
  BY <1>0 DEF Output
<1>5. p \in Output
  BY <1>2, <1>4, Zenon DEF Output
<1>6. ~o.misplaced /\ o.sent # 0
  BY DEF Orderly
<1>7. ~p.misplaced
  BY <1>3, <1>6, Zenon
<1>8. Orderly(p)
  BY <1>3, <1>5, <1>7 DEF Orderly
<1>9. QED
  BY <1>1, <1>3, <1>8 DEF Printed

(* An error is behind the header, and leaves it where it is.               *)
LEMMA ErrorOrderly ==
  ASSUME NEW o, Orderly(o)
  PROVE  /\ Orderly(Error(o))
         /\ o.header = 1 \/ report => Error(o).header = 1
<1>1. CASE report
  BY <1>1, php_headerOrderly, PrintedOrderly DEF Error, Outputs
<1>2. CASE ~report
  BY <1>2 DEF Error
<1>3. QED
  BY <1>1, <1>2

(* Header, called before anything else is out by pages of the CGI program. *)
LEMMA HeaderOrderly ==
  ASSUME NEW o, Orderly(o), NEW string \in BOOLEAN, Cgi => string /\ o.body = {}
  PROVE  Orderly(Header(o, string)) /\ (o.header = 1 => Header(o, string).header = 1)
<1>0. o \in Output /\ ~o.misplaced
  BY DEF Orderly
<1>1. CASE Cgi
  <2>1. PICK p : p = [o EXCEPT !.header = 1, !.sent = IF @ = 0 THEN 1 ELSE @, !.misplaced = @ \/ o.body # {}]
    OBVIOUS
  <2>2. p = [header |-> 1, sent |-> IF o.sent = 0 THEN 1 ELSE o.sent,
             misplaced |-> (o.misplaced \/ o.body # {}), body |-> o.body]
    BY <1>0, <2>1, Zenon DEF Output
  <2>3. /\ p.header = 1 /\ p.sent = (IF o.sent = 0 THEN 1 ELSE o.sent)
        /\ p.misplaced = (o.misplaced \/ o.body # {}) /\ p.body = o.body
    BY <2>2, Zenon
  <2>4. /\ (IF o.sent = 0 THEN 1 ELSE o.sent) = 1 /\ (IF o.sent = 0 THEN 1 ELSE o.sent) \in {0, 1}
        /\ o.body \in SUBSET Outputs /\ o.body = {}
    BY <1>0, <1>1 DEF Output
  <2>5. p \in Output
    BY <2>2, <2>4, Zenon DEF Output
  <2>6. ~p.misplaced
    BY <1>0, <2>3, <2>4, Zenon
  <2>7. Orderly(p)
    BY <2>3, <2>4, <2>5, <2>6 DEF Orderly
  <2>8. Header(o, string) = p
    BY <1>1, <2>1 DEF Header
  <2>9. QED
    BY <2>3, <2>7, <2>8
<1>2. CASE ~Cgi /\ ~string
  BY <1>2, ErrorOrderly DEF Header
<1>3. CASE ~Cgi /\ string
  <2>1. CASE o.header = 1
    BY <1>3, <2>1 DEF Header
  <2>2. CASE o.header # 1
    <3>1. PICK p : p = [o EXCEPT !.header = 2]
      OBVIOUS
    <3>2. p \in Output /\ p.header = 2 /\ p.sent = o.sent /\ p.misplaced = o.misplaced /\ p.body = o.body
      BY <1>0, <3>1 DEF Output
    <3>3. o.sent = 0 /\ o.body = {}
      BY <1>0, <2>2 DEF Orderly, Output
    <3>4. Orderly(p)
      BY <1>0, <1>3, <3>2, <3>3 DEF Orderly
    <3>5. Header(o, string) = p
      BY <1>3, <2>2, <3>1 DEF Header
    <3>6. QED
      BY <2>2, <3>4, <3>5
  <2>3. QED
    BY <2>1, <2>2
<1>4. QED
  BY <1>1, <1>2, <1>3

(* Exit puts the header out if it is not out yet.                          *)
LEMMA ExitOrderly ==
  ASSUME NEW o, Orderly(o), exited => o.header = 1, Exit(o)
  PROVE  Orderly(io') /\ io'.header = 1
BY php_headerOrderly DEF Exit

(* So do the pages that ask or refuse, and they stand behind it.           *)
LEMMA ShowPageOrderly ==
  ASSUME Orderly(io), exited => io.header = 1, NEW form \in Outputs, ShowPage(form)
  PROVE  Orderly(io') /\ io'.header = 1
<1>1. Orderly(Printed(php_header(io), form)) /\ Printed(php_header(io), form).header = 1
  BY php_headerOrderly, PrintedOrderly
<1>2. QED
  BY <1>1, ExitOrderly DEF ShowPage

(* What a page prints comes behind the header.                             *)
LEMMA ShownOrderly ==
  ASSUME NEW o, Orderly(o)
  PROVE  Orderly(Shown(o)) /\ Shown(o).header = 1
BY php_headerOrderly, PrintedOrderly DEF Shown, Outputs

(* No step changes what happens and how the program is built.              *)
LEMMA WorkStays ==
  ASSUME Next
  PROVE  work' = work
<1>1. CASE Begin
  BY <1>1 DEF Begin, access
<1>2. CASE Serve
  BY <1>2 DEF Serve, TreatData, OpenPage, CheckAccess, CheckRule, Verdict, ParserInit, Echo, PageError,
              SetErrorReporting, PageHeader, Include, ExitPage, EndOfFile, End, Done, OfPage, access
<1>3. CASE Administer
  BY <1>3 DEF Administer, Configuration, Make, Lock, Made, Reread, AskPassword, AddFile,
              AddFileOpen, AddFileInsert, AddFileEnd, Change, ChangeWrite, ChangeEnd, Show, Killed
<1>4. QED
  BY <1>1, <1>2, <1>3 DEF Next
-----------------------------------------------------------------------------
(* The invariant. *)

(* No step of a request disturbs the order, and none reaches the end of it *)
(* without a header.                                                       *)
LEMMA ServeStep ==
  ASSUME HeaderInv, Proper, Proper', work' = work, Serve
  PROVE  HeaderInv'
<1>1. /\ Orderly(io)
      /\ phase \in {"data", "open"} => report = TRUE
      /\ exited = TRUE \/ Over => io.header = 1
  BY DEF HeaderInv
<1>2. \A o : Orderly(o)' <=> Orderly(o)
  BY DEF Orderly, Cgi
<1>3. SUFFICES /\ Orderly(io')
               /\ phase' \in {"data", "open"} => report' = TRUE
               /\ exited' = TRUE \/ phase' \in {"done", "dead"} => io'.header = 1
  BY <1>2 DEF HeaderInv, Over, Orderly, Cgi
<1>4. CASE TreatData
  <2>1. Orderly(Error(io)) /\ (io.header = 1 => Error(io).header = 1)
    BY <1>1, ErrorOrderly
  <2>2. io' \in {io, Error(io)} /\ phase' \in {"open", "access"} /\ phase = "data" /\ UNCHANGED <<report, exited>>
    BY <1>4 DEF TreatData
  <2>3. QED
    BY <1>1, <2>1, <2>2
<1>5. CASE OpenPage
  <2>1. phase = "open" /\ UNCHANGED <<report, exited>>
    BY <1>5 DEF OpenPage
  <2>2. Orderly(Error(io)) /\ Error(io).header = 1
    BY <1>1, <2>1, ErrorOrderly
  <2>3. \/ io' = Error(io) /\ phase' \in {"dead", "done"}
        \/ io' = io /\ phase' \in {"parse", "access"}
    BY <1>5 DEF OpenPage, GiveUp
  <2>4. QED
    BY <1>1, <2>1, <2>2, <2>3
<1>6. CASE CheckAccess
  BY <1>1, <1>6 DEF CheckAccess
<1>7. CASE CheckRule
  <2>1. phase' = phase /\ phase = "rule"
    BY <1>7 DEF CheckRule
  <2>2. \/ io' = Error(io) /\ exited' = exited
        \/ io' = io /\ exited' = exited
        \/ \E form \in {"email", "password"} : ShowPage(form)
    BY <1>7, Zenon DEF CheckRule
  <2>3. Orderly(io') /\ (exited' = TRUE => io'.header = 1)
    <3>1. CASE io' = Error(io) /\ exited' = exited
      BY <1>1, <3>1, ErrorOrderly
    <3>2. CASE io' = io /\ exited' = exited
      BY <1>1, <3>2
    <3>3. CASE \E form \in {"email", "password"} : ShowPage(form)
      BY <1>1, <3>3, ShowPageOrderly DEF Outputs
    <3>4. QED
      BY <2>2, <3>1, <3>2, <3>3
  <2>4. QED
    BY <2>1, <2>3
<1>8. CASE Verdict
  <2>1. \/ ShowPage("ban") /\ phase' \in {"dead", "done"}
        \/ UNCHANGED <<io, exited>> /\ phase' \in {"parse", "page"}
    BY <1>8 DEF Verdict, GiveUp
  <2>2. CASE ShowPage("ban") /\ phase' \in {"dead", "done"}
    BY <1>1, <2>2, ShowPageOrderly DEF Outputs
  <2>3. CASE UNCHANGED <<io, exited>> /\ phase' \in {"parse", "page"}
    BY <1>1, <2>3
  <2>4. QED
    BY <2>1, <2>2, <2>3
<1>9. CASE ParserInit
  BY <1>1, <1>9 DEF ParserInit
<1>10. CASE Echo \/ PageError \/ SetErrorReporting
  <2>1. phase' = phase /\ phase = "page" /\ exited' = exited
    BY <1>10 DEF Echo, PageError, SetErrorReporting, OfPage, Step
  <2>2. io' \in {io, Shown(io), Error(io)}
    BY <1>10 DEF Echo, PageError, SetErrorReporting
  <2>3. QED
    BY <1>1, <2>1, <2>2, ShownOrderly, ErrorOrderly
<1>11. CASE PageHeader
  <2>1. phase' = phase /\ phase = "page" /\ exited' = exited
    BY <1>11 DEF PageHeader, OfPage, Step
  <2>2. \E string \in BOOLEAN : io' = Header(io, string) /\ (Cgi => string /\ io.body = {})
    BY <1>11 DEF PageHeader, Proper, Without, Has
  <2>3. Orderly(io') /\ (io.header = 1 => io'.header = 1)
    BY <1>1, <2>2, HeaderOrderly
  <2>4. QED
    BY <1>1, <2>1, <2>3
<1>12. CASE Include
  <2>1. phase' = phase /\ phase = "page"
    BY <1>12 DEF Include, OfPage, Step
  <2>2. \/ io' = Error(Error(io)) /\ exited' = exited
        \/ Exit(Shown(io))
        \/ io' = Shown(io) /\ exited' = exited
    BY <1>12 DEF Include
  <2>3. Orderly(io') /\ (exited' = TRUE => io'.header = 1)
    <3>1. CASE io' = Error(Error(io)) /\ exited' = exited
      BY <1>1, <3>1, ErrorOrderly
    <3>2. CASE Exit(Shown(io))
      BY <1>1, <3>2, ShownOrderly, ExitOrderly
    <3>3. CASE io' = Shown(io) /\ exited' = exited
      BY <1>1, <3>3, ShownOrderly
    <3>4. QED
      BY <2>2, <3>1, <3>2, <3>3
  <2>4. QED
    BY <2>1, <2>3
<1>13. CASE ExitPage \/ End
  <2>1. Exit(io) /\ phase = "page" /\ phase' \in {"page", "done"}
    BY <1>13 DEF ExitPage, End, OfPage, Step
  <2>2. QED
    BY <1>1, <2>1, ExitOrderly
<1>14. CASE EndOfFile
  BY <1>1, <1>14 DEF EndOfFile, OfPage
<1>15. CASE Done
  BY <1>1, <1>15 DEF Done, page
<1>16. QED
  BY <1>4, <1>5, <1>6, <1>7, <1>8, <1>9, <1>10, <1>11, <1>12, <1>13, <1>14, <1>15 DEF Serve

(* A request begins with nothing sent.                                     *)
LEMMA NoOutputOrderly == Orderly(NoOutput)
BY DEF Orderly, Output, NoOutput

(* At every moment of a request the header is marked as sent exactly when  *)
(* it is out, nothing is printed before it, and a request whose Exit was   *)
(* called, or that is over, has it out (php_header, Error, Header, Exit).  *)
THEOREM SessionHeaderInv == Spec => []HeaderInv
<1>1. Init => HeaderInv
  BY NoOutputOrderly DEF Init, HeaderInv, Over
<1>2. HeaderInv /\ [Next]_vars => HeaderInv'
  <2>1. SUFFICES ASSUME HeaderInv, [Next]_vars, Proper'
                 PROVE  HeaderInv'
    BY DEF HeaderInv
  <2>2. ASSUME work' = work
        PROVE  Proper /\ \A o : Orderly(o)' <=> Orderly(o)
    BY <2>1, <2>2 DEF Proper, Without, Has, Orderly, Cgi
  <2>3. CASE Begin
    <3>1. io' = NoOutput /\ exited' = FALSE /\ report' = TRUE /\ phase' = "data" /\ work' = work
      BY <2>3 DEF Begin, access
    <3>2. QED
      BY <2>2, <3>1, NoOutputOrderly DEF HeaderInv, Over, Orderly, Output, NoOutput
  <2>4. CASE Serve
    BY <2>1, <2>2, <2>4, WorkStays, ServeStep DEF Next
  <2>5. CASE Administer /\ UNCHANGED <<phase, asked, page>>
    <3>1. work' = work
      BY <2>5, WorkStays DEF Administer, Configuration, Make, Lock, Made, Reread, AskPassword,
         AddFile, AddFileOpen, AddFileInsert,
         AddFileEnd, Change, ChangeWrite, ChangeEnd, Show, Killed
    <3>2. QED
      BY <2>1, <2>2, <2>5, <3>1 DEF HeaderInv, Over, page, Orderly, Cgi
  <2>6. CASE UNCHANGED vars
    BY <2>1, <2>2, <2>6 DEF vars, access, page, HeaderInv, Over, Orderly, Cgi
  <2>7. QED
    BY <2>1, <2>3, <2>4, <2>5, <2>6 DEF Next
<1>3. QED
  BY <1>1, <1>2, PTL DEF Spec

(* Every answer begins with one header, in whatever order errors, output,  *)
(* Header and Exit come (head.c, error.c, lex.c:1238-1283).                *)
THEOREM SessionOneHeader == Spec => []OneHeader
<1>1. HeaderInv => OneHeader
  BY DEF HeaderInv, OneHeader, Proper, Orderly
<1>2. QED
  BY <1>1, SessionHeaderInv, PTL

-----------------------------------------------------------------------------
(* What stands in the answer.  What it shows, beside errors, are the forms *)
(* of the judge until the page begins, which it does only if there is      *)
(* none; for Exit, which ends each form, ends the parser.                  *)

Displayed(o) == o.body \ {"error"}

(* Records with all of their fields, whatever these hold.                  *)
WholeOutput(o) == o = [header |-> o.header, sent |-> o.sent, misplaced |-> o.misplaced, body |-> o.body]
WholeJudge(j)  == j = [set |-> j.set, at |-> j.at, allow |-> j.allow, forms |-> j.forms, logging |-> j.logging, info |-> j.info]

Unasked == Cgi => judge.forms \subseteq {"ban"}

(* The page stands alone, or does not begin.                               *)
Alternatives == Displayed(io) = judge.forms \/ (judge.forms = {} /\ Displayed(io) = {"page"})

AnswerInv ==
  /\ WholeOutput(io) /\ WholeJudge(judge) /\ exited \in BOOLEAN /\ running \in BOOLEAN
  /\ phase \in {"open", "parse"} => Cgi
  /\ phase \in {"data", "open", "access"} => judge.forms = {} /\ Displayed(io) = {} /\ ~exited
  /\ phase \in {"rule", "parse"} =>
       /\ judge.forms \subseteq {"email", "password"}
       /\ Displayed(io) = judge.forms
       /\ exited <=> judge.forms # {}
       /\ exited => ~running
  /\ phase = "page" /\ Unasked => Alternatives /\ (exited => ~running) /\ (judge.forms # {} => exited)
  /\ Over /\ Unasked => Alternatives

(* The header shows nothing, and neither does an error.                    *)
LEMMA php_headerShows ==
  ASSUME NEW o, WholeOutput(o)
  PROVE  WholeOutput(php_header(o)) /\ Displayed(php_header(o)) = Displayed(o)
<1>1. CASE o.header = 0 \/ (o.header = 2 /\ ~Cgi)
  <2>1. PICK p : p = [o EXCEPT !.header = 1, !.sent = @ + 1, !.misplaced = @ \/ o.body # {}]
    OBVIOUS
  <2>2. p = [header |-> 1, sent |-> o.sent + 1, misplaced |-> (o.misplaced \/ o.body # {}), body |-> o.body]
    BY <2>1, Zenon DEF WholeOutput
  <2>3. WholeOutput(p) /\ p.body = o.body
    BY <2>2, Zenon DEF WholeOutput
  <2>4. php_header(o) = p
    BY <1>1, <2>1 DEF php_header
  <2>5. QED
    BY <2>3, <2>4 DEF Displayed
<1>2. CASE ~(o.header = 0 \/ (o.header = 2 /\ ~Cgi))
  BY <1>2 DEF php_header
<1>3. QED
  BY <1>1, <1>2

LEMMA PrintedShows ==
  ASSUME NEW o, WholeOutput(o), NEW what
  PROVE  /\ WholeOutput(Printed(o, what))
         /\ Displayed(Printed(o, what)) = IF what = "error" THEN Displayed(o) ELSE Displayed(o) \union {what}
<1>1. PICK p : p = [o EXCEPT !.body = @ \union {what}, !.misplaced = @ \/ o.sent = 0]
  OBVIOUS
<1>2. p = [header |-> o.header, sent |-> o.sent, misplaced |-> (o.misplaced \/ o.sent = 0),
           body |-> o.body \union {what}]
  BY <1>1, Zenon DEF WholeOutput
<1>3. WholeOutput(p) /\ p.body = o.body \union {what}
  BY <1>2, Zenon DEF WholeOutput
<1>4. Printed(o, what) = p
  BY <1>1 DEF Printed
<1>5. QED
  BY <1>3, <1>4 DEF Displayed

LEMMA ErrorShows ==
  ASSUME NEW o, WholeOutput(o)
  PROVE  WholeOutput(Error(o)) /\ Displayed(Error(o)) = Displayed(o)
BY php_headerShows, PrintedShows DEF Error

(* Nor does Header, whatever its argument.                                 *)
LEMMA HeaderShows ==
  ASSUME NEW o, WholeOutput(o), NEW string \in BOOLEAN
  PROVE  WholeOutput(Header(o, string)) /\ Displayed(Header(o, string)) = Displayed(o)
<1>1. CASE Cgi /\ string
  <2>1. PICK p : p = [o EXCEPT !.header = 1, !.sent = IF @ = 0 THEN 1 ELSE @, !.misplaced = @ \/ o.body # {}]
    OBVIOUS
  <2>2. p = [header |-> 1, sent |-> IF o.sent = 0 THEN 1 ELSE o.sent,
             misplaced |-> (o.misplaced \/ o.body # {}), body |-> o.body]
    BY <2>1, Zenon DEF WholeOutput
  <2>3. WholeOutput(p) /\ p.body = o.body
    BY <2>2, Zenon DEF WholeOutput
  <2>4. Header(o, string) = p
    BY <1>1, <2>1 DEF Header
  <2>5. QED
    BY <2>3, <2>4 DEF Displayed
<1>2. ASSUME NEW n
      PROVE  WholeOutput([o EXCEPT !.header = n]) /\ Displayed([o EXCEPT !.header = n]) = Displayed(o)
  <2>1. PICK p : p = [o EXCEPT !.header = n]
    OBVIOUS
  <2>2. p = [header |-> n, sent |-> o.sent, misplaced |-> o.misplaced, body |-> o.body]
    BY <2>1, Zenon DEF WholeOutput
  <2>3. WholeOutput(p) /\ p.body = o.body
    BY <2>2, Zenon DEF WholeOutput
  <2>4. QED
    BY <2>1, <2>3 DEF Displayed
<1>3. CASE Cgi /\ ~string
  <2>1. Header(o, string) = Error([o EXCEPT !.header = 1])
    BY <1>3 DEF Header
  <2>2. QED
    BY <1>2, <2>1, ErrorShows
<1>4. CASE ~Cgi /\ ~string
  BY <1>4, ErrorShows DEF Header
<1>5. CASE ~Cgi /\ string
  BY <1>2, <1>5 DEF Header
<1>6. QED
  BY <1>1, <1>3, <1>4, <1>5

(* Exit ends the parser, and every form goes through Exit.                 *)
LEMMA ExitShows ==
  ASSUME NEW o, WholeOutput(o), exited \in BOOLEAN, running \in BOOLEAN, exited => ~running, Exit(o)
  PROVE  WholeOutput(io') /\ Displayed(io') = Displayed(o) /\ exited' = TRUE /\ running' = FALSE
BY php_headerShows DEF Exit

LEMMA ShowPageShows ==
  ASSUME WholeOutput(io), exited \in BOOLEAN, running \in BOOLEAN, exited => ~running,
         NEW form \in {"email", "password", "ban"}, ShowPage(form)
  PROVE  WholeOutput(io') /\ Displayed(io') = Displayed(io) \union {form} /\ exited' = TRUE /\ running' = FALSE
<1>1. WholeOutput(Printed(php_header(io), form)) /\ Displayed(Printed(php_header(io), form)) = Displayed(io) \union {form}
  BY php_headerShows, PrintedShows
<1>2. QED
  BY <1>1, ExitShows DEF ShowPage

(* Output is the page's, as long as Exit was not called.                   *)
LEMMA ShownShows ==
  ASSUME NEW o, WholeOutput(o), ~exited
  PROVE  WholeOutput(Shown(o)) /\ Displayed(Shown(o)) = Displayed(o) \union {"page"}
BY php_headerShows, PrintedShows DEF Shown

(* All that shows nothing.                                                 *)
LEMMA AnswerSame ==
  ASSUME AnswerInv, work' = work, UNCHANGED <<judge, running, exited>>, WholeOutput(io'), Displayed(io') = Displayed(io),
         \/ phase' = phase \/ phase' = "idle"
         \/ phase \in {"data", "open"} /\ phase' = "access"
         \/ phase = "data" /\ phase' = "open" /\ Cgi
         \/ phase = "open" /\ phase' \in {"parse", "done", "dead"}
         \/ phase = "access" /\ phase' = "rule"
         \/ phase = "page" /\ phase' = "done"
  PROVE  AnswerInv'
BY DEF AnswerInv, Over, Unasked, Alternatives, Cgi

LEMMA BeginAnswers ==
  ASSUME Begin
  PROVE  AnswerInv'
<1>1. phase' = "data" /\ io' = NoOutput /\ judge' = Nobody /\ exited' = FALSE /\ running' = TRUE
  BY DEF Begin
<1>2. WholeOutput(io') /\ Displayed(io') = {} /\ WholeJudge(judge') /\ judge'.forms = {}
  BY <1>1 DEF NoOutput, Nobody, WholeOutput, WholeJudge, Displayed
<1>3. QED
  BY <1>1, <1>2 DEF AnswerInv, Over

LEMMA TreatDataAnswers ==
  ASSUME AnswerInv, TreatData
  PROVE  AnswerInv'
<1>1. /\ io' = io \/ io' = Error(io)
      /\ phase = "data" /\ phase' = (IF Cgi THEN "open" ELSE "access")
      /\ UNCHANGED <<work, judge, running, exited>>
  BY DEF TreatData, access
<1>2. WholeOutput(io') /\ Displayed(io') = Displayed(io)
  BY <1>1, ErrorShows DEF AnswerInv
<1>3. QED
  BY <1>1, <1>2, AnswerSame

LEMMA OpenPageAnswers ==
  ASSUME AnswerInv, OpenPage
  PROVE  AnswerInv'
<1>1. /\ io' = io \/ io' = Error(io)
      /\ phase = "open" /\ phase' \in {"parse", "access", "done", "dead"}
      /\ UNCHANGED <<work, judge, running, exited>>
  BY DEF OpenPage, GiveUp, access
<1>2. WholeOutput(io') /\ Displayed(io') = Displayed(io)
  BY <1>1, ErrorShows DEF AnswerInv
<1>3. QED
  BY <1>1, <1>2, AnswerSame

(* The judge keeps his fields, and with them the forms that were shown.    *)
LEMMA JudgeChanges ==
  ASSUME NEW j, WholeJudge(j), NEW k
  PROVE  /\ \A set, at : k = [j EXCEPT !.set = set, !.at = at] => WholeJudge(k) /\ k.forms = j.forms
         /\ k = [j EXCEPT !.at = @ + 1] => WholeJudge(k) /\ k.forms = j.forms
         /\ \A allow : k = [j EXCEPT !.allow = allow] => WholeJudge(k) /\ k.forms = j.forms
         /\ \A logging : k = [j EXCEPT !.logging = logging] => WholeJudge(k) /\ k.forms = j.forms
         /\ \A info : k = [j EXCEPT !.info = info] => WholeJudge(k) /\ k.forms = j.forms
         /\ \A form : k = [j EXCEPT !.forms = @ \union {form}, !.info = FALSE] =>
              WholeJudge(k) /\ k.forms = j.forms \union {form}
<1>1. ASSUME NEW set, NEW at, k = [j EXCEPT !.set = set, !.at = at]
      PROVE  WholeJudge(k) /\ k.forms = j.forms
  BY <1>1, Zenon DEF WholeJudge
<1>2. ASSUME k = [j EXCEPT !.at = @ + 1]
      PROVE  WholeJudge(k) /\ k.forms = j.forms
  BY <1>2, Zenon DEF WholeJudge
<1>3. ASSUME NEW allow, k = [j EXCEPT !.allow = allow]
      PROVE  WholeJudge(k) /\ k.forms = j.forms
  BY <1>3, Zenon DEF WholeJudge
<1>4. ASSUME NEW logging, k = [j EXCEPT !.logging = logging]
      PROVE  WholeJudge(k) /\ k.forms = j.forms
  BY <1>4, Zenon DEF WholeJudge
<1>5. ASSUME NEW info, k = [j EXCEPT !.info = info]
      PROVE  WholeJudge(k) /\ k.forms = j.forms
  BY <1>5, Zenon DEF WholeJudge
<1>6. ASSUME NEW form, k = [j EXCEPT !.forms = @ \union {form}, !.info = FALSE]
      PROVE  WholeJudge(k) /\ k.forms = j.forms \union {form}
  BY <1>6, Zenon DEF WholeJudge
<1>7. QED
  BY <1>1, <1>2, <1>3, <1>4, <1>5, <1>6

LEMMA CheckAccessAnswers ==
  ASSUME AnswerInv, CheckAccess
  PROVE  AnswerInv'
<1>1. PICK set : judge' = [judge EXCEPT !.set = set, !.at = 1]
  BY DEF CheckAccess
<1>2. WholeJudge(judge') /\ judge'.forms = judge.forms
  BY <1>1, JudgeChanges DEF AnswerInv
<1>3. phase = "access" /\ phase' = "rule" /\ UNCHANGED <<work, io, running, exited>>
  BY DEF CheckAccess
<1>4. QED
  BY <1>2, <1>3 DEF AnswerInv, Over

(* A rule shows a form, which is the end of the answer, or leaves it.      *)
LEMMA CheckRuleAnswers ==
  ASSUME AnswerInv, CheckRule
  PROVE  AnswerInv'
<1>1. /\ phase = "rule" /\ phase' = phase /\ work' = work
      /\ WholeOutput(io) /\ WholeJudge(judge) /\ exited \in BOOLEAN /\ running \in BOOLEAN
      /\ judge.forms \subseteq {"email", "password"} /\ Displayed(io) = judge.forms
      /\ (exited <=> judge.forms # {}) /\ (exited => ~running)
  BY DEF CheckRule, AnswerInv
<1>2. ASSUME WholeOutput(io'), Displayed(io') = Displayed(io), UNCHANGED <<exited, running>>,
             WholeJudge(judge'), judge'.forms = judge.forms
      PROVE  AnswerInv'
  BY <1>1, <1>2 DEF AnswerInv, Over
<1>3. ASSUME NEW j, WholeJudge(j), j.forms = judge.forms, judge' = [j EXCEPT !.at = @ + 1],
             UNCHANGED <<io, exited, running>>
      PROVE  AnswerInv'
  BY <1>1, <1>2, <1>3, JudgeChanges
<1>4. ASSUME NEW form \in {"email", "password"}, ShowPage(form),
             judge' = [[judge EXCEPT !.forms = @ \union {form}, !.info = FALSE] EXCEPT !.at = @ + 1]
      PROVE  AnswerInv'
  <2>1. WholeOutput(io') /\ Displayed(io') = Displayed(io) \union {form} /\ exited' = TRUE /\ running' = FALSE
    BY <1>1, <1>4, ShowPageShows
  <2>2. PICK k : k = [judge EXCEPT !.forms = @ \union {form}, !.info = FALSE]
    OBVIOUS
  <2>3. WholeJudge(k) /\ k.forms = judge.forms \union {form}
    BY <1>1, <2>2, JudgeChanges
  <2>4. WholeJudge(judge') /\ judge'.forms = k.forms
    BY <1>4, <2>2, <2>3, JudgeChanges
  <2>5. QED
    BY <1>1, <2>1, <2>3, <2>4 DEF AnswerInv, Over
<1>5. PICK r, v : r = judge.set.rules[judge.at] /\ v = asked.visitor
  OBVIOUS
<1>6. CASE r.patt = "bad"
  <2>1. io' = Error(io) /\ UNCHANGED <<judge, exited, running>>
    BY <1>5, <1>6 DEF CheckRule
  <2>2. QED
    BY <1>1, <1>2, <2>1, ErrorShows
<1>7. CASE r.patt # "bad" /\ r.patt \notin v.match
  BY <1>1, <1>3, <1>5, <1>7 DEF CheckRule
<1>8. CASE r.patt # "bad" /\ r.patt \in v.match
  <2>1. CASE r.mode \in {"E", "P"}
    BY <1>1, <1>3, <1>4, <1>5, <1>8, <2>1 DEF CheckRule
  <2>2. CASE r.mode \in {"A", "B"}
    <3>1. PICK allow : judge' = [[judge EXCEPT !.allow = allow] EXCEPT !.at = @ + 1]
      BY <1>5, <1>8, <2>2 DEF CheckRule, Letters
    <3>2. UNCHANGED <<io, exited, running>>
      BY <1>5, <1>8, <2>2 DEF CheckRule, Letters
    <3>3. QED
      BY <1>1, <1>3, <3>1, <3>2, JudgeChanges
  <2>3. CASE r.mode \in {"L", "N"}
    <3>1. judge' = [[judge EXCEPT !.logging = (r.mode = "L")] EXCEPT !.at = @ + 1] /\ UNCHANGED <<io, exited, running>>
      BY <1>5, <1>8, <2>3 DEF CheckRule, Letters
    <3>2. QED
      BY <1>1, <1>3, <3>1, JudgeChanges
  <2>4. CASE r.mode \in {"S", "H"}
    <3>1. judge' = [[judge EXCEPT !.info = (r.mode = "S")] EXCEPT !.at = @ + 1] /\ UNCHANGED <<io, exited, running>>
      BY <1>5, <1>8, <2>4 DEF CheckRule, Letters
    <3>2. QED
      BY <1>1, <1>3, <3>1, JudgeChanges
  <2>5. CASE r.mode \notin Letters
    BY <1>1, <1>3, <1>5, <1>8, <2>5 DEF CheckRule, Letters
  <2>6. QED
    BY <2>1, <2>2, <2>3, <2>4, <2>5 DEF Letters
<1>9. QED
  BY <1>6, <1>7, <1>8

(* Without a form the page can begin; a ban is the end.                    *)
LEMMA VerdictAnswers ==
  ASSUME AnswerInv, Verdict
  PROVE  AnswerInv'
<1>1. /\ phase = "rule" /\ work' = work
      /\ WholeOutput(io) /\ WholeJudge(judge) /\ exited \in BOOLEAN /\ running \in BOOLEAN
      /\ judge.forms \subseteq {"email", "password"} /\ Displayed(io) = judge.forms
      /\ (exited <=> judge.forms # {}) /\ (exited => ~running)
  BY DEF Verdict, AnswerInv
<1>2. CASE judge' = [judge EXCEPT !.forms = @ \union {"ban"}, !.info = FALSE] /\ ShowPage("ban") /\ GiveUp
  <2>1. WholeOutput(io') /\ Displayed(io') = Displayed(io) \union {"ban"} /\ exited' = TRUE /\ running' = FALSE
    BY <1>1, <1>2, ShowPageShows
  <2>2. WholeJudge(judge') /\ judge'.forms = judge.forms \union {"ban"}
    BY <1>1, <1>2, JudgeChanges
  <2>3. phase' \in {"dead", "done"}
    BY <1>2 DEF GiveUp
  <2>4. QED
    BY <1>1, <2>1, <2>2, <2>3 DEF AnswerInv, Alternatives
<1>3. CASE phase' = (IF Cgi THEN "parse" ELSE "page") /\ UNCHANGED <<judge, io, exited, running>>
  BY <1>1, <1>3 DEF AnswerInv, Over, Unasked, Alternatives, Cgi
<1>4. QED
  BY <1>2, <1>3 DEF Verdict

(* The parser is started where no form was shown.                          *)
LEMMA ParserInitAnswers ==
  ASSUME AnswerInv, ParserInit
  PROVE  AnswerInv'
<1>1. phase = "parse" /\ phase' = "page" /\ running' = TRUE /\ UNCHANGED <<work, io, judge, exited>>
  BY DEF ParserInit, access
<1>2. Unasked => judge.forms = {}
  BY <1>1 DEF AnswerInv, Unasked
<1>3. QED
  BY <1>1, <1>2 DEF AnswerInv, Over, Unasked, Alternatives, Cgi

(* A step of a page that shows something, of one whose Exit was not        *)
(* called.                                                                 *)
LEMMA PageAnswers ==
  ASSUME AnswerInv, Step, phase' = phase, work' = work, judge' = judge, WholeOutput(io'),
         running' \in BOOLEAN, exited' \in BOOLEAN,
         ~exited => exited' = ~running' /\ Displayed(io') \in {Displayed(io), Displayed(io) \union {"page"}}
  PROVE  AnswerInv'
<1>1. phase = "page" /\ running
  BY DEF Step
<1>2. ASSUME Unasked
      PROVE  ~exited /\ judge.forms = {} /\ Displayed(io) \in {{}, {"page"}}
  BY <1>1, <1>2 DEF AnswerInv, Alternatives
<1>3. Unasked' <=> Unasked
  BY DEF Unasked, Cgi
<1>4. ASSUME Unasked
      PROVE  Alternatives' /\ (exited' => ~running') /\ judge'.forms = {}
  BY <1>2, <1>4 DEF Alternatives
<1>5. QED
  BY <1>1, <1>3, <1>4 DEF AnswerInv, Over

LEMMA IncludeAnswers ==
  ASSUME AnswerInv, Include
  PROVE  AnswerInv'
<1>1. WholeOutput(io) /\ exited \in BOOLEAN /\ running \in BOOLEAN /\ running
  BY DEF AnswerInv, Include, Step
<1>2. Step /\ UNCHANGED <<phase, work, judge>>
  BY DEF Include, OfPage
<1>3. \/ io' = Error(Error(io)) /\ UNCHANGED <<exited, running>>
      \/ Exit(Shown(io))
      \/ io' = Shown(io) /\ running' = ~exited /\ exited' = exited
  BY DEF Include
<1>4. CASE io' = Error(Error(io)) /\ UNCHANGED <<exited, running>>
  <2>1. WholeOutput(Error(io)) /\ Displayed(Error(io)) = Displayed(io)
    BY <1>1, ErrorShows
  <2>2. WholeOutput(io') /\ Displayed(io') = Displayed(io)
    BY <1>4, <2>1, ErrorShows
  <2>3. QED
    BY <1>1, <1>2, <1>4, <2>2, PageAnswers
<1>5. CASE Exit(Shown(io))
  <2>1. WholeOutput(Shown(io))
    BY <1>1, php_headerShows, PrintedShows DEF Shown
  <2>2. exited' = TRUE /\ running' \in BOOLEAN /\ WholeOutput(io')
    BY <1>1, <1>5, <2>1, php_headerShows DEF Exit
  <2>3. ~exited => running' = FALSE /\ Displayed(io') = Displayed(io) \union {"page"}
    BY <1>1, <1>5, <2>1, ShownShows, ExitShows
  <2>4. QED
    BY <1>2, <2>2, <2>3, PageAnswers
<1>6. CASE io' = Shown(io) /\ running' = ~exited /\ exited' = exited
  <2>1. WholeOutput(io')
    BY <1>1, <1>6, php_headerShows, PrintedShows DEF Shown
  <2>2. ~exited => Displayed(io') = Displayed(io) \union {"page"}
    BY <1>1, <1>6, ShownShows
  <2>3. QED
    BY <1>1, <1>2, <1>6, <2>1, <2>2, PageAnswers
<1>7. QED
  BY <1>3, <1>4, <1>5, <1>6

LEMMA ExitAnswers ==
  ASSUME AnswerInv, ExitPage \/ End
  PROVE  AnswerInv'
<1>1. WholeOutput(io) /\ exited \in BOOLEAN /\ running \in BOOLEAN /\ phase = "page"
  BY DEF AnswerInv, ExitPage, End, Step
<1>2. Exit(io) /\ phase' \in {"page", "done"} /\ UNCHANGED <<work, judge>>
  BY <1>1 DEF ExitPage, End, OfPage
<1>3. WholeOutput(io') /\ Displayed(io') = Displayed(io) /\ exited' = TRUE /\ running' \in BOOLEAN
  BY <1>1, <1>2, php_headerShows DEF Exit
<1>4. (exited => ~running) => running' = FALSE
  BY <1>1, <1>2 DEF Exit
<1>5. QED
  BY <1>1, <1>2, <1>3, <1>4 DEF AnswerInv, Over, Unasked, Alternatives, Cgi

LEMMA ServeAnswers ==
  ASSUME AnswerInv, Serve
  PROVE  AnswerInv'
<1>1. CASE Echo
  <2>1. Step /\ io' = Shown(io) /\ UNCHANGED <<phase, work, judge, exited, running>>
    BY <1>1 DEF Echo, OfPage
  <2>2. WholeOutput(io) /\ exited \in BOOLEAN /\ running \in BOOLEAN /\ running
    BY <2>1 DEF AnswerInv, Step
  <2>3. WholeOutput(io')
    BY <2>1, <2>2, php_headerShows, PrintedShows DEF Shown
  <2>4. QED
    BY <2>1, <2>2, <2>3, ShownShows, PageAnswers
<1>2. CASE PageError \/ SetErrorReporting \/ PageHeader
  <2>1. UNCHANGED <<phase, work, judge, exited, running>>
    BY <1>2 DEF PageError, SetErrorReporting, PageHeader, OfPage
  <2>2. io' \in {io, Error(io), Header(io, TRUE), Header(io, FALSE)}
    BY <1>2 DEF PageError, SetErrorReporting, PageHeader
  <2>3. WholeOutput(io') /\ Displayed(io') = Displayed(io)
    BY <2>2, ErrorShows, HeaderShows DEF AnswerInv
  <2>4. QED
    BY <2>1, <2>3, AnswerSame
<1>3. CASE EndOfFile
  <2>1. phase = "page" /\ running' = FALSE /\ UNCHANGED <<phase, work, judge, io, exited>>
    BY <1>3 DEF EndOfFile, OfPage
  <2>2. QED
    BY <2>1 DEF AnswerInv, Over, Unasked, Alternatives, Cgi
<1>4. CASE Done
  <2>1. phase' = "idle" /\ UNCHANGED <<work, judge, io, exited, running>>
    BY <1>4 DEF Done, page, access
  <2>2. QED
    BY <2>1, AnswerSame DEF AnswerInv
<1>5. QED
  BY <1>1, <1>2, <1>3, <1>4, TreatDataAnswers, OpenPageAnswers, CheckAccessAnswers, CheckRuleAnswers, VerdictAnswers,
     ParserInitAnswers, IncludeAnswers, ExitAnswers DEF Serve

(* At every moment the answer shows the forms with which the rules ask or  *)
(* refuse, or the page, and the parser runs only where no form was shown.  *)
THEOREM SessionAnswerInv == Spec => []AnswerInv
<1>1. Init => AnswerInv
  BY DEF Init, AnswerInv, WholeOutput, WholeJudge, NoOutput, Nobody, Over
<1>2. AnswerInv /\ [Next]_vars => AnswerInv'
  <2>1. SUFFICES ASSUME AnswerInv, [Next]_vars
                 PROVE  AnswerInv'
    OBVIOUS
  <2>2. CASE Administer /\ UNCHANGED <<phase, asked, page>>
    <3>1. work' = work
      BY <2>2 DEF Administer, Configuration, Make, Lock, Made, Reread, AskPassword,
         AddFile, AddFileOpen, AddFileInsert,
         AddFileEnd, Change, ChangeWrite, ChangeEnd, Show, Killed
    <3>2. UNCHANGED <<phase, judge, io, exited, running>>
      BY <2>2 DEF page
    <3>3. QED
      BY <2>1, <3>1, <3>2, AnswerSame DEF AnswerInv
  <2>3. CASE UNCHANGED vars
    <3>1. UNCHANGED <<work, phase, judge, io, exited, running>>
      BY <2>3 DEF vars, page, access
    <3>2. QED
      BY <2>1, <3>1, AnswerSame DEF AnswerInv
  <2>4. QED
    BY <2>1, <2>2, <2>3, BeginAnswers, ServeAnswers DEF Next
<1>3. QED
  BY <1>1, <1>2, PTL DEF Spec

(* The answer is the page, or the pages with which the rules ask or        *)
(* refuse, and after Exit there is nothing more of the page (ShowPage,     *)
(* Exit, Include): for any rules, files, pages, visitors and builds; in    *)
(* the CGI program where no rule asks.                                     *)
THEOREM SessionOneAnswer == Spec => []OneAnswer
<1>1. AnswerInv => OneAnswer
  BY DEF AnswerInv, OneAnswer, Unasked, Alternatives, Displayed
<1>2. QED
  BY <1>1, SessionAnswerInv, PTL

-----------------------------------------------------------------------------
(* Folds.  What a step of a fold does is given as a function on the values *)
(* that it takes, so that the lemmas can be about any.                     *)

(* The first of some places.                                               *)
LEMMA LeastIn ==
  ASSUME NEW T \in SUBSET Nat, T # {}
  PROVE  \E i \in T : \A j \in T : i <= j
<1> DEFINE R == OpToRel(<, Nat)
<1>1. IsWellFoundedOn(R, Nat)
  BY NatLessThanWellFounded
<1>2. \A j, i \in Nat : j < i => <<j, i>> \in R
  BY DEF OpToRel
<1> HIDE DEF R
<1>3. PICK i \in T : \A j \in T : ~(<<j, i>> \in R)
  BY <1>1, WFMin
<1>4. \A j \in T : i <= j
  <2> TAKE j \in T
  <2>1. i \in Nat /\ j \in Nat /\ ~(j < i)
    BY <1>2, <1>3
  <2>2. QED
    BY <2>1
<1>5. QED
  BY <1>4

(* What holds of 0 and of the next one holds up to n.                      *)
LEMMA Upward ==
  ASSUME NEW n \in Nat, NEW P, 0 \in P, \A k \in 1..n : k - 1 \in P => k \in P
  PROVE  \A k \in 0..n : k \in P
<1> DEFINE Bad == {k \in 0..n : k \notin P}
<1>1. SUFFICES ASSUME Bad # {} PROVE FALSE
  OBVIOUS
<1>2. Bad \in SUBSET Nat
  OBVIOUS
<1>3. PICK k \in Bad : \A j \in Bad : k <= j
  <2> HIDE DEF Bad
  <2>1. QED
    BY <1>1, <1>2, LeastIn
<1>4. k \in 1..n /\ k - 1 \in 0..n /\ k - 1 \notin Bad
  BY <1>2, <1>3
<1>5. QED
  BY <1>4

LEMMA MaxOf ==
  ASSUME NEW u \in SUBSET Nat, NEW k \in u, \A j \in u : j <= k
  PROVE  Max(u) = k
<1>1. k \in u /\ \A y \in u : k >= y
  OBVIOUS
<1>2. Max(u) \in u /\ \A y \in u : Max(u) >= y
  BY <1>1, Zenon DEF Max
<1>3. Max(u) \in Nat /\ k \in Nat /\ Max(u) >= k /\ k >= Max(u)
  BY <1>1, <1>2
<1>4. QED
  BY <1>3

(* The iterates over the subsets of the domain of a sequence, from which   *)
(* the library takes that over all of it.                                  *)
Iterates(it, op, b, s, n) ==
  \A u \in SUBSET (1..n) : it[u] = IF u = {} THEN b ELSE op[<<it[u \ {Max(u)}], s[Max(u)]>>]

HasIterates(S, op, b, s, n) == \E it \in [SUBSET (1..n) -> S] : Iterates(it, op, b, s, n)

LEMMA IteratesExist ==
  ASSUME NEW S, NEW T, NEW op \in [S \X T -> S], NEW b \in S, NEW n \in Nat, NEW s \in [1..n -> T]
  PROVE  HasIterates(S, op, b, s, n)
<1> DEFINE P == {k \in 0..n : HasIterates(S, op, b, s, k)}
<1>1. 0 \in P
  <2>1. SUBSET (1..0) = {{}}
    OBVIOUS
  <2> DEFINE f == [u \in SUBSET (1..0) |-> b]
  <2>2. f \in [SUBSET (1..0) -> S] /\ Iterates(f, op, b, s, 0)
    BY <2>1 DEF Iterates
  <2>3. QED
    BY <2>2 DEF HasIterates
<1>2. ASSUME NEW k \in 1..n, k - 1 \in P PROVE k \in P
  <2>1. k \in Nat /\ k \in 0..n
    OBVIOUS
  <2>3. PICK f \in [SUBSET (1 .. k - 1) -> S] : Iterates(f, op, b, s, k - 1)
    BY <1>2 DEF HasIterates
  <2> DEFINE g == [u \in SUBSET (1..k) |-> IF k \in u THEN op[<<f[u \ {k}], s[k]>>] ELSE f[u]]
  <2>4. \A u \in SUBSET (1..k) : /\ k \in u => u \ {k} \in SUBSET (1 .. k - 1)
                                 /\ k \notin u => u \in SUBSET (1 .. k - 1)
    BY <2>1
  <2>5. g \in [SUBSET (1..k) -> S]
    <3>1. ASSUME NEW u \in SUBSET (1..k) PROVE (IF k \in u THEN op[<<f[u \ {k}], s[k]>>] ELSE f[u]) \in S
      BY <2>1, <2>3, <2>4
    <3>2. QED
      BY <3>1
  <2>6. ASSUME NEW u \in SUBSET (1..k)
        PROVE  g[u] = IF u = {} THEN b ELSE op[<<g[u \ {Max(u)}], s[Max(u)]>>]
    <3>1. CASE k \in u
      <4>1. Max(u) = k
        BY <2>1, <3>1, MaxOf
      <4>2. g[u] = op[<<f[u \ {k}], s[k]>>] /\ g[u \ {k}] = f[u \ {k}]
        BY <2>4, <3>1
      <4>3. QED
        BY <3>1, <4>1, <4>2
    <3>2. CASE k \notin u
      <4>1. u \in SUBSET (1 .. k - 1) /\ g[u] = f[u]
        BY <2>4, <3>2
      <4>2. g[u \ {Max(u)}] = f[u \ {Max(u)}]
        BY <2>4, <3>2
      <4>3. f[u] = IF u = {} THEN b ELSE op[<<f[u \ {Max(u)}], s[Max(u)]>>]
        BY <2>3, <4>1 DEF Iterates
      <4>4. QED
        BY <4>1, <4>2, <4>3
    <3>3. QED
      BY <3>1, <3>2
  <2>7. Iterates(g, op, b, s, k)
    BY <2>6 DEF Iterates
  <2>8. QED
    BY <2>1, <2>5, <2>7 DEF HasIterates
<1>3. \A k \in 0..n : k \in P
  <2> HIDE DEF P
  <2>1. QED
    BY <1>1, <1>2, Upward
<1>4. QED
  BY <1>3

(* What a fold goes through, one member after the other.                   *)
Run(f, op, b, s, n) == f[0] = b /\ \A k \in 1..n : f[k] = op[<<f[k - 1], s[k]>>]

(* it: iterates of which it is not known yet that they are of their type.  *)
Follows(it, S, op, b, s, n) ==
  /\ it[{}] = b
  /\ \A u \in SUBSET (1..n) :
       u # {} /\ it[u \ {Max(u)}] \in S => it[u] = op[<<it[u \ {Max(u)}], s[Max(u)]>>]

HasRun(S, op, b, s, n, last) == \E f \in [0..n -> S] : Run(f, op, b, s, n) /\ f[n] = last

(* The one sequence begins as the other.                                   *)
Longer(t, s, n) == \A i \in 1..n : t[i] = s[i]

LEMMA RunOfIterates ==
  ASSUME NEW S, NEW T, NEW op \in [S \X T -> S], NEW b \in S, NEW n \in Nat, NEW s \in [1..n -> T],
         NEW it, Follows(it, S, op, b, s, n)
  PROVE  HasRun(S, op, b, s, n, it[1..n])
<1> DEFINE f == [k \in 0..n |-> it[1..k]]
<1>1. ASSUME NEW k \in 1..n, f[k - 1] \in S
      PROVE  f[k] = op[<<f[k - 1], s[k]>>] /\ f[k] \in S
  <2>1. 1..k \in SUBSET (1..n) /\ 1..k # {} /\ k - 1 \in 0..n /\ k \in 0..n
    <3>1. k \in 1..k /\ k \in Nat /\ k <= n
      OBVIOUS
    <3>2. 1..k # {}
      BY <3>1
    <3>3. \A j \in 1..k : j \in 1..n
      BY <3>1
    <3>4. 1..k \in SUBSET (1..n)
      BY <3>3
    <3>5. k - 1 \in 0..n /\ k \in 0..n
      OBVIOUS
    <3>6. QED
      BY <3>2, <3>4, <3>5
  <2>2. Max(1..k) = k
    BY MaxOf
  <2>3. (1..k) \ {k} = 1 .. k - 1
    OBVIOUS
  <2>4. it[(1..k) \ {Max(1..k)}] = f[k - 1] /\ f[k] = it[1..k]
    BY <2>1, <2>2, <2>3
  <2> HIDE DEF f
  <2>5. it[1..k] = op[<<f[k - 1], s[Max(1..k)]>>]
    BY <1>1, <2>1, <2>4 DEF Follows
  <2>6. QED
    BY <1>1, <2>2, <2>4, <2>5
<1>2. f[0] = b
  <2>1. 1..0 = {}
    OBVIOUS
  <2>2. QED
    BY <2>1 DEF Follows
<1>3. \A k \in 0..n : f[k] \in S
  <2> DEFINE P == {k \in 0..n : f[k] \in S}
  <2>1. 0 \in P /\ \A k \in 1..n : k - 1 \in P => k \in P
    <3>1. b \in S /\ 0 \in 0..n /\ \A k \in 1..n : k \in 0..n
      OBVIOUS
    <3> HIDE DEF f
    <3>2. 0 \in P
      BY <1>2, <3>1
    <3>3. ASSUME NEW k \in 1..n, k - 1 \in P PROVE k \in P
      <4>1. f[k - 1] \in S
        BY <3>3
      <4>2. QED
        BY <1>1, <3>1, <4>1
    <3>4. QED
      BY <3>2, <3>3
  <2> HIDE DEF P
  <2>2. \A k \in 0..n : k \in P
    BY <2>1, Upward
  <2>3. QED
    BY <2>2 DEF P
<1>4. f \in [0..n -> S]
  BY <1>3
<1>5. Run(f, op, b, s, n)
  <2>1. ASSUME NEW k \in 1..n PROVE f[k] = op[<<f[k - 1], s[k]>>]
    <3>1. k - 1 \in 0..n
      OBVIOUS
    <3> HIDE DEF f
    <3>2. QED
      BY <1>1, <1>3, <3>1
  <2> HIDE DEF f
  <2>2. QED
    BY <1>2, <2>1 DEF Run
<1>6. f[n] = it[1..n]
  OBVIOUS
<1> HIDE DEF f
<1>7. QED
  BY <1>4, <1>5, <1>6 DEF HasRun

LEMMA MaxIn ==
  ASSUME NEW n \in Nat, NEW u \in SUBSET (1..n), u # {}
  PROVE  Max(u) \in u
<1> DEFINE T == {n - i : i \in u}
<1>1. T \in SUBSET Nat /\ T # {}
  <2>1. \A i \in u : n - i \in Nat
    OBVIOUS
  <2>2. QED
    BY <2>1
<1>2. PICK k \in T : \A j \in T : k <= j
  <2> HIDE DEF T
  <2>1. QED
    BY <1>1, LeastIn
<1>3. PICK i \in u : k = n - i
  BY <1>2
<1>4. \A j \in u : j <= i
  <2> TAKE j \in u
  <2>1. n - j \in T
    OBVIOUS
  <2>2. n - i <= n - j /\ i \in Nat /\ j \in Nat
    BY <1>2, <1>3, <2>1
  <2>3. QED
    BY <2>2
<1>5. u \in SUBSET Nat
  OBVIOUS
<1>6. QED
  BY <1>4, MaxOf

-----------------------------------------------------------------------------
(* The files that names stand for: where the program finds them. *)

(* The first of some paths that is a file is one of them, and a file.      *)
LEMMA FirstFound ==
  ASSUME NEW T, NEW s \in Seq(T)
  PROVE  First(s) # None => First(s) \in T /\ IsFile(First(s))
<1> DEFINE n == Len(s)
           S == {q \in T : IsFile(q)} \union {None}
           op == [x \in S \X T |-> IF x[1] = None /\ IsFile(x[2]) THEN x[2] ELSE x[1]]
           it == CHOOSE i : i = [u \in SUBSET DOMAIN s |->
                    IF u = {} THEN None
                    ELSE IF i[u \ {Max(u)}] = None /\ IsFile(s[Max(u)]) THEN s[Max(u)] ELSE i[u \ {Max(u)}]]
<1>1. n \in Nat /\ s \in [1..n -> T] /\ DOMAIN s = 1..n
  BY LenProperties
<1>2. None \in S
  OBVIOUS
<1>3. op \in [S \X T -> S] /\ \A x \in S, t \in T : op[<<x, t>>] = IF x = None /\ IsFile(t) THEN t ELSE x
  OBVIOUS
<1>4. First(s) = it[DOMAIN s]
  BY Zenon DEF First, FoldLeft, MapThenFoldSet
<1>5. PICK j \in [SUBSET (1..n) -> S] : Iterates(j, op, None, s, n)
  <2> HIDE DEF op, S, it
  <2>1. QED
    BY <1>1, <1>2, <1>3, IteratesExist DEF HasIterates
<1>6. ASSUME NEW u \in SUBSET (1..n), u # {}
      PROVE  Max(u) \in 1..n /\ s[Max(u)] \in T /\ u \ {Max(u)} \in SUBSET (1..n)
  <2>1. Max(u) \in u
    BY <1>1, <1>6, MaxIn
  <2>2. QED
    BY <1>1, <2>1
<1>7. \A u \in SUBSET (1..n) :
        j[u] = IF u = {} THEN None
               ELSE IF j[u \ {Max(u)}] = None /\ IsFile(s[Max(u)]) THEN s[Max(u)] ELSE j[u \ {Max(u)}]
  <2> HIDE DEF op, S, it
  <2>1. ASSUME NEW u \in SUBSET (1..n), u # {}
        PROVE  op[<<j[u \ {Max(u)}], s[Max(u)]>>]
                 = IF j[u \ {Max(u)}] = None /\ IsFile(s[Max(u)]) THEN s[Max(u)] ELSE j[u \ {Max(u)}]
    <3>1. j[u \ {Max(u)}] \in S /\ s[Max(u)] \in T
      BY <1>5, <1>6, <2>1
    <3>2. QED
      BY <1>3, <3>1
  <2>2. QED
    BY <1>5, <2>1 DEF Iterates
<1>8. it = [u \in SUBSET DOMAIN s |->
              IF u = {} THEN None
              ELSE IF it[u \ {Max(u)}] = None /\ IsFile(s[Max(u)]) THEN s[Max(u)] ELSE it[u \ {Max(u)}]]
  <2>1. j = [u \in SUBSET DOMAIN s |->
              IF u = {} THEN None
              ELSE IF j[u \ {Max(u)}] = None /\ IsFile(s[Max(u)]) THEN s[Max(u)] ELSE j[u \ {Max(u)}]]
    <3> HIDE DEF op, S, it
    <3>1. QED
      BY <1>1, <1>5, <1>7
  <2>2. QED
    BY <2>1, Zenon
<1> HIDE DEF op, S, it
<1>9. it[{}] = None /\ \A u \in SUBSET (1..n) : u # {} =>
        it[u] = IF it[u \ {Max(u)}] = None /\ IsFile(s[Max(u)]) THEN s[Max(u)] ELSE it[u \ {Max(u)}]
  BY <1>1, <1>8
<1>10. Follows(it, S, op, None, s, n)
  BY <1>3, <1>6, <1>9 DEF Follows
<1>11. HasRun(S, op, None, s, n, it[1..n])
  BY <1>1, <1>2, <1>3, <1>10, RunOfIterates, Zenon
<1>12. it[1..n] \in S
  BY <1>1, <1>11 DEF HasRun
<1>13. QED
  BY <1>1, <1>4, <1>12 DEF S

(* What names and files are.                                               *)
LEMMA NamesAre ==
  /\ \A f \in DOMAIN Disk : f \in Seq(STRING) /\ f # None /\ ~IsDir(f)
  /\ Start \in Seq(STRING)
  /\ \A r \in Asked :
       /\ r.name \in FileName
       /\ r.info \in FileName
       /\ r.script = None \/ r.script \in Seq(STRING)
       /\ IF r.line THEN r.script = None ELSE r.name.abs
       /\ r.habits \cap Devious = {} =>
            /\ Straight(r.name) /\ Slashed(r.name, IF r.name.abs THEN r.name.dir ELSE Start)
            /\ r.script # None /\ r.info.abs /\ Target(r.name, Start) = None => ~Beside(r.info, r.script)
  /\ \A i \in Includes :
       /\ i.name \in FileName
       /\ i.habits \cap Devious = {} =>
            /\ Straight(i.name)
            /\ i.name.abs /\ Target(i.name, Start) = None =>
                 /\ \A r \in Asked : r.script # None =>
                      ~Beside(i.name, r.script) /\ ~IsDir(r.script \o i.name.dir)
                 /\ \A f \in DOMAIN Disk :
                      Directory(f) # None =>
                        ~Beside(i.name, Directory(f)) /\ ~IsDir(Directory(f) \o i.name.dir)
BY NamesAssumption, Zenon

(* What is looked for in a place is a file there, or one that its name     *)
(* with .htm is, or the index of the directory that it is.                 *)
LEMMA LookFound ==
  ASSUME NEW dir, NEW n, NEW htm, Look(dir, n, htm) # None
  PROVE  /\ IsFile(Look(dir, n, htm))
         /\ \/ /\ Look(dir, n, htm) = IF n.base = None THEN dir ELSE Append(dir, n.base)
               /\ ~IsDir(IF n.base = None THEN dir ELSE Append(dir, n.base))
            \/ n.base # None /\ Look(dir, n, htm) = Append(dir, Htm(n.base))
            \/ \E x : Look(dir, n, htm) = Append(IF n.base = None THEN dir ELSE Append(dir, n.base), x)
                        /\ IsDir(IF n.base = None THEN dir ELSE Append(dir, n.base))
<1> DEFINE p == IF n.base = None THEN dir ELSE Append(dir, n.base)
           index == <<Append(p, "index.html"), Append(p, "index.phtml")>>
           old == <<Append(dir, Htm(n.base))>>
<1>0. ~IsFile(p) \/ ~IsDir(p)
  BY NamesAre, Zenon DEF IsFile
<1>1. CASE IsDir(p)
  <2>1. Look(dir, n, htm) = First(index)
    BY <1>1, <1>0, Zenon DEF Look
  <2>2. index \in Seq({Append(p, "index.html"), Append(p, "index.phtml")})
    OBVIOUS
  <2> HIDE DEF p
  <2>3. First(index) # None => First(index) \in {Append(p, "index.html"), Append(p, "index.phtml")} /\ IsFile(First(index))
    <3> HIDE DEF index
    <3>1. QED
      BY <2>2, FirstFound
  <2>4. QED
    BY <1>1, <2>1, <2>3 DEF p
<1>2. CASE ~IsDir(p) /\ IsFile(p)
  BY <1>2 DEF Look
<1>3. CASE ~IsDir(p) /\ ~IsFile(p)
  <2>0. Look(dir, n, htm) = IF htm /\ n.base # None /\ Htm(n.base) # None THEN First(old) ELSE None
    BY <1>3, Zenon DEF Look
  <2>1. n.base # None /\ Look(dir, n, htm) = First(old)
    BY <2>0
  <2>2. old \in Seq({Append(dir, Htm(n.base))})
    OBVIOUS
  <2>3. First(old) # None => First(old) \in {Append(dir, Htm(n.base))} /\ IsFile(First(old))
    <3> HIDE DEF old
    <3>1. QED
      BY <2>2, FirstFound
  <2>4. QED
    BY <2>1, <2>3
<1>4. QED
  BY <1>1, <1>2, <1>3

(* A file is in its directory, which leads to it.                          *)
LEMMA DirectoryOf ==
  ASSUME NEW dir \in Seq(STRING), NEW x, NEW f, f = Append(dir, x)
  PROVE  Directory(f) = dir /\ (IsFile(f) => IsDir(dir))
<1> DEFINE S == STRING \union {x}
<1>1. dir \in Seq(S) /\ x \in S
  OBVIOUS
<1> HIDE DEF S
<1>2. f \in Seq(S) /\ Len(f) = Len(dir) + 1 /\ \A i \in 1..Len(dir) : f[i] = dir[i]
  BY <1>1, AppendProperties
<1>3. Len(dir) \in Nat /\ dir \in [1..Len(dir) -> S]
  BY <1>1, LenProperties
<1>4. Directory(f) = dir
  <2>1. Directory(f) = SubSeq(f, 1, Len(dir))
    BY <1>2, <1>3 DEF Directory
  <2>2. SubSeq(f, 1, Len(dir)) = [i \in 1..Len(dir) |-> f[i]]
    BY <1>2, <1>3
  <2>3. QED
    BY <1>2, <1>3, <2>1, <2>2
<1>5. IsPrefix(dir, f)
  <2>1. SubSeq(f, 1, Len(dir)) = dir
    BY <1>2, <1>3, <1>4 DEF Directory
  <2>2. QED
    BY <1>2, <1>3, <2>1 DEF IsPrefix
<1>6. ASSUME IsFile(f) PROVE IsDir(dir)
  <2>1. f \in DOMAIN Disk /\ Len(dir) < Len(f)
    BY <1>2, <1>3, <1>6 DEF IsFile
  <2>2. QED
    BY <1>5, <2>1, Zenon DEF IsDir
<1>7. QED
  BY <1>4, <1>6

(* A directory is that of the file that it leads to.                       *)
LEMMA HomeFound ==
  ASSUME NEW dir \in Seq(STRING), NEW n, NEW htm, Slashed(n, dir), Look(dir, n, htm) # None
  PROVE  Directory(Look(dir, n, htm)) = dir /\ IsDir(dir)
<1> DEFINE f == Look(dir, n, htm)
<1>1. IsFile(f)
  BY LookFound
<1>2. ASSUME NEW x, f = Append(dir, x)
      PROVE  Directory(f) = dir /\ IsDir(dir)
  <2> HIDE DEF f
  <2>1. QED
    BY <1>1, <1>2, DirectoryOf
<1>3. CASE n.base = None
  <2>1. ~IsFile(dir)
    BY <1>3 DEF Slashed
  <2>2. \E x : f = Append(dir, x)
    BY <1>1, <1>3, <2>1, LookFound
  <2>3. QED
    BY <1>2, <2>2
<1>4. CASE n.base # None
  <2>1. ~IsDir(Append(dir, n.base))
    BY <1>4 DEF Slashed
  <2>2. f = Append(dir, n.base) \/ f = Append(dir, Htm(n.base))
    BY <1>4, <2>1, LookFound
  <2>3. QED
    BY <1>2, <2>2
<1>5. QED
  BY <1>3, <1>4

(* The equations stay out of the sight of the provers, which would take    *)
(* the one side for the other everywhere.                                  *)
(* The process goes to where it looks, or stays.                           *)
Looks(one, n, way, wd) == one = FixFilename(n, way = "goes", wd)
Opens(o, n, pi, sn, way) == o = OpenFile(n, pi, sn, way = "goes")
(* A name taken for one beside the program.                                *)
Within(n, sn) == [n EXCEPT !.dir = sn \o @]
Opened(o, a, b, c, d) == o = [file |-> a, size |-> b, cwd |-> c, stat |-> d]
Looked(o, a, b, c) == o = [found |-> a, cwd |-> b, stat |-> c]

LEMMA OpenedFields ==
  ASSUME NEW o, NEW a, NEW b, NEW c, NEW d, Opened(o, a, b, c, d)
  PROVE  o.file = a /\ o.size = b /\ o.cwd = c
<1>1. o = [file |-> a, size |-> b, cwd |-> c, stat |-> d]
  BY DEF Opened
<1>2. QED
  BY <1>1

LEMMA LookedFields ==
  ASSUME NEW o, NEW a, NEW b, NEW c, Looked(o, a, b, c)
  PROVE  o.found = a /\ o.cwd = b /\ o.stat = c
<1>1. o = [found |-> a, cwd |-> b, stat |-> c]
  BY DEF Looked
<1>2. QED
  BY <1>1

(* What a file is opened as, by what the first look, or the second one,    *)
(* has found.                                                              *)
LEMMA OpensFirst ==
  ASSUME NEW n, NEW pi, NEW sn, NEW way, NEW one, NEW o,
         Looks(one, n, way, cwd), Opens(o, n, pi, sn, way),
         one.found # None \/ sn = None \/ ~pi.abs
  PROVE  o.file = one.found /\ o.size = one.stat.size /\ o.cwd = one.cwd
<1>1. Opened(o, one.found, one.stat.size, one.cwd, one.stat)
  BY DEF Opened, OpenFile, Looks, Opens
<1>2. QED
  BY <1>1, OpenedFields, Zenon

LEMMA OpensSecond ==
  ASSUME NEW n, NEW pi, NEW sn, NEW way, NEW one, NEW two, NEW o,
         Looks(one, n, way, cwd), Looks(two, Within(pi, sn), "goes", one.cwd),
         Opens(o, n, pi, sn, way), one.found = None /\ sn # None /\ pi.abs
  PROVE  o.file = two.found /\ o.size = one.stat.size /\ o.cwd = two.cwd
<1>1. Opened(o, two.found, one.stat.size, two.cwd,
             IF two.found = None /\ two.stat = gsb THEN one.stat ELSE two.stat)
  BY DEF Within, Opened, OpenFile, Looks, Opens
<1>2. QED
  BY <1>1, OpenedFields, Zenon

(* The first look is for what the name stands for.                         *)
LEMMA FirstLook ==
  ASSUME NEW n \in FileName, Straight(n), NEW way, NEW wd \in Seq(STRING), NEW one, Looks(one, n, way, wd)
  PROVE  /\ one.found = Target(n, wd)
         /\ one.cwd = IF way = "goes" /\ n.dir # <<>> /\ IsDir(n.dir) THEN n.dir ELSE wd
         /\ one.found # None => IsFile(one.found) /\ one.stat.size = Disk[one.found]
<1> DEFINE bare == n.dir = <<>>
           dir == IF bare THEN wd ELSE n.dir
           wd2 == IF way = "goes" /\ ~bare /\ IsDir(n.dir) THEN n.dir ELSE wd
           found == Look(dir, n, ~bare)
           p == IF n.base = None THEN dir ELSE Append(dir, n.base)
           stat == StatOf(IF found = None /\ IsDir(p) THEN p ELSE found)
<1>1. n.abs \in BOOLEAN /\ n.dir \in Seq(STRING) /\ (n.abs <=> ~bare)
  BY DEF FileName, Straight
<1>2. (IF n.abs THEN n.dir ELSE wd \o n.dir) = dir
  <2>1. bare => wd \o n.dir = wd
    BY <1>1, ConcatEmptySeq
  <2>2. QED
    BY <1>1, <2>1
<1>3. Target(n, wd) = found
  BY <1>1, <1>2 DEF Target
<1>4. Looked(one, found, wd2, stat)
  BY <1>1, <1>2 DEF FixFilename, Looks, Looked
<1>5. one.found = found /\ one.cwd = wd2 /\ one.stat = stat
  <2> HIDE DEF found, wd2, stat
  <2>1. QED
    BY <1>4, LookedFields, Zenon
<1>6. ASSUME found # None
      PROVE  IsFile(found) /\ one.stat.size = Disk[found]
  <2>1. IsFile(found)
    BY <1>6, LookFound
  <2>2. one.stat = StatOf(found)
    BY <1>5, <1>6
  <2> HIDE DEF found
  <2>3. StatOf(found) = [of |-> found, size |-> Disk[found]]
    BY <1>6, <2>1 DEF StatOf, Size
  <2>4. QED
    BY <2>1, <2>2, <2>3
<1>7. QED
  <2>1. wd2 = IF way = "goes" /\ n.dir # <<>> /\ IsDir(n.dir) THEN n.dir ELSE wd
    OBVIOUS
  <2> HIDE DEF found, wd2, stat
  <2>2. QED
    BY <1>3, <1>5, <1>6, <2>1

(* The second look, beside the program, finds nothing there.               *)
LEMMA SecondLook ==
  ASSUME NEW n \in FileName, n.abs, NEW sn \in Seq(STRING), ~Beside(n, sn), NEW wd \in Seq(STRING),
         NEW two, Looks(two, Within(n, sn), "goes", wd)
  PROVE  /\ two.found = None
         /\ two.cwd = IF IsDir(sn \o n.dir) THEN sn \o n.dir ELSE wd
         /\ two.cwd \in Seq(STRING)
<1> DEFINE m == [n EXCEPT !.dir = sn \o @]
<1>1. n.dir \in Seq(STRING) /\ m.dir = sn \o n.dir /\ m.abs
  BY DEF FileName
<1>2. m.dir # <<>> /\ Look(m.dir, m, TRUE) = None
  BY DEF Beside
<1>3. Looks(two, m, "goes", wd)
  BY DEF Within
<1> HIDE DEF m
<1>4. two.found = Look(m.dir, m, TRUE) /\ two.cwd = IF IsDir(m.dir) THEN m.dir ELSE wd
  <2> DEFINE bare == m.dir = <<>>
             found == Look(m.dir, m, ~bare)
             p == IF m.base = None THEN m.dir ELSE Append(m.dir, m.base)
             wd2 == IF IsDir(m.dir) THEN m.dir ELSE wd
             stat == StatOf(IF found = None /\ IsDir(p) THEN p ELSE found)
  <2>1. Looked(two, found, wd2, stat)
    BY <1>1, <1>2, <1>3 DEF FixFilename, Looks, Looked
  <2>2. two.found = found /\ two.cwd = wd2
    <3> HIDE DEF found, wd2, stat
    <3>1. QED
      BY <2>1, LookedFields, Zenon
  <2>3. (~bare) = TRUE
    BY <1>2
  <2>4. found = Look(m.dir, m, TRUE)
    BY <2>3, Zenon
  <2>5. QED
    BY <2>2, <2>4
<1>5. sn \o n.dir \in Seq(STRING)
  BY <1>1, ConcatProperties
<1>6. QED
  BY <1>1, <1>2, <1>4, <1>5

(* A page is found where its name says, and the process goes there.        *)
LEMMA PageFound ==
  ASSUME NEW r \in Asked, r.habits \cap Devious = {}, cwd \in Seq(STRING), r.name.abs \/ cwd = Start,
         NEW o, Opens(o, r.name, r.info, r.script, "goes")
  PROVE  /\ o.file = Target(r.name, cwd)
         /\ o.cwd \in Seq(STRING)
         /\ o.file # None => IsFile(o.file) /\ o.size = Disk[o.file] /\ o.cwd = Directory(o.file)
<1> DEFINE n == r.name
           dir == IF n.abs THEN n.dir ELSE Start
<1>1. n \in FileName /\ Straight(n) /\ Slashed(n, dir) /\ r.info \in FileName
  BY NamesAre
<1>2. PICK one : Looks(one, n, "goes", cwd)
  BY DEF Looks
<1>3. /\ one.found = Target(n, cwd)
      /\ one.cwd = IF n.dir # <<>> /\ IsDir(n.dir) THEN n.dir ELSE cwd
      /\ one.found # None => IsFile(one.found) /\ one.stat.size = Disk[one.found]
  <2> HIDE DEF n
  <2>1. /\ one.found = Target(n, cwd)
        /\ one.cwd = IF "goes" = "goes" /\ n.dir # <<>> /\ IsDir(n.dir) THEN n.dir ELSE cwd
        /\ one.found # None => IsFile(one.found) /\ one.stat.size = Disk[one.found]
    BY <1>1, <1>2, FirstLook
  <2>2. QED
    BY <2>1
<1>4. n.dir \in Seq(STRING) /\ n.abs \in BOOLEAN /\ (n.abs <=> n.dir # <<>>) /\ dir \in Seq(STRING)
  BY <1>1, NamesAre DEF FileName, Straight
<1>5. one.cwd \in Seq(STRING)
  BY <1>3, <1>4
<1>6. ASSUME one.found # None PROVE one.cwd = Directory(one.found)
  <2>1. (IF n.abs THEN n.dir ELSE cwd \o n.dir) = dir
    <3>1. CASE n.abs
      BY <3>1
    <3>2. CASE ~n.abs
      <4>1. cwd = Start /\ n.dir = <<>> /\ Start \in Seq(STRING)
        BY <1>4, <3>2, NamesAre
      <4>2. QED
        BY <3>2, <4>1, ConcatEmptySeq
    <3>3. QED
      BY <3>1, <3>2
  <2>2. one.found = Look(dir, n, n.dir # <<>>)
    BY <1>3, <2>1 DEF Target
  <2>3. Directory(one.found) = dir /\ IsDir(dir)
    <3> HIDE DEF n, dir
    <3>1. QED
      BY <1>1, <1>4, <1>6, <2>2, HomeFound
  <2>4. one.cwd = dir
    <3>1. CASE n.abs
      <4>1. dir = n.dir /\ n.dir # <<>> /\ IsDir(n.dir)
        BY <1>4, <2>3, <3>1
      <4>2. QED
        BY <1>3, <4>1
    <3>2. CASE ~n.abs
      <4>1. dir = Start /\ n.dir = <<>> /\ cwd = Start
        BY <1>4, <3>2
      <4>2. QED
        BY <1>3, <4>1
    <3>3. QED
      BY <3>1, <3>2
  <2>5. QED
    BY <2>3, <2>4
<1>7. CASE one.found # None \/ r.script = None \/ ~r.info.abs
  <2>2. o.file = one.found /\ o.size = one.stat.size /\ o.cwd = one.cwd
    BY <1>2, <1>7, OpensFirst
  <2>3. QED
    BY <1>3, <1>5, <1>6, <2>2
<1>8. CASE one.found = None /\ r.script # None /\ r.info.abs
  <2>1. n.abs /\ r.script \in Seq(STRING)
    BY <1>8, NamesAre
  <2>2. Target(n, Start) = None
    BY <1>3, <1>8, <2>1 DEF Target
  <2>3. ~Beside(r.info, r.script)
    BY <1>8, <2>2, NamesAre
  <2>4. PICK two : Looks(two, Within(r.info, r.script), "goes", one.cwd)
    BY DEF Looks
  <2>5. two.found = None /\ two.cwd \in Seq(STRING)
    BY <1>1, <1>5, <1>8, <2>1, <2>3, <2>4, SecondLook
  <2>6. o.file = two.found /\ o.cwd = two.cwd
    BY <1>2, <1>8, <2>4, OpensSecond
  <2>7. QED
    BY <1>3, <1>8, <2>5, <2>6
<1>9. QED
  BY <1>7, <1>8

(* An include is found where its name says, and the process stays.         *)
LEMMA IncludeFound ==
  ASSUME NEW i \in Includes, i.habits \cap Devious = {}, cwd \in Seq(STRING),
         NEW sn, sn # None => sn \in Seq(STRING),
         (\E r \in Asked : sn = r.script) \/ (\E f \in DOMAIN Disk : sn = Directory(f)),
         NEW o, Opens(o, i.name, i.name, sn, "stays")
  PROVE  /\ o.file = Target(i.name, cwd)
         /\ o.cwd = cwd
         /\ o.file # None => o.size = Disk[o.file]
<1> DEFINE n == i.name
<1>1. n \in FileName /\ Straight(n)
  BY NamesAre
<1>2. PICK one : Looks(one, n, "stays", cwd)
  BY DEF Looks
<1>3. /\ one.found = Target(n, cwd)
      /\ one.cwd = cwd
      /\ one.found # None => one.stat.size = Disk[one.found]
  <2> HIDE DEF n
  <2>1. /\ one.found = Target(n, cwd)
        /\ one.cwd = IF "stays" = "goes" /\ n.dir # <<>> /\ IsDir(n.dir) THEN n.dir ELSE cwd
        /\ one.found # None => IsFile(one.found) /\ one.stat.size = Disk[one.found]
    BY <1>1, <1>2, FirstLook
  <2>2. QED
    BY <2>1
<1>4. CASE one.found # None \/ sn = None \/ ~n.abs
  <2>2. o.file = one.found /\ o.size = one.stat.size /\ o.cwd = one.cwd
    BY <1>2, <1>4, OpensFirst
  <2>3. QED
    BY <1>3, <2>2
<1>5. CASE one.found = None /\ sn # None /\ n.abs
  <2>1. Target(n, Start) = None
    BY <1>3, <1>5 DEF Target
  <2>2. ~Beside(n, sn) /\ ~IsDir(sn \o n.dir)
    BY <1>5, <2>1, NamesAre, Zenon
  <2>3. PICK two : Looks(two, Within(n, sn), "goes", one.cwd)
    BY DEF Looks
  <2>4. two.found = None /\ two.cwd = IF IsDir(sn \o n.dir) THEN sn \o n.dir ELSE cwd
    <3>1. sn \in Seq(STRING) /\ one.cwd \in Seq(STRING) /\ n.abs
      BY <1>3, <1>5
    <3> HIDE DEF n
    <3>2. QED
      BY <1>1, <1>3, <2>2, <2>3, <3>1, SecondLook
  <2>5. o.file = two.found /\ o.cwd = two.cwd
    BY <1>2, <1>5, <2>3, OpensSecond
  <2>6. QED
    BY <1>3, <1>5, <2>2, <2>4, <2>5
<1>6. QED
  BY <1>4, <1>5

-----------------------------------------------------------------------------
(* The inductive invariant.  FileFaithful compares what is parsed with     *)
(* what the name stands for from the directory of the page; it rests on    *)
(* the process staying in that directory while the page is parsed, and on  *)
(* being where it started, or asked for an absolute name, until the page   *)
(* is opened.                                                              *)

Found(p) ==
  /\ p.file = p.due
  /\ p.file # None => p.size = Disk[p.file]

Requested ==
  phase # "idle" => asked.request \in Asked /\ asked.request.habits \subseteq work.habits

AtStart ==
  phase \in {"data", "open"} =>
    /\ work.build = "cgi" => cwd = Start
    /\ asked.request.line => work.build = "cgi"
    /\ phase = "open" => Cgi

(* The page is known, and the process is in its directory.                 *)
AtHome ==
  phase \in {"access", "rule", "parse", "page"} \/ (phase = "data" /\ ~Cgi) =>
    /\ Found(parsed)
    /\ parsed = [file |-> parsed.file, size |-> parsed.size, due |-> parsed.due, home |-> parsed.home]
    /\ parsed.home = cwd
    /\ ~Cgi => \E f \in DOMAIN Disk : parsed.home = Directory(f)

SeekInv ==
  Without(Devious) =>
    /\ cwd \in Seq(STRING)
    /\ parsed # None => Found(parsed)
    /\ Requested /\ AtStart /\ AtHome

(* The ways that a request goes without another file.                      *)
Onward ==
  \/ phase' = phase
  \/ phase' = "idle"
  \/ phase # "idle" /\ phase' \in {"done", "dead"}
  \/ phase = "data" /\ phase' = IF Cgi THEN "open" ELSE "access"
  \/ phase \in {"access", "rule", "parse"} /\ phase' \in {"rule", "parse", "page"}

LEMMA SeekKept ==
  ASSUME SeekInv, Onward, UNCHANGED <<work, asked, cwd, parsed>>
  PROVE  SeekInv'
<1> SUFFICES ASSUME Without(Devious)' PROVE SeekInv'
  BY DEF SeekInv
<1>1. Without(Devious) /\ (Cgi' <=> Cgi)
  BY DEF Without, Cgi
<1>2. cwd' \in Seq(STRING) /\ (parsed' # None => Found(parsed)')
  BY <1>1 DEF SeekInv, Found
<1>3. Requested /\ AtStart /\ AtHome
  BY <1>1 DEF SeekInv
<1>4. Requested'
  BY <1>3 DEF Onward, Requested
<1>5. AtStart'
  BY <1>1, <1>3 DEF Onward, AtStart, Cgi
<1>6. AtHome'
  BY <1>1, <1>3 DEF Onward, AtHome, Found, Cgi
<1>7. QED
  BY <1>2, <1>4, <1>5, <1>6 DEF SeekInv

(* The server gives a page that is a file, and the process is in its       *)
(* directory.                                                              *)
LEMMA SeekBegin ==
  ASSUME SeekInv, Begin
  PROVE  SeekInv'
<1> SUFFICES ASSUME Without(Devious)' PROVE SeekInv'
  BY DEF SeekInv
<1>1. /\ work' = work /\ phase' = "data"
      /\ Without(Devious) /\ cwd \in Seq(STRING) /\ Start \in Seq(STRING)
  BY NamesAre DEF Begin, access, SeekInv, Without
<1>2. PICK r \in Asked, v \in Visitors :
        /\ r.habits \subseteq work.habits
        /\ r.line => work.build = "cgi"
        /\ work.build = "apache" => Target(r.name, <<>>) # None
        /\ asked' = [request |-> r, visitor |-> v,
                     stale |-> asked # None /\ (asked.stale \/ judge.set # None)]
        /\ IF Cgi
             THEN /\ cwd' = IF work.build = "cgi" THEN Start ELSE cwd
                  /\ parsed' = None
             ELSE LET f == Target(r.name, <<>>) IN
                  /\ cwd' = Directory(f)
                  /\ parsed' = [file |-> f, size |-> Disk[f], due |-> f, home |-> Directory(f)]
  BY Zenon DEF Begin
<1>3. asked'.request = r
  BY <1>2
<1>4. Requested'
  BY <1>1, <1>2, <1>3 DEF Requested
<1>5. CASE Cgi
  <2>1. cwd' = (IF work.build = "cgi" THEN Start ELSE cwd) /\ parsed' = None
    BY <1>2, <1>5
  <2>2. AtStart'
    BY <1>1, <1>2, <1>3, <2>1 DEF AtStart
  <2>3. AtHome'
    BY <1>1, <1>5 DEF AtHome, Cgi
  <2>4. QED
    BY <1>1, <1>4, <2>1, <2>2, <2>3 DEF SeekInv
<1>6. CASE ~Cgi
  <2>1. PICK f : f = Target(r.name, <<>>)
    OBVIOUS
  <2>2. cwd' = Directory(f) /\ parsed' = [file |-> f, size |-> Disk[f], due |-> f, home |-> Directory(f)]
    BY <1>2, <1>6, <2>1
  <2>3. f # None
    BY <1>2, <1>6, <2>1 DEF Cgi
  <2>4. f \in DOMAIN Disk
    BY <2>1, <2>3, LookFound DEF Target, IsFile
  <2>5. f \in Seq(STRING) /\ Directory(f) \in Seq(STRING)
    <3>1. f \in Seq(STRING)
      BY <2>4, NamesAre
    <3>2. Len(f) \in Nat /\ \A i \in 1 .. Len(f) - 1 : f[i] \in STRING
      BY <3>1, LenProperties
    <3>3. SubSeq(f, 1, Len(f) - 1) \in Seq(STRING)
      BY <3>2, SubSeqProperties
    <3>4. QED
      BY <3>1, <3>3 DEF Directory
  <2>6. Found(parsed)' /\ parsed'.home = cwd'
        /\ parsed' = [file |-> parsed'.file, size |-> parsed'.size, due |-> parsed'.due, home |-> parsed'.home]
    BY <2>2 DEF Found
  <2>7. AtHome'
    BY <1>6, <2>2, <2>4, <2>6 DEF AtHome, Found
  <2>8. AtStart'
    BY <1>1, <1>2, <1>3, <1>6 DEF AtStart, Cgi
  <2>9. QED
    BY <1>4, <2>2, <2>5, <2>6, <2>7, <2>8 DEF SeekInv
<1>7. QED
  BY <1>5, <1>6

(* The page is opened.                                                     *)
LEMMA SeekOpen ==
  ASSUME SeekInv, OpenPage
  PROVE  SeekInv'
<1> SUFFICES ASSUME Without(Devious)' PROVE SeekInv'
  BY DEF SeekInv
<1> DEFINE r == asked.request
<1>1. /\ work' = work /\ asked' = asked /\ phase = "open"
      /\ Without(Devious) /\ cwd \in Seq(STRING)
  BY DEF OpenPage, access, SeekInv, Without
<1>2. r \in Asked /\ r.habits \cap Devious = {} /\ Cgi /\ (r.name.abs \/ cwd = Start)
  <2>1. Requested /\ AtStart
    BY <1>1 DEF SeekInv
  <2>2. r \in Asked /\ r.habits \subseteq work.habits /\ Cgi /\ (r.line => cwd = Start)
    BY <1>1, <2>1 DEF Requested, AtStart
  <2>3. QED
    BY <1>1, <2>2, NamesAre DEF Without
<1>3. PICK o : /\ Opens(o, r.name, r.info, r.script, "goes")
               /\ cwd' = o.cwd
               /\ IF o.file = None THEN phase' \in {"dead", "done"} ELSE phase' \in {"parse", "access"}
               /\ parsed' = [file |-> o.file, size |-> o.size, due |-> Target(r.name, cwd),
                             home |-> IF o.file = None THEN None ELSE Directory(o.file)]
  BY DEF OpenPage, GiveUp, Opens
<1> HIDE DEF r
<1>4. /\ o.file = Target(r.name, cwd) /\ o.cwd \in Seq(STRING)
      /\ o.file # None => o.size = Disk[o.file] /\ o.cwd = Directory(o.file)
  BY <1>1, <1>2, <1>3, PageFound
<1>5. Requested' /\ AtStart'
  BY <1>1, <1>2, <1>3 DEF Requested, AtStart, SeekInv, r
<1>6. /\ parsed'.file = o.file /\ parsed'.size = o.size /\ parsed'.due = Target(r.name, cwd)
      /\ parsed'.home = IF o.file = None THEN None ELSE Directory(o.file)
  BY <1>3
<1>7. parsed' = [file |-> parsed'.file, size |-> parsed'.size, due |-> parsed'.due, home |-> parsed'.home]
  BY <1>3, <1>6
<1>8. Found(parsed')
  BY <1>4, <1>6 DEF Found
<1>9. AtHome'
  BY <1>1, <1>2, <1>3, <1>4, <1>6, <1>7, <1>8 DEF AtHome, Found, Cgi
<1>10. QED
  BY <1>3, <1>4, <1>5, <1>8, <1>9 DEF SeekInv, Found

(* A page includes a file, from its directory, where the process stays.    *)
LEMMA SeekInclude ==
  ASSUME SeekInv, Include
  PROVE  SeekInv'
<1> SUFFICES ASSUME Without(Devious)' PROVE SeekInv'
  BY DEF SeekInv
<1> DEFINE sn == IF Cgi THEN asked.request.script ELSE parsed.home
<1>1. /\ work' = work /\ asked' = asked /\ phase' = phase /\ phase = "page"
      /\ Without(Devious) /\ cwd \in Seq(STRING) /\ Requested /\ AtHome
  BY DEF Include, Step, OfPage, SeekInv, Without
<1>2. /\ Found(parsed) /\ parsed.home = cwd
      /\ parsed = [file |-> parsed.file, size |-> parsed.size, due |-> parsed.due, home |-> parsed.home]
      /\ ~Cgi => \E f \in DOMAIN Disk : parsed.home = Directory(f)
      /\ asked.request \in Asked
  BY <1>1 DEF AtHome, Requested
<1>3. PICK n \in Includes :
        /\ n.habits \subseteq work.habits
        /\ \E o : /\ Opens(o, n.name, n.name, sn, "stays")
                 /\ cwd' = o.cwd
                 /\ parsed' = [parsed EXCEPT !.file = o.file, !.size = o.size, !.due = Target(n.name, parsed.home)]
  BY DEF Include, Opens
<1>4. PICK o :
        /\ Opens(o, n.name, n.name, sn, "stays")
        /\ cwd' = o.cwd
        /\ parsed' = [parsed EXCEPT !.file = o.file, !.size = o.size, !.due = Target(n.name, parsed.home)]
  BY <1>3
<1>5. n.habits \cap Devious = {}
  BY <1>1, <1>3 DEF Without
<1>6. /\ sn # None => sn \in Seq(STRING)
      /\ (\E r \in Asked : sn = r.script) \/ (\E f \in DOMAIN Disk : sn = Directory(f))
  <2>1. CASE Cgi
    BY <1>2, <2>1, NamesAre
  <2>2. CASE ~Cgi
    BY <1>1, <1>2, <2>2
  <2>3. QED
    BY <2>1, <2>2
<1> HIDE DEF sn
<1>7. o.file = Target(n.name, cwd) /\ o.cwd = cwd /\ (o.file # None => o.size = Disk[o.file])
  BY <1>1, <1>4, <1>5, <1>6, IncludeFound
<1>8. parsed' = [file |-> o.file, size |-> o.size, due |-> Target(n.name, parsed.home), home |-> parsed.home]
  <2>1. PICK p : p = [file |-> parsed.file, size |-> parsed.size, due |-> parsed.due, home |-> parsed.home]
                 /\ p = parsed
    BY <1>2
  <2>2. parsed' = [p EXCEPT !.file = o.file, !.size = o.size, !.due = Target(n.name, p.home)]
    BY <1>4, <2>1
  <2>3. QED
    BY <2>1, <2>2
<1>9. /\ parsed'.file = o.file /\ parsed'.size = o.size /\ parsed'.due = Target(n.name, cwd)
      /\ parsed'.home = parsed.home
  BY <1>2, <1>8
<1>10. Found(parsed')
  BY <1>7, <1>9 DEF Found
<1>11. parsed' = [file |-> parsed'.file, size |-> parsed'.size, due |-> parsed'.due, home |-> parsed'.home]
  BY <1>8, <1>9
<1>12. AtHome'
  BY <1>1, <1>2, <1>4, <1>7, <1>9, <1>10, <1>11 DEF AtHome, Found, Cgi
<1>13. Requested' /\ AtStart'
  BY <1>1 DEF Requested, AtStart
<1>14. QED
  BY <1>1, <1>4, <1>7, <1>10, <1>12, <1>13 DEF SeekInv, Found

(* Every other step leaves the file and the directory alone.               *)
LEMMA SeekOnward ==
  ASSUME Serve, ~OpenPage, ~Include
  PROVE  Onward /\ UNCHANGED <<work, asked, cwd, parsed>>
<1>1. CASE TreatData
  BY <1>1 DEF TreatData, Onward, access
<1>2. CASE CheckAccess
  BY <1>2 DEF CheckAccess, Onward
<1>3. CASE CheckRule
  BY <1>3 DEF CheckRule, Onward
<1>4. CASE Verdict
  <2>1. UNCHANGED <<work, asked, cwd, parsed>> /\ phase = "rule" /\ phase' \in {"parse", "page", "done", "dead"}
    BY <1>4 DEF Verdict, GiveUp
  <2>2. QED
    BY <2>1 DEF Onward
<1>5. CASE ParserInit
  BY <1>5 DEF ParserInit, Onward, access
<1>6. CASE Echo \/ PageError \/ SetErrorReporting \/ PageHeader \/ ExitPage \/ EndOfFile
  BY <1>6 DEF Echo, PageError, SetErrorReporting, PageHeader, ExitPage, EndOfFile, OfPage, Onward
<1>7. CASE End \/ Done
  BY <1>7 DEF End, Done, Onward, access, page
<1>8. QED
  BY <1>1, <1>2, <1>3, <1>4, <1>5, <1>6, <1>7 DEF Serve

(* The process is in the directory of the page while it is parsed, and     *)
(* what it parses is what was meant, to its end (OpenFile, FixFilename).   *)
THEOREM SessionSeekInv == Spec => []SeekInv
<1>1. Init => SeekInv
  BY NamesAre DEF Init, SeekInv, Requested, AtStart, AtHome
<1>2. SeekInv /\ [Next]_vars => SeekInv'
  <2> SUFFICES ASSUME SeekInv, [Next]_vars PROVE SeekInv'
    OBVIOUS
  <2>1. CASE Begin
    BY <2>1, SeekBegin
  <2>2. CASE Serve
    <3>1. CASE OpenPage
      BY <3>1, SeekOpen
    <3>2. CASE Include
      BY <3>2, SeekInclude
    <3>3. CASE ~OpenPage /\ ~Include
      BY <2>2, <3>3, SeekOnward, SeekKept
    <3>4. QED
      BY <3>1, <3>2, <3>3
  <2>3. CASE Administer /\ UNCHANGED <<phase, asked, page>>
    <3>1. work' = work
      BY <2>3 DEF Administer, Configuration, Make, Lock, Made, Reread, AskPassword,
         AddFile, AddFileOpen, AddFileInsert,
         AddFileEnd, Change, ChangeWrite, ChangeEnd, Show, Killed
    <3>2. QED
      BY <2>3, <3>1, SeekKept DEF Onward, page
  <2>4. CASE UNCHANGED vars
    BY <2>4, SeekKept DEF Onward, vars, access, page
  <2>5. QED
    BY <2>1, <2>2, <2>3, <2>4 DEF Next
<1>3. QED
  BY <1>1, <1>2, PTL DEF Spec

(* What is parsed is the file that the name stands for, of its size, with  *)
(* names and pages that do not say otherwise (file.c:83-190, 261-365).     *)
THEOREM FileIsFaithful == Spec => []FileFaithful
<1>1. SeekInv => FileFaithful
  BY DEF SeekInv, FileFaithful, Found
<1>2. QED
  BY <1>1, SessionSeekInv, PTL

-----------------------------------------------------------------------------
(* The open files of a page. *)

(* The list has no number twice, only numbers that are open, and streams   *)
(* of the numbers that the page has for them.                              *)
Distinct == \A i, j \in DOMAIN fps : fps[i].id = fps[j].id => i = j
AreOpen  == \A i \in DOMAIN fps : fds[fps[i].id] # Free
Linked   == \A h \in held, i \in DOMAIN fps : fps[i].gen = h.gen => fps[i].id = h.id

(* One stream at most is closed that the page believes to have.            *)
OneGone == \E g \in Gens : \A h \in held : h.gen = g \/ \E i \in DOMAIN fps : fps[i].gen = h.gen

(* Every number that the page has leads to its stream, if the page uses    *)
(* none that it has closed.                                                *)
Reached ==
  Avoids({"stale"}) => \A h \in held : \E i \in DOMAIN fps : fps[i].id = h.id /\ fps[i].gen = h.gen

(* Pages that change nothing have written nothing.                         *)
Clean == Avoids({"changes"}) => \A i \in DOMAIN fps : fps[i].dirty = FALSE

ListInv == Distinct /\ AreOpen /\ Linked /\ OneGone /\ Reached /\ Clean

(* What is open can be reached, and nothing is lost.                       *)
Tidy == Avoids({"refused", "swap"}) /\ (build # "cgi" => Avoids({"leave"}))

Listed == \A fd \in Fds : fds[fd] # Free => \E i \in DOMAIN fps : fps[i].id = fd

LeftInv == Tidy => Listed /\ lost = FALSE

(* The name that was asked last is that of the stat record.                *)
Settled == Avoids({"missing", "changes"}) /\ (build = "apache" => Avoids({"self"}))

StatInv == /\ Avoids({"missing", "changes"}) => \A n \in Names : disk[n] = 1
           /\ Settled /\ statName # NoName => sb = [name |-> statName, rec |-> 1]

FileInv == TypeOK /\ ListInv /\ LeftInv /\ StatInv

-----------------------------------------------------------------------------
(* The list as a sequence. *)

(* An entry put before the others.                                         *)
LEMMA Pushed ==
  ASSUME NEW T, NEW s \in Seq(T), NEW e \in T, NEW q, q = <<e>> \o s
  PROVE  /\ q \in Seq(T) /\ DOMAIN q = 1 .. Len(s) + 1
         /\ q[1] = e /\ \A i \in 1 .. Len(s) : q[i + 1] = s[i]
<1>1. <<e>> \in Seq(T) /\ Len(<<e>>) = 1 /\ <<e>>[1] = e /\ Len(s) \in Nat
  BY LenProperties
<1>2. /\ <<e>> \o s \in Seq(T) /\ Len(<<e>> \o s) = Len(<<e>>) + Len(s)
      /\ \A i \in 1 .. Len(<<e>>) + Len(s) :
           (<<e>> \o s)[i] = IF i <= Len(<<e>>) THEN <<e>>[i] ELSE s[i - Len(<<e>>)]
  BY <1>1, ConcatProperties, Zenon
<1> DEFINE p == <<e>> \o s
           n == Len(s)
<1>3. p \in Seq(T) /\ DOMAIN p = 1..Len(p)
  BY <1>2, LenProperties
<1> HIDE DEF p
<1>4. Len(p) = 1 + n /\ \A i \in 1 .. 1 + n : p[i] = IF i <= 1 THEN e ELSE s[i - 1]
  BY <1>1, <1>2 DEF p
<1>5. n \in Nat
  BY <1>1
<1> HIDE DEF n
<1>6. p[1] = e /\ DOMAIN p = 1 .. n + 1
  BY <1>3, <1>4, <1>5
<1>7. ASSUME NEW i \in 1..n PROVE p[i + 1] = s[i]
  <2>1. i + 1 \in 1 .. 1 + n /\ ~(i + 1 <= 1) /\ (i + 1) - 1 = i
    BY <1>5
  <2>2. QED
    BY <1>4, <2>1
<1>8. QED
  BY <1>3, <1>6, <1>7 DEF p, n

(* An entry taken out.                                                     *)
LEMMA TakenOut ==
  ASSUME NEW T, NEW s \in Seq(T), NEW k \in DOMAIN s
  PROVE  LET r == RemoveAt(s, k) IN
         /\ r \in Seq(T) /\ DOMAIN r = 1 .. Len(s) - 1 /\ Len(s) \in Nat
         /\ \A i \in 1 .. k - 1 : r[i] = s[i] /\ i \in DOMAIN r
         /\ \A i \in k + 1 .. Len(s) : r[i - 1] = s[i] /\ i - 1 \in DOMAIN r
<1> DEFINE n == Len(s)
           a == SubSeq(s, 1, k - 1)
           b == SubSeq(s, k + 1, n)
           r == a \o b
<1>1. n \in Nat /\ DOMAIN s = 1..n /\ \A j \in 1..n : s[j] \in T
  BY LenProperties, ElementOfSeq
<1>2. k \in 1..n /\ k \in Int /\ k - 1 \in Int /\ k + 1 \in Int /\ n \in Int /\ 1 \in Int
  BY <1>1
<1>3. a \in Seq(T) /\ Len(a) = k - 1 /\ \A j \in 1 .. k - 1 : a[j] = s[j]
  <2>1. \A j \in 1 .. k - 1 : s[j] \in T
    BY <1>1, <1>2
  <2>2. /\ a \in Seq(T) /\ Len(a) = IF 1 <= k - 1 THEN (k - 1) - 1 + 1 ELSE 0
        /\ \A j \in 1 .. (k - 1) - 1 + 1 : a[j] = s[1 + j - 1]
    BY <1>2, <2>1, SubSeqProperties
  <2> HIDE DEF a
  <2>3. \A j \in 1 .. k - 1 : j \in 1 .. (k - 1) - 1 + 1 /\ 1 + j - 1 = j
    BY <1>2
  <2>4. QED
    BY <1>2, <2>2, <2>3
<1>4. b \in Seq(T) /\ Len(b) = n - k /\ \A j \in 1 .. n - k : b[j] = s[k + j]
  <2>1. \A j \in k + 1 .. n : s[j] \in T
    BY <1>1, <1>2
  <2>2. /\ b \in Seq(T) /\ Len(b) = IF k + 1 <= n THEN n - (k + 1) + 1 ELSE 0
        /\ \A j \in 1 .. n - (k + 1) + 1 : b[j] = s[(k + 1) + j - 1]
    BY <1>2, <2>1, SubSeqProperties
  <2> HIDE DEF b
  <2>3. \A j \in 1 .. n - k : j \in 1 .. n - (k + 1) + 1 /\ (k + 1) + j - 1 = k + j
    BY <1>1, <1>2
  <2>4. QED
    BY <1>1, <1>2, <2>2, <2>3
<1> HIDE DEF a, b
<1>5. /\ r \in Seq(T) /\ Len(r) = Len(a) + Len(b)
      /\ \A i \in 1 .. Len(a) + Len(b) : r[i] = IF i <= Len(a) THEN a[i] ELSE b[i - Len(a)]
  BY <1>3, <1>4, ConcatProperties
<1>6. r \in Seq(T) /\ DOMAIN r = 1..Len(r)
  BY <1>5, LenProperties
<1> HIDE DEF r, n
<1>7. Len(r) = n - 1 /\ \A i \in 1 .. n - 1 : r[i] = IF i <= k - 1 THEN a[i] ELSE b[i - (k - 1)]
  BY <1>1, <1>2, <1>3, <1>4, <1>5
<1>8. ASSUME NEW i \in 1 .. k - 1 PROVE r[i] = s[i] /\ i \in DOMAIN r
  <2>1. i \in 1 .. n - 1 /\ i <= k - 1
    BY <1>1, <1>2
  <2>2. QED
    BY <1>3, <1>6, <1>7, <2>1
<1>9. ASSUME NEW i \in k + 1 .. n PROVE r[i - 1] = s[i] /\ i - 1 \in DOMAIN r
  <2>1. i - 1 \in 1 .. n - 1 /\ ~(i - 1 <= k - 1) /\ (i - 1) - (k - 1) \in 1 .. n - k
        /\ k + ((i - 1) - (k - 1)) = i
    BY <1>1, <1>2
  <2>2. QED
    BY <1>4, <1>6, <1>7, <2>1
<1>10. RemoveAt(s, k) = r
  BY DEF RemoveAt, r, a, b, n
<1>11. QED
  BY <1>1, <1>6, <1>7, <1>8, <1>9, <1>10 DEF n

(* Where the first entry with a number is.                                 *)
LEMMA FpAtIs ==
  ASSUME TypeOK, NEW id, Uses(id)
  PROVE  FpAt(id) \in DOMAIN fps /\ fps[FpAt(id)].id = id
<1>1. fps \in Seq(Entries) /\ DOMAIN fps = 1..Len(fps) /\ Len(fps) \in Nat
  <2>1. fps \in Seq(Entries)
    BY DEF TypeOK
  <2>2. QED
    BY <2>1, LenProperties
<1> DEFINE T == {i \in DOMAIN fps : fps[i].id = id}
<1>2. T # {} /\ T \in SUBSET Nat
  BY <1>1 DEF Uses, Ids, Range0
<1>3. PICK i \in T : \A j \in T : i <= j
  <2> HIDE DEF T
  <2>1. QED
    BY <1>2, LeastIn
<1>4. i \in DOMAIN fps /\ fps[i].id = id /\ \A j \in 1 .. i - 1 : fps[j].id # id
  <2>1. ASSUME NEW j \in 1 .. i - 1, fps[j].id = id PROVE FALSE
    <3>1. j \in DOMAIN fps /\ j < i
      BY <1>1, <1>3
    <3>2. i <= j
      BY <1>3, <2>1, <3>1
    <3>3. QED
      BY <1>2, <1>3, <3>1, <3>2
  <2>2. QED
    BY <1>3, <2>1
<1>5. QED
  BY <1>4 DEF FpAt

(* The lowest number that is free.                                         *)
LEMMA LowestIs ==
  ASSUME TypeOK, CanOpen, MaxFd \in Nat
  PROVE  Lowest \in Fds /\ fds[Lowest] = Free
<1> DEFINE T == {fd \in Fds : fds[fd] = Free}
<1>1. T # {} /\ T \in SUBSET Nat
  BY DEF CanOpen, Fds
<1>2. PICK i \in T : \A j \in T : i <= j
  <2> HIDE DEF T
  <2>1. QED
    BY <1>1, LeastIn
<1>3. i \in Fds /\ fds[i] = Free /\ \A d \in 1 .. i - 1 : fds[d] # Free
  <2>1. ASSUME NEW d \in 1 .. i - 1, fds[d] = Free PROVE FALSE
    <3>1. d \in T /\ d < i
      BY <1>2, <2>1 DEF Fds
    <3>2. i <= d
      BY <1>2, <3>1
    <3>3. QED
      BY <1>1, <1>2, <3>1, <3>2
  <2>2. QED
    BY <1>2, <2>1
<1>4. QED
  BY <1>3 DEF Lowest

-----------------------------------------------------------------------------
(* What the changes of the list keep. *)

LEMMA ListTyped ==
  ASSUME TypeOK
  PROVE  /\ fps \in Seq(Entries) /\ DOMAIN fps = 1..Len(fps) /\ Len(fps) \in Nat
         /\ \A i \in DOMAIN fps : /\ fps[i] \in Entries /\ fps[i].id \in Fds
                                  /\ fps[i].gen \in Gens /\ fps[i].dirty \in BOOLEAN
<1>1. fps \in Seq(Entries)
  BY DEF TypeOK
<1>2. DOMAIN fps = 1..Len(fps) /\ Len(fps) \in Nat
  BY <1>1, LenProperties
<1>3. \A i \in DOMAIN fps : fps[i] \in Entries
  BY <1>1, <1>2, ElementOfSeq
<1>4. \A e \in Entries : e.id \in Fds /\ e.gen \in Gens /\ e.dirty \in BOOLEAN
  BY DEF Entries
<1>5. QED
  BY <1>1, <1>2, <1>3, <1>4

(* There is a name for a new stream: the list has less entries than there  *)
(* are descriptors, and of what the page holds one stream at most is not   *)
(* in it.                                                                  *)
LEMMA NewGenIs ==
  ASSUME TypeOK, ListInv, CanOpen, MaxFd \in Nat \ {0}
  PROVE  /\ NewGen \in Gens
         /\ \A i \in DOMAIN fps : fps[i].gen # NewGen
         /\ NewGen # inTag
         /\ \A h \in held : h.gen # NewGen
<1> DEFINE Used == {inTag} \union {e.gen : e \in Range0(fps)} \union {h.gen : h \in held}
<1>1. Lowest \in 1..MaxFd /\ \A i \in DOMAIN fps : fps[i].id \in 1..MaxFd /\ fps[i].id # Lowest
  <2>1. Lowest \in Fds /\ fds[Lowest] = Free
    BY LowestIs
  <2>2. \A i \in DOMAIN fps : fds[fps[i].id] # Free
    BY DEF ListInv, AreOpen
  <2>3. \A i \in DOMAIN fps : fps[i].id \in Fds
    BY ListTyped
  <2>4. QED
    BY <2>1, <2>2, <2>3 DEF Fds
<1>2. PICK gone \in Gens : \A h \in held : h.gen = gone \/ \E i \in DOMAIN fps : fps[i].gen = h.gen
  BY DEF ListInv, OneGone
<1>3. \A g \in Used : g = inTag \/ g = gone \/ \E i \in DOMAIN fps : fps[i].gen = g
  BY <1>2 DEF Range0
<1>4. \E g \in Gens : g \notin Used
  <2>1. SUFFICES ASSUME \A g \in Gens : g \in Used PROVE FALSE
    OBVIOUS
  <2> DEFINE At(g) == CHOOSE i \in DOMAIN fps : fps[i].gen = g
             T == (0 .. MaxFd + 1) \ {Lowest}
             f == [g \in Gens |-> IF g = inTag THEN 0 ELSE IF g = gone THEN MaxFd + 1 ELSE fps[At(g)].id]
  <2> HIDE DEF Used
  <2>2. \A g \in Gens : g # inTag /\ g # gone => At(g) \in DOMAIN fps /\ fps[At(g)].gen = g
    BY <1>3, <2>1
  <2> HIDE DEF At
  <2>3. \A g \in Gens : f[g] = IF g = inTag THEN 0 ELSE IF g = gone THEN MaxFd + 1 ELSE fps[At(g)].id
    OBVIOUS
  <2>4. f \in [Gens -> T]
    BY <1>1, <2>2
  <2> HIDE DEF f
  <2>5. IsFiniteSet(T) /\ Cardinality(T) = MaxFd + 1
    <3> DEFINE U == 0 .. MaxFd + 1
    <3>1. 0 \in Int /\ MaxFd + 1 \in Int /\ ~(0 > MaxFd + 1) /\ MaxFd + 1 - 0 + 1 = MaxFd + 2
      OBVIOUS
    <3>2. IsFiniteSet(U) /\ Cardinality(U) = MaxFd + 2
      BY <3>1, FS_Interval
    <3>3. Lowest \in U
      BY <1>1
    <3> HIDE DEF U
    <3>4. IsFiniteSet(U \ {Lowest}) /\ Cardinality(U \ {Lowest}) = Cardinality(U) - 1
      BY <3>2, <3>3, FS_RemoveElement
    <3>5. T = U \ {Lowest}
      BY DEF U
    <3> HIDE DEF T
    <3>6. QED
      BY <3>2, <3>4, <3>5
  <2>6. IsFiniteSet(Gens) /\ Cardinality(Gens) = 3 * MaxFd
    <3>1. 1 \in Int /\ 3 * MaxFd \in Int /\ ~(1 > 3 * MaxFd) /\ 3 * MaxFd - 1 + 1 = 3 * MaxFd
      OBVIOUS
    <3>2. QED
      BY <3>1, FS_Interval DEF Gens
  <2> HIDE DEF T
  <2>7. Cardinality(T) < Cardinality(Gens)
    BY <2>5, <2>6
  <2>8. PICK x, y \in Gens : x # y /\ f[x] = f[y]
    BY <2>4, <2>5, <2>6, <2>7, FS_PigeonHole
  <2>9. (x # inTag /\ x # gone => fps[At(x)].id \in 1..MaxFd) /\ (y # inTag /\ y # gone => fps[At(y)].id \in 1..MaxFd)
    BY <1>1, <2>2
  <2>10. x # inTag /\ x # gone /\ y # inTag /\ y # gone
    BY <2>3, <2>8, <2>9
  <2>11. fps[At(x)].id = fps[At(y)].id
    BY <2>3, <2>8, <2>10
  <2>12. At(x) = At(y)
    BY <2>2, <2>10, <2>11 DEF ListInv, Distinct
  <2>13. QED
    BY <2>2, <2>8, <2>10, <2>12
<1>5. NewGen \in Gens /\ NewGen \notin Used
  BY <1>4 DEF NewGen
<1>6. QED
  BY <1>5 DEF Range0

(* An entry of the list that stays the same stream.                        *)
LEMMA ListKept ==
  ASSUME TypeOK, ListInv, fds' = fds, held' = held, habits' = habits, DOMAIN fps' = DOMAIN fps,
         \A i \in DOMAIN fps : /\ fps'[i].id = fps[i].id /\ fps'[i].gen = fps[i].gen
                               /\ Avoids({"changes"}) => fps'[i].dirty = fps[i].dirty
  PROVE  ListInv'
<1>1. Distinct' /\ AreOpen'
  BY DEF ListInv, Distinct, AreOpen
<1>2. Linked'
  BY DEF ListInv, Linked
<1>3. OneGone'
  BY DEF ListInv, OneGone, Gens
<1>4. Avoids({"stale"})' <=> Avoids({"stale"})
  BY DEF Avoids
<1>5. Avoids({"changes"})' <=> Avoids({"changes"})
  BY DEF Avoids
<1>6. Reached'
  BY <1>4 DEF ListInv, Reached
<1>7. Clean'
  BY <1>5 DEF ListInv, Clean
<1>8. QED
  BY <1>1, <1>2, <1>3, <1>6, <1>7 DEF ListInv

(* A new entry, with a number that was free and a stream that is new.      *)
LEMMA ListPushed ==
  ASSUME TypeOK, ListInv, habits' = habits, NEW id \in Fds, NEW g \in Gens, NEW kind, kind # Free,
         fds[id] = Free, fds' = [fds EXCEPT ![id] = kind],
         \A i \in DOMAIN fps : fps[i].gen # g, \A h \in held : h.gen # g,
         held' = held \union {[id |-> id, gen |-> g]},
         DOMAIN fps' = 1 .. Len(fps) + 1, fps'[1].id = id, fps'[1].gen = g, fps'[1].dirty = FALSE,
         \A i \in DOMAIN fps : fps'[i + 1] = fps[i]
  PROVE  ListInv'
<1> DEFINE n == Len(fps)
<1>0. n \in Nat /\ DOMAIN fps = 1..n /\ \A i \in 1..n : fps[i].id \in Fds
  BY ListTyped
<1>1. fds \in [Fds -> Kinds \union {Free}] /\ held \subseteq [id : Fds, gen : Gens]
  BY DEF TypeOK
<1> HIDE DEF n
<1>2. DOMAIN fps' = 1 .. n + 1 /\ \A i \in 1 .. n + 1 : i = 1 \/ (i - 1 \in 1..n /\ fps'[i] = fps[i - 1])
  <2>1. ASSUME NEW i \in 1 .. n + 1, i # 1 PROVE i - 1 \in 1..n /\ fps'[i] = fps[i - 1]
    <3>1. i - 1 \in 1..n /\ (i - 1) + 1 = i
      BY <1>0, <2>1
    <3>2. QED
      BY <1>0, <3>1
  <2>2. QED
    BY <2>1 DEF n
<1>3. \A i \in 1..n : fps[i].id # id
  BY <1>0 DEF ListInv, AreOpen
<1>4. Distinct'
  <2>1. ASSUME NEW i \in 1 .. n + 1, NEW j \in 1 .. n + 1, fps'[i].id = fps'[j].id PROVE i = j
    <3>1. CASE i = 1
      BY <1>2, <1>3, <2>1, <3>1
    <3>2. CASE j = 1
      BY <1>2, <1>3, <2>1, <3>2
    <3>3. CASE i # 1 /\ j # 1
      <4>1. i - 1 \in 1..n /\ j - 1 \in 1..n /\ fps[i - 1].id = fps[j - 1].id
        BY <1>2, <2>1, <3>3
      <4>2. i - 1 = j - 1
        BY <1>0, <4>1 DEF ListInv, Distinct
      <4>3. QED
        BY <4>2
    <3>4. QED
      BY <3>1, <3>2, <3>3
  <2>2. QED
    BY <1>2, <2>1 DEF Distinct
<1>5. AreOpen'
  <2>1. ASSUME NEW i \in 1 .. n + 1 PROVE fds'[fps'[i].id] # Free
    <3>1. CASE i = 1
      BY <1>1, <3>1
    <3>2. CASE i # 1
      <4>1. i - 1 \in 1..n /\ fps'[i] = fps[i - 1]
        BY <1>2, <3>2
      <4>2. fds[fps[i - 1].id] # Free /\ fps[i - 1].id # id /\ fps[i - 1].id \in Fds
        BY <1>0, <1>3, <4>1 DEF ListInv, AreOpen
      <4>3. QED
        BY <1>1, <4>1, <4>2
    <3>3. QED
      BY <3>1, <3>2
  <2>2. QED
    BY <1>2, <2>1 DEF AreOpen
<1>6. \A h \in held' : h \in held \/ (h.id = id /\ h.gen = g)
  OBVIOUS
<1>7. \A i \in 1..n : i + 1 \in 1 .. n + 1 /\ fps'[i + 1] = fps[i]
  BY <1>0
<1>7a. 1 \in DOMAIN fps'
  BY <1>0, <1>2
<1>8. Linked'
  <2>1. ASSUME NEW h \in held', NEW i \in 1 .. n + 1, fps'[i].gen = h.gen PROVE fps'[i].id = h.id
    <3>1. CASE i = 1
      BY <1>6, <2>1, <3>1
    <3>2. CASE i # 1
      <4>1. i - 1 \in 1..n /\ fps'[i] = fps[i - 1]
        BY <1>2, <3>2
      <4>2. h \in held
        BY <1>0, <1>6, <2>1, <4>1
      <4>3. QED
        BY <1>0, <2>1, <4>1, <4>2 DEF ListInv, Linked
    <3>3. QED
      BY <3>1, <3>2
  <2>2. QED
    BY <1>2, <2>1 DEF Linked
<1>9. OneGone'
  <2>1. PICK gone \in Gens : \A h \in held : h.gen = gone \/ \E i \in DOMAIN fps : fps[i].gen = h.gen
    BY DEF ListInv, OneGone
  <2>2. ASSUME NEW h \in held' PROVE h.gen = gone \/ \E i \in DOMAIN fps' : fps'[i].gen = h.gen
    <3>1. CASE h \in held
      BY <1>0, <1>2, <1>7, <2>1, <3>1
    <3>2. CASE h \notin held
      BY <1>6, <1>7a, <3>2
    <3>3. QED
      BY <3>1, <3>2
  <2>3. QED
    BY <2>1, <2>2 DEF OneGone, Gens
<1>10. Reached'
  <2>1. ASSUME Avoids({"stale"})', NEW h \in held'
        PROVE  \E i \in DOMAIN fps' : fps'[i].id = h.id /\ fps'[i].gen = h.gen
    <3>0. Avoids({"stale"})
      BY <2>1 DEF Avoids
    <3>1. CASE h \in held
      <4>1. PICK i \in 1..n : fps[i].id = h.id /\ fps[i].gen = h.gen
        BY <1>0, <3>0, <3>1 DEF ListInv, Reached
      <4>2. i + 1 \in DOMAIN fps' /\ fps'[i + 1].id = h.id /\ fps'[i + 1].gen = h.gen
        BY <1>2, <1>7, <4>1
      <4>3. QED
        BY <4>2
    <3>2. CASE h \notin held
      BY <1>6, <1>7a, <3>2
    <3>3. QED
      BY <3>1, <3>2
  <2>2. QED
    BY <2>1 DEF Reached
<1>11. Clean'
  <2>1. ASSUME Avoids({"changes"})', NEW i \in 1 .. n + 1 PROVE fps'[i].dirty = FALSE
    <3>0. Avoids({"changes"})
      BY <2>1 DEF Avoids
    <3>1. CASE i # 1
      <4>1. i - 1 \in 1..n /\ fps'[i] = fps[i - 1]
        BY <1>2, <3>1
      <4>2. QED
        BY <1>0, <3>0, <4>1 DEF ListInv, Clean
    <3>2. QED
      BY <3>1
  <2>2. QED
    BY <1>2, <2>1 DEF Clean
<1>12. QED
  BY <1>4, <1>5, <1>8, <1>9, <1>10, <1>11 DEF ListInv

(* An entry that goes, and its number with it, or a stream that the page   *)
(* does not know to be its own.                                            *)
LEMMA ListRemoved ==
  ASSUME TypeOK, ListInv, habits' = habits, NEW k \in DOMAIN fps, fps' = RemoveAt(fps, k),
         fds' = fds \/ fds' = [fds EXCEPT ![fps[k].id] = Free],
         Releases(fps[k].id)
  PROVE  ListInv'
<1> DEFINE n == Len(fps)
<1>0. fps \in Seq(Entries) /\ n \in Nat /\ DOMAIN fps = 1..n /\ \A i \in 1..n : fps[i].id \in Fds /\ fps[i].gen \in Gens
  BY ListTyped
<1>1. fds \in [Fds -> Kinds \union {Free}] /\ held \subseteq [id : Fds, gen : Gens]
  BY DEF TypeOK
<1>2. /\ DOMAIN fps' = 1 .. n - 1
      /\ \A i \in 1 .. k - 1 : fps'[i] = fps[i] /\ i \in DOMAIN fps'
      /\ \A i \in k + 1 .. n : fps'[i - 1] = fps[i] /\ i - 1 \in DOMAIN fps'
  BY <1>0, TakenOut, Zenon
<1> HIDE DEF n
<1>3. k \in 1..n
  BY <1>0
(* Every entry that is left was there, and all but one are left.           *)
<1>4. \A i \in DOMAIN fps' : \/ i \in 1..n /\ i # k /\ i < k /\ fps'[i] = fps[i]
                             \/ i >= k /\ i + 1 \in 1..n /\ i + 1 # k /\ fps'[i] = fps[i + 1]
  <2> TAKE i \in DOMAIN fps'
  <2>1. i \in 1 .. n - 1
    BY <1>2
  <2>2. CASE i < k
    <3>1. i \in 1 .. k - 1 /\ i \in 1..n
      BY <1>0, <1>3, <2>1, <2>2
    <3>2. QED
      BY <1>2, <2>2, <3>1
  <2>3. CASE i >= k
    <3>1. i + 1 \in k + 1 .. n /\ i + 1 \in 1..n /\ i + 1 # k /\ (i + 1) - 1 = i
      BY <1>0, <1>3, <2>1, <2>3
    <3>2. QED
      BY <1>2, <2>3, <3>1
  <2>4. QED
    BY <1>3, <2>1, <2>2, <2>3
<1>5. \A i \in DOMAIN fps' : \E j \in 1..n : j # k /\ fps'[i] = fps[j]
  BY <1>4
<1>6. \A j \in 1..n : j # k => \E i \in DOMAIN fps' : fps'[i] = fps[j]
  <2> TAKE j \in 1..n
  <2>1. j # k => j \in 1 .. k - 1 \/ j \in k + 1 .. n
    BY <1>0, <1>3
  <2>2. QED
    BY <1>2, <2>1
<1>7. Distinct'
  <2>1. ASSUME NEW i \in DOMAIN fps', NEW j \in DOMAIN fps', fps'[i].id = fps'[j].id PROVE i = j
    <3>1. \A a, b \in 1..n : fps[a].id = fps[b].id => a = b
      BY <1>0 DEF ListInv, Distinct
    <3>2. i \in 1 .. n - 1 /\ j \in 1 .. n - 1
      BY <1>2
    <3>3. CASE fps'[i] = fps[i] /\ i \in 1..n /\ i < k
      <4>1. CASE fps'[j] = fps[j] /\ j \in 1..n
        BY <2>1, <3>1, <3>3, <4>1
      <4>2. CASE j >= k /\ j + 1 \in 1..n /\ fps'[j] = fps[j + 1]
        <5>1. i = j + 1
          BY <2>1, <3>1, <3>3, <4>2
        <5>2. QED
          BY <1>0, <1>3, <3>2, <3>3, <4>2, <5>1
      <4>3. QED
        BY <1>4, <4>1, <4>2
    <3>4. CASE i >= k /\ i + 1 \in 1..n /\ fps'[i] = fps[i + 1]
      <4>1. CASE fps'[j] = fps[j] /\ j \in 1..n /\ j < k
        <5>1. j = i + 1
          BY <2>1, <3>1, <3>4, <4>1
        <5>2. QED
          BY <1>0, <1>3, <3>2, <3>4, <4>1, <5>1
      <4>2. CASE j + 1 \in 1..n /\ fps'[j] = fps[j + 1]
        <5>1. i + 1 = j + 1
          BY <2>1, <3>1, <3>4, <4>2
        <5>2. QED
          BY <3>2, <5>1
      <4>3. QED
        BY <1>4, <4>1, <4>2
    <3>5. QED
      BY <1>4, <3>3, <3>4
  <2>2. QED
    BY <2>1 DEF Distinct
<1>8. AreOpen'
  <2>1. ASSUME NEW j \in 1..n, j # k PROVE fds'[fps[j].id] # Free
    <3>1. fps[j].id # fps[k].id /\ fds[fps[j].id] # Free /\ fps[j].id \in Fds
      BY <1>0, <1>3, <2>1 DEF ListInv, Distinct, AreOpen
    <3>2. QED
      BY <1>1, <3>1
  <2>2. QED
    BY <1>5, <2>1 DEF AreOpen
<1>9. held' \subseteq held
  BY DEF Releases
<1>10. Linked'
  <2>1. \A h \in held, j \in 1..n : fps[j].gen = h.gen => fps[j].id = h.id
    BY <1>0 DEF ListInv, Linked
  <2>2. QED
    BY <1>5, <1>9, <2>1 DEF Linked
<1>11. OneGone'
  <2>1. CASE held' = {h \in held : h.id # fps[k].id}
    <3>1. PICK gone \in Gens : \A h \in held : h.gen = gone \/ \E i \in DOMAIN fps : fps[i].gen = h.gen
      BY DEF ListInv, OneGone
    <3>2. ASSUME NEW h \in held' PROVE h.gen = gone \/ \E i \in DOMAIN fps' : fps'[i].gen = h.gen
      <4>1. h \in held /\ h.id # fps[k].id
        BY <2>1
      <4>2. CASE \E i \in DOMAIN fps : fps[i].gen = h.gen
        <5>1. PICK i \in 1..n : fps[i].gen = h.gen
          BY <1>0, <4>2
        <5>2. i # k
          BY <1>0, <4>1, <5>1 DEF ListInv, Linked
        <5>3. QED
          BY <1>6, <5>1, <5>2
      <4>3. QED
        BY <3>1, <4>1, <4>2
    <3>3. QED
      BY <3>1, <3>2 DEF OneGone, Gens
  <2>2. CASE held' = held /\ \A h \in held : \E e \in Range0(fps) : e.gen = h.gen
    <3>1. \A h \in held : \E i \in 1..n : fps[i].gen = h.gen
      BY <1>0, <2>2 DEF Range0
    <3>2. \A h \in held' : h.gen = fps[k].gen \/ \E i \in DOMAIN fps' : fps'[i].gen = h.gen
      <4> TAKE h \in held'
      <4>1. PICK i \in 1..n : fps[i].gen = h.gen
        BY <2>2, <3>1
      <4>2. QED
        BY <1>6, <4>1
    <3>3. fps[k].gen \in Gens
      BY <1>0, <1>3
    <3>4. QED
      BY <3>2, <3>3 DEF OneGone, Gens
  <2>3. QED
    BY <2>1, <2>2 DEF Releases
<1>12. Reached'
  <2>1. ASSUME Avoids({"stale"})', NEW h \in held'
        PROVE  \E i \in DOMAIN fps' : fps'[i].id = h.id /\ fps'[i].gen = h.gen
    <3>0. Avoids({"stale"}) /\ "stale" \notin habits
      BY <2>1 DEF Avoids
    <3>1. h \in held /\ h.id # fps[k].id
      BY <3>0 DEF Releases
    <3>2. PICK i \in 1..n : fps[i].id = h.id /\ fps[i].gen = h.gen
      BY <1>0, <3>0, <3>1 DEF ListInv, Reached
    <3>3. QED
      BY <1>6, <3>1, <3>2
  <2>2. QED
    BY <2>1 DEF Reached
<1>13. Clean'
  <2>1. ASSUME Avoids({"changes"})' PROVE \A i \in DOMAIN fps' : fps'[i].dirty = FALSE
    <3>1. Avoids({"changes"})
      BY <2>1 DEF Avoids
    <3>2. \A i \in 1..n : fps[i].dirty = FALSE
      BY <1>0, <3>1 DEF ListInv, Clean
    <3>3. QED
      BY <1>5, <3>2
  <2>2. QED
    BY <2>1 DEF Clean
<1>14. QED
  BY <1>7, <1>8, <1>10, <1>11, <1>12, <1>13 DEF ListInv

-----------------------------------------------------------------------------
(* What fgetss() makes of a line: a fold over its tokens. *)

Kept  == {"none", "<", ">", "(", ")", "q"}
Scans == [st : 0..2, br : Int, lc : Kept, out : Seq(Tokens)]

LEMMA ScanTyped ==
  ASSUME NEW s \in Scans, NEW t \in Tokens
  PROVE  Scan(s, t) \in Scans
<1> DEFINE st == s.st
           br == s.br
           lc == s.lc
           out == s.out
<1>1. st \in 0..2 /\ br \in Int /\ lc \in Kept /\ out \in Seq(Tokens)
  BY DEF Scans
<1>2. Append(out, t) \in Seq(Tokens) /\ 0 \in Int /\ 0 \in 0..2 /\ 1 \in 0..2 /\ 2 \in 0..2
  <2> HIDE DEF out
  <2>1. QED
    BY <1>1
<1>3. "<" \in Kept /\ ">" \in Kept /\ (IF lc = "q" THEN "none" ELSE "q") \in Kept
  BY DEF Kept
<1>4. ASSUME NEW a \in 0..2, NEW b \in Int, NEW c \in Kept, NEW o \in Seq(Tokens)
      PROVE  /\ [s EXCEPT !.st = a] \in Scans /\ [s EXCEPT !.lc = c] \in Scans /\ [s EXCEPT !.out = o] \in Scans
             /\ [s EXCEPT !.st = a, !.lc = c] \in Scans /\ [s EXCEPT !.st = a, !.br = b] \in Scans
             /\ [s EXCEPT !.lc = c, !.br = b] \in Scans
  BY Zenon DEF Scans
<1>5. CASE st = 0
  <2>1. [s EXCEPT !.st = 1, !.lc = "<"] \in Scans /\ [s EXCEPT !.out = Append(@, t)] \in Scans
    BY <1>1, <1>2, <1>3, <1>4, Zenon
  <2>2. Scan(s, t) = s \/ Scan(s, t) = [s EXCEPT !.st = 1, !.lc = "<"] \/ Scan(s, t) = [s EXCEPT !.out = Append(@, t)]
    <3>1. CASE t = "<"
      BY <1>5, <3>1, SMT DEF Scan
    <3>2. CASE t = ">"
      BY <1>5, <3>2, SMT DEF Scan
    <3>3. CASE t # "<" /\ t # ">"
      BY <1>5, <3>3, SMT DEF Scan
    <3>4. QED
      BY <3>1, <3>2, <3>3
  <2>3. QED
    BY <2>1, <2>2, Zenon
<1>6. CASE st = 1
  <2>1. [s EXCEPT !.st = 0, !.lc = ">"] \in Scans /\ [s EXCEPT !.st = 2, !.br = 0] \in Scans
    BY <1>1, <1>2, <1>3, <1>4, Zenon
  <2>2. Scan(s, t) = s \/ Scan(s, t) = [s EXCEPT !.st = 0, !.lc = ">"] \/ Scan(s, t) = [s EXCEPT !.st = 2, !.br = 0]
    <3>1. CASE t = ">"
      BY <1>6, <3>1, SMT DEF Scan
    <3>2. CASE t = "?"
      BY <1>6, <3>2, SMT DEF Scan
    <3>3. CASE t # "?" /\ t # ">"
      BY <1>6, <3>3, SMT DEF Scan
    <3>4. QED
      BY <3>1, <3>2, <3>3
  <2>3. QED
    BY <2>1, <2>2, Zenon
<1>7. CASE st = 2
  <2>1. CASE t \in {"(", ")"} /\ lc # "q"
    <3>1. t \in Kept
      BY <2>1 DEF Kept
    <3>2. (IF t = "(" THEN br + 1 ELSE br - 1) \in Int
      <4> HIDE DEF br
      <4>1. br + 1 \in Int /\ br - 1 \in Int
        BY <1>1
      <4>2. QED
        BY <4>1
    <3>3. [s EXCEPT !.lc = t, !.br = IF t = "(" THEN @ + 1 ELSE @ - 1] \in Scans
      BY <1>4, <3>1, <3>2, <1>1, <1>2, Zenon
    <3>4. Scan(s, t) = [s EXCEPT !.lc = t, !.br = IF t = "(" THEN @ + 1 ELSE @ - 1]
      BY <1>7, <2>1, SMT DEF Scan
    <3>5. QED
      BY <3>3, <3>4, Zenon
  <2>2. CASE t = ">" /\ br = 0 /\ lc # "q"
    <3>1. Scan(s, t) = [s EXCEPT !.st = 0]
      BY <1>7, <2>2, SMT DEF Scan
    <3>2. QED
      BY <1>1, <1>2, <1>4, <3>1, Zenon
  <2>3. CASE t = "q"
    <3>1. Scan(s, t) = [s EXCEPT !.lc = IF @ = "q" THEN "none" ELSE "q"]
      BY <1>7, <2>3, SMT DEF Scan
    <3>2. QED
      BY <1>1, <1>2, <1>3, <1>4, <3>1, Zenon
  <2>4. CASE ~(t \in {"(", ")"} /\ lc # "q") /\ ~(t = ">" /\ br = 0 /\ lc # "q") /\ t # "q"
    <3>1. Scan(s, t) = s
      BY <1>7, <2>4, SMT DEF Scan
    <3>2. QED
      BY <3>1
  <2>5. QED
    BY <2>1, <2>2, <2>3, <2>4
<1>8. QED
  BY <1>1, <1>5, <1>6, <1>7

ScanOp        == [x \in Scans \X Tokens |-> Scan(x[1], x[2])]
ScanStart(st) == [st |-> st, br |-> 0, lc |-> "none", out |-> <<>>]

LEMMA ScanOps ==
  ASSUME NEW st \in 0..2
  PROVE  /\ ScanOp \in [Scans \X Tokens -> Scans] /\ \A x \in Scans, t \in Tokens : ScanOp[<<x, t>>] = Scan(x, t)
         /\ ScanStart(st) \in Scans
<1>1. ScanOp \in [Scans \X Tokens -> Scans] /\ \A x \in Scans, t \in Tokens : ScanOp[<<x, t>>] = Scan(x, t)
  BY ScanTyped DEF ScanOp
<1>2. ScanStart(st) \in Scans
  BY DEF ScanStart, Scans, Kept
<1>3. QED
  BY <1>1, <1>2

LEMMA StripRuns ==
  ASSUME NEW st \in 0..2, NEW line \in Seq(Tokens)
  PROVE  HasRun(Scans, ScanOp, ScanStart(st), line, Len(line), Strip(st, line))
<1> DEFINE n == Len(line)
           op == ScanOp
           b == ScanStart(st)
           it == CHOOSE i : i = [u \in SUBSET DOMAIN line |->
                                   IF u = {} THEN b ELSE Scan(i[u \ {Max(u)}], line[Max(u)])]
<1>1. n \in Nat /\ line \in [1..n -> Tokens] /\ DOMAIN line = 1..n
  BY LenProperties
<1>2. b \in Scans
  BY ScanOps
<1>3. op \in [Scans \X Tokens -> Scans] /\ \A x \in Scans, t \in Tokens : op[<<x, t>>] = Scan(x, t)
  BY ScanOps
<1>4. Strip(st, line) = it[DOMAIN line]
  BY Zenon DEF Strip, ScanStart, FoldLeft, MapThenFoldSet
<1>6. PICK j \in [SUBSET (1..n) -> Scans] : Iterates(j, op, b, line, n)
  <2> HIDE DEF op, b, it
  <2>1. QED
    BY <1>1, <1>2, <1>3, IteratesExist DEF HasIterates
<1>7. ASSUME NEW u \in SUBSET (1..n), u # {}
      PROVE  Max(u) \in 1..n /\ line[Max(u)] \in Tokens /\ u \ {Max(u)} \in SUBSET (1..n)
  <2>1. Max(u) \in u
    BY <1>1, <1>7, MaxIn
  <2>2. QED
    BY <1>1, <2>1
<1>8. \A u \in SUBSET (1..n) : j[u] = IF u = {} THEN b ELSE Scan(j[u \ {Max(u)}], line[Max(u)])
  <2> HIDE DEF op, b, it
  <2>1. ASSUME NEW u \in SUBSET (1..n), u # {}
        PROVE  op[<<j[u \ {Max(u)}], line[Max(u)]>>] = Scan(j[u \ {Max(u)}], line[Max(u)])
    BY <1>3, <1>6, <1>7, <2>1
  <2>2. QED
    BY <1>6, <2>1 DEF Iterates
<1>9. it = [u \in SUBSET DOMAIN line |-> IF u = {} THEN b ELSE Scan(it[u \ {Max(u)}], line[Max(u)])]
  <2>1. j = [u \in SUBSET DOMAIN line |-> IF u = {} THEN b ELSE Scan(j[u \ {Max(u)}], line[Max(u)])]
    <3> HIDE DEF op, b, it
    <3>1. QED
      BY <1>1, <1>6, <1>8
  <2> HIDE DEF b
  <2>2. QED
    BY <2>1, Zenon
<1> HIDE DEF op, b, it
<1>10. it[{}] = b /\ \A u \in SUBSET (1..n) : u # {} => it[u] = Scan(it[u \ {Max(u)}], line[Max(u)])
  BY <1>1, <1>9
<1>11. Follows(it, Scans, op, b, line, n)
  BY <1>3, <1>7, <1>10 DEF Follows
<1>12. HasRun(Scans, op, b, line, n, it[1..n])
  BY <1>1, <1>2, <1>3, <1>11, RunOfIterates, Zenon
<1>13. QED
  BY <1>1, <1>4, <1>12, Zenon DEF op, b

(* Where a line leaves the state of fgetss().                              *)
LEMMA StripTyped ==
  ASSUME NEW st \in 0..2, NEW line \in Seq(Tokens)
  PROVE  Strip(st, line) \in Scans /\ Strip(st, line).st \in 0..2
<1>1. HasRun(Scans, ScanOp, ScanStart(st), line, Len(line), Strip(st, line)) /\ Len(line) \in Nat
  BY StripRuns, LenProperties
<1>2. Strip(st, line) \in Scans
  BY <1>1 DEF HasRun
<1>3. QED
  BY <1>2 DEF Scans

-----------------------------------------------------------------------------
(* What the helpers keep. *)

(* The list, the descriptors and what the page holds are of their types.   *)
ListTypes == /\ fps \in Seq(Entries) /\ fds \in [Fds -> Kinds \union {Free}]
             /\ held \subseteq [id : Fds, gen : Gens]

LEMMA PushKeeps ==
  ASSUME TypeOK, ListInv, habits' = habits,
         NEW name \in Names, NEW kind \in Kinds, FpPush(name, kind)
  PROVE  ListTypes' /\ ListInv' /\ (Listed => Listed')
<1> DEFINE id == Lowest
           g == NewGen
           e == [id |-> id, name |-> name, kind |-> kind, line |-> 0, dirty |-> FALSE, gen |-> g]
<1>1. MaxFd \in Nat \ {0} /\ Free \notin Kinds
  BY FilesAssumption
<1>2. CanOpen
  BY DEF FpPush
<1>3. id \in Fds /\ fds[id] = Free
  BY <1>1, <1>2, LowestIs
<1>4. g \in Gens /\ (\A i \in DOMAIN fps : fps[i].gen # g) /\ (\A h \in held : h.gen # g)
  BY <1>1, <1>2, NewGenIs
<1>5. fds' = [fds EXCEPT ![id] = kind] /\ fps' = <<e>> \o fps /\ held' = held \union {[id |-> id, gen |-> g]}
  BY DEF FpPush
<1> HIDE DEF id, g
<1>6. e \in Entries /\ e.id = id /\ e.gen = g /\ e.dirty = FALSE
  BY <1>3, <1>4 DEF Entries
<1>7. /\ fps \in Seq(Entries) /\ DOMAIN fps = 1..Len(fps) /\ Len(fps) \in Nat
  BY ListTyped
<1>8. fds \in [Fds -> Kinds \union {Free}] /\ held \subseteq [id : Fds, gen : Gens]
  BY DEF TypeOK
<1> HIDE DEF e
<1>9. /\ fps' \in Seq(Entries) /\ DOMAIN fps' = 1 .. Len(fps) + 1 /\ fps'[1] = e
      /\ \A i \in 1..Len(fps) : fps'[i + 1] = fps[i]
  <2>1. ASSUME NEW s \in Seq(Entries), NEW q, q = <<e>> \o s
        PROVE  /\ q \in Seq(Entries) /\ DOMAIN q = 1 .. Len(s) + 1
               /\ q[1] = e /\ \A i \in 1 .. Len(s) : q[i + 1] = s[i]
    <3>1. e \in Entries
      BY <1>6
    <3>2. QED
      BY <2>1, <3>1, Pushed
  <2>2. fps \in Seq(Entries) /\ fps' = <<e>> \o fps
    BY <1>5, <1>7
  <2>3. QED
    BY <2>1, <2>2, Zenon
<1>10. ListInv'
  <2>1. kind # Free
    BY <1>1
  <2>2. fps'[1].id = id /\ fps'[1].gen = g /\ fps'[1].dirty = FALSE
    BY <1>6, <1>9
  <2>3. \A i \in DOMAIN fps : fps'[i + 1] = fps[i]
    BY <1>7, <1>9
  <2>4. DOMAIN fps' = 1 .. Len(fps) + 1
    BY <1>9
  <2>5. QED
    BY <1>3, <1>4, <1>5, <2>1, <2>2, <2>3, <2>4, ListPushed, Zenon
<1>11. ListTypes'
  <2>1. fds' \in [Fds -> Kinds \union {Free}]
    BY <1>5, <1>8
  <2>2. [id |-> id, gen |-> g] \in [id : Fds, gen : Gens]
    BY <1>3, <1>4
  <2>3. held' \subseteq [id : Fds, gen : Gens]
    BY <1>5, <1>8, <2>2
  <2>4. QED
    BY <1>9, <2>1, <2>3 DEF ListTypes, Entries, Fds, Gens, Kinds
<1>12. ASSUME Listed PROVE Listed'
  <2>1. ASSUME NEW fd \in Fds, fds'[fd] # Free PROVE \E i \in DOMAIN fps' : fps'[i].id = fd
    <3>1. CASE fd = id
      <4>1. 1 \in DOMAIN fps' /\ fps'[1].id = fd
        BY <1>6, <1>7, <1>9, <3>1
      <4>2. QED
        BY <4>1
    <3>2. CASE fd # id
      <4>1. fds[fd] # Free
        BY <1>5, <1>8, <2>1, <3>2
      <4>2. PICK i \in 1..Len(fps) : fps[i].id = fd
        BY <1>7, <1>12, <4>1 DEF Listed
      <4>3. i + 1 \in 1 .. Len(fps) + 1
        BY <1>7
      <4>4. i + 1 \in DOMAIN fps' /\ fps'[i + 1].id = fd
        BY <1>9, <4>2, <4>3
      <4>5. QED
        BY <4>4
    <3>3. QED
      BY <3>1, <3>2
  <2>2. QED
    BY <2>1 DEF Listed, Fds
<1>13. QED
  BY <1>10, <1>11, <1>12

(* An entry changes in what it has read or written.                        *)
LEMMA SetKeeps ==
  ASSUME TypeOK, ListInv, habits' = habits, fds' = fds, held' = held,
         NEW id, Uses(id), NEW e \in Entries, e.id = id, e.gen = FpFind(id).gen,
         Avoids({"changes"}) => e.dirty = FpFind(id).dirty, fps' = FpSet(id, e)
  PROVE  ListTypes' /\ ListInv' /\ (Listed => Listed')
<1> DEFINE k == FpAt(id)
<1>1. k \in DOMAIN fps /\ fps[k].id = id
  BY FpAtIs
<1>2. fps' = [fps EXCEPT ![k] = e] /\ FpFind(id) = fps[k]
  BY DEF FpSet, FpFind
<1> HIDE DEF k
<1>3. fps \in Seq(Entries) /\ DOMAIN fps = 1..Len(fps) /\ Len(fps) \in Nat
  BY ListTyped
<1>4. fps' \in Seq(Entries) /\ DOMAIN fps' = DOMAIN fps
  BY <1>1, <1>2, <1>3, ExceptSeq
<1>5. \A i \in DOMAIN fps : /\ fps'[i].id = fps[i].id /\ fps'[i].gen = fps[i].gen
                            /\ Avoids({"changes"}) => fps'[i].dirty = fps[i].dirty
  BY <1>1, <1>2
<1>6. ListInv'
  BY <1>4, <1>5, ListKept, Zenon
<1>7. ListTypes'
  BY <1>4 DEF ListTypes, TypeOK, Entries, Fds, Gens, Kinds
<1>8. Listed => Listed'
  BY <1>4, <1>5 DEF Listed, Fds
<1>9. QED
  BY <1>6, <1>7, <1>8

(* An entry goes; its number may stay open.                                *)
LEMMA DelKeeps ==
  ASSUME TypeOK, ListInv, habits' = habits, NEW id, Uses(id),
         fds' = fds \/ fds' = [fds EXCEPT ![id] = Free], fps' = FpDel(id), Releases(id)
  PROVE  ListTypes' /\ ListInv' /\ (fds' = [fds EXCEPT ![id] = Free] /\ Listed => Listed')
<1> DEFINE k == FpAt(id)
<1>1. k \in DOMAIN fps /\ fps[k].id = id
  BY FpAtIs
<1>2. fps' = RemoveAt(fps, k)
  BY DEF FpDel
<1> HIDE DEF k
<1>3. fps \in Seq(Entries) /\ DOMAIN fps = 1..Len(fps) /\ Len(fps) \in Nat /\ id \in Fds
  BY <1>1, ListTyped
<1>4. /\ fps' \in Seq(Entries)
      /\ \A i \in 1 .. k - 1 : fps'[i] = fps[i] /\ i \in DOMAIN fps'
      /\ \A i \in k + 1 .. Len(fps) : fps'[i - 1] = fps[i] /\ i - 1 \in DOMAIN fps'
  <2> DEFINE r == RemoveAt(fps, k)
  <2>1. /\ r \in Seq(Entries) /\ DOMAIN r = 1 .. Len(fps) - 1 /\ Len(fps) \in Nat
        /\ \A i \in 1 .. k - 1 : r[i] = fps[i] /\ i \in DOMAIN r
        /\ \A i \in k + 1 .. Len(fps) : r[i - 1] = fps[i] /\ i - 1 \in DOMAIN r
    BY <1>1, <1>3, TakenOut, Zenon
  <2> HIDE DEF r
  <2>2. fps' = r
    BY <1>2 DEF r
  <2>3. QED
    BY <2>1, <2>2
<1>5. ListInv'
  <2>1. (fds' = fds \/ fds' = [fds EXCEPT ![fps[k].id] = Free]) /\ Releases(fps[k].id)
    BY <1>1
  <2>2. QED
    BY <1>1, <1>2, <2>1, ListRemoved, Zenon
<1>6. fds \in [Fds -> Kinds \union {Free}] /\ held \subseteq [id : Fds, gen : Gens]
  BY DEF TypeOK
<1>7. ListTypes'
  <2>1. fds' \in [Fds -> Kinds \union {Free}]
    BY <1>6
  <2>2. held' \subseteq [id : Fds, gen : Gens]
    BY <1>6 DEF Releases
  <2>3. QED
    BY <1>4, <2>1, <2>2 DEF ListTypes, Entries, Fds, Gens, Kinds
<1>8. ASSUME fds' = [fds EXCEPT ![id] = Free], Listed PROVE Listed'
  <2>1. ASSUME NEW fd \in Fds, fds'[fd] # Free PROVE \E i \in DOMAIN fps' : fps'[i].id = fd
    <3>1. fd # id /\ fds[fd] # Free
      BY <1>3, <1>6, <1>8, <2>1
    <3>2. PICK i \in 1..Len(fps) : fps[i].id = fd
      BY <1>3, <1>8, <3>1 DEF Listed
    <3>3. i # k /\ k \in 1..Len(fps)
      BY <1>1, <1>3, <3>1, <3>2
    <3>4. i \in 1 .. k - 1 \/ i \in k + 1 .. Len(fps)
      BY <1>3, <3>3
    <3>5. QED
      BY <1>4, <3>2, <3>4
  <2>2. QED
    BY <2>1 DEF Listed, Fds
<1>9. QED
  BY <1>5, <1>7, <1>8

(* The stat records of files.                                              *)
LEMMA TouchedTyped ==
  ASSUME TypeOK, NEW n \in Names
  PROVE  Touched(n) \in [Names -> Stats]
<1>1. disk \in [Names -> Stats]
  BY DEF TypeOK
<1>2. 1 \in Stats /\ 2 \in Stats
  BY DEF Stats
<1>3. QED
  BY <1>1, <1>2 DEF Touched

-----------------------------------------------------------------------------
(* What each step keeps, part by part. *)

ListsKept == ListTypes' /\ ListInv' /\ lost' \in BOOLEAN /\ (Tidy => Listed' /\ lost' = FALSE)
DiskKept  == disk' \in [Names -> Stats] /\ (Avoids({"changes"}) => disk' = disk)
StatsKept == /\ statName' \in Names \union {NoName}
             /\ sb' \in [name : Names \union {NoName}, rec : Stats]
             /\ Settled /\ statName' # NoName => sb' = [name |-> statName', rec |-> 1]
TagsKept  == tag' \in 0..2 /\ inTag' \in Gens \union {0}
PageKept  == build' = build /\ habits' = habits

LEMMA PartsKept ==
  ASSUME FileInv, PageKept, ListsKept, DiskKept, StatsKept, TagsKept
  PROVE  FileInv'
<1>1. \A H : Avoids(H)' <=> Avoids(H)
  BY DEF Avoids, PageKept
<1>2. (Tidy' <=> Tidy) /\ (Settled' <=> Settled)
  BY DEF Tidy, Settled, Avoids, PageKept
<1>3. TypeOK'
  <2>1. build' \in Builds /\ habits' \in Pages
    BY DEF FileInv, TypeOK, PageKept
  <2>2. ListTypes' /\ lost' \in BOOLEAN
    BY DEF ListsKept
  <2>3. /\ disk' \in [Names -> Stats] /\ tag' \in 0..2 /\ inTag' \in Gens \union {0}
        /\ statName' \in Names \union {NoName} /\ sb' \in [name : Names \union {NoName}, rec : Stats]
    BY DEF DiskKept, TagsKept, StatsKept
  <2>4. QED
    BY <2>1, <2>2, <2>3 DEF TypeOK, ListTypes, Gens, Stats
<1>4. LeftInv'
  BY <1>2 DEF LeftInv, ListsKept
<1>5. StatInv'
  <2>1. ASSUME Avoids({"missing", "changes"})' PROVE \A n \in Names : disk'[n] = 1
    <3>1. Avoids({"missing", "changes"}) /\ Avoids({"changes"})
      BY <2>1 DEF Avoids, PageKept
    <3>2. QED
      BY <3>1 DEF FileInv, StatInv, DiskKept
  <2>2. Settled' /\ statName' # NoName => sb' = [name |-> statName', rec |-> 1]
    BY <1>2 DEF StatsKept
  <2>3. QED
    BY <2>1, <2>2 DEF StatInv
<1>6. ListInv'
  BY DEF ListsKept
<1>7. QED
  BY <1>3, <1>4, <1>5, <1>6 DEF FileInv

LEMMA ListsSame ==
  ASSUME FileInv, PageKept, fps' = fps, fds' = fds, held' = held, lost' = lost
  PROVE  ListsKept
<1>1. TypeOK /\ ListInv /\ LeftInv
  BY DEF FileInv
<1>2. ListTypes'
  BY <1>1 DEF TypeOK, ListTypes, Entries, Fds, Gens, Kinds
<1>3. ListInv'
  <2>1. \A i \in DOMAIN fps : /\ fps'[i].id = fps[i].id /\ fps'[i].gen = fps[i].gen
                              /\ Avoids({"changes"}) => fps'[i].dirty = fps[i].dirty
    OBVIOUS
  <2>2. habits' = habits /\ DOMAIN fps' = DOMAIN fps
    BY DEF PageKept
  <2>3. QED
    BY <1>1, <2>1, <2>2, ListKept
<1>4. Listed => Listed'
  BY DEF Listed, Fds
<1>5. lost' \in BOOLEAN
  BY <1>1 DEF TypeOK
<1>6. QED
  BY <1>1, <1>2, <1>3, <1>4, <1>5 DEF ListsKept, LeftInv

(* Lists that change while nothing is lost.                                *)
LEMMA ListsMoved ==
  ASSUME FileInv, lost' = lost, ListTypes', ListInv', Listed => Listed'
  PROVE  ListsKept
<1>1. lost \in BOOLEAN /\ LeftInv
  BY DEF FileInv, TypeOK
<1>2. QED
  BY <1>1 DEF ListsKept, LeftInv

LEMMA DiskSame ==
  ASSUME FileInv, disk' = disk
  PROVE  DiskKept
BY DEF FileInv, TypeOK, DiskKept

LEMMA DiskChanged ==
  ASSUME disk' \in [Names -> Stats], "changes" \in habits
  PROVE  DiskKept
BY DEF DiskKept, Avoids

LEMMA StatsSame ==
  ASSUME FileInv, statName' = statName, sb' = sb
  PROVE  StatsKept
BY DEF FileInv, TypeOK, StatInv, StatsKept

LEMMA TagsSame ==
  ASSUME FileInv, tag' = tag, inTag' = inTag
  PROVE  TagsKept
BY DEF FileInv, TypeOK, TagsKept

LEMMA TagsReset ==
  ASSUME tag' = 0, inTag' = 0
  PROVE  TagsKept
BY DEF TagsKept

(* What a file was closed with, or left with, is written.                  *)
LEMMA ClosedDisk ==
  ASSUME FileInv, NEW id, Uses(id),
         disk' = IF FpFind(id).dirty THEN Touched(FpFind(id).name) ELSE disk
  PROVE  DiskKept
<1> DEFINE k == FpAt(id)
<1>0. TypeOK /\ ListInv
  BY DEF FileInv
<1>1. k \in DOMAIN fps /\ FpFind(id) = fps[k]
  BY <1>0, FpAtIs DEF FpFind
<1> HIDE DEF k
<1>2. fps[k] \in Entries
  BY <1>0, <1>1, ListTyped
<1>3. fps[k].name \in Names /\ disk \in [Names -> Stats]
  BY <1>0, <1>2 DEF Entries, TypeOK
<1>4. Touched(fps[k].name) \in [Names -> Stats]
  BY <1>0, <1>3, TouchedTyped
<1>5. Avoids({"changes"}) => fps[k].dirty = FALSE
  BY <1>0, <1>1 DEF ListInv, Clean
<1>6. QED
  BY <1>1, <1>3, <1>4, <1>5 DEF DiskKept

-----------------------------------------------------------------------------
(* The actions. *)

LEMMA PushStep ==
  ASSUME FileInv, NEW n \in Names, NEW kind \in Kinds, FpPush(n, kind),
         PageKept, lost' = lost, DiskKept, StatsKept, TagsKept
  PROVE  FileInv'
<1>1. TypeOK /\ ListInv
  BY DEF FileInv
<1>2. habits' = habits
  BY DEF PageKept
<1>3. ListTypes' /\ ListInv' /\ (Listed => Listed')
  BY <1>1, <1>2, PushKeeps
<1>4. ListsKept
  BY <1>3, ListsMoved
<1>5. QED
  BY <1>4, PartsKept

LEMMA OpenStep ==
  ASSUME FileInv, NEW n \in Names,
         Fopen(n) \/ FopenToWrite(n) \/ Popen(n) \/ FSockOpen(n)
  PROVE  FileInv'
<1>0. "file" \in Kinds /\ "pipe" \in Kinds /\ "socket" \in Kinds
  BY DEF Kinds
<1>1. CASE Fopen(n)
  <2>1. FpPush(n, "file") /\ disk' = disk /\ statName' = statName /\ sb' = sb /\ tag' = 0 /\ inTag' = 0
        /\ lost' = lost /\ PageKept
    BY <1>1 DEF Fopen, stats, fixed, PageKept
  <2>2. DiskKept /\ StatsKept /\ TagsKept
    BY <2>1, DiskSame, StatsSame, TagsReset
  <2>3. QED
    BY <1>0, <2>1, <2>2, PushStep
<1>2. CASE FopenToWrite(n)
  <2>1. FpPush(n, "file") /\ disk' = Touched(n) /\ statName' = statName /\ sb' = sb /\ tag' = 0 /\ inTag' = 0
        /\ lost' = lost /\ PageKept /\ "changes" \in habits
    BY <1>2 DEF FopenToWrite, stats, fixed, PageKept
  <2>2. disk' \in [Names -> Stats]
    BY <2>1, TouchedTyped DEF FileInv
  <2>3. DiskKept /\ StatsKept /\ TagsKept
    BY <2>1, <2>2, DiskChanged, StatsSame, TagsReset
  <2>4. QED
    BY <1>0, <2>1, <2>3, PushStep
<1>3. CASE Popen(n)
  <2>1. FpPush(n, "pipe") /\ disk' = disk /\ statName' = statName /\ sb' = sb /\ tag' = tag /\ inTag' = inTag
        /\ lost' = lost /\ PageKept
    BY <1>3 DEF Popen, stats, tags, fixed, PageKept
  <2>2. DiskKept /\ StatsKept /\ TagsKept
    BY <2>1, DiskSame, StatsSame, TagsSame
  <2>3. QED
    BY <1>0, <2>1, <2>2, PushStep
<1>4. CASE FSockOpen(n)
  <2>1. FpPush(n, "socket") /\ disk' = disk /\ statName' = statName /\ sb' = sb /\ tag' = tag /\ inTag' = inTag
        /\ lost' = lost /\ PageKept
    BY <1>4 DEF FSockOpen, stats, tags, fixed, PageKept
  <2>2. DiskKept /\ StatsKept /\ TagsKept
    BY <2>1, DiskSame, StatsSame, TagsSame
  <2>3. QED
    BY <1>0, <2>1, <2>2, PushStep
<1>5. QED
  BY <1>1, <1>2, <1>3, <1>4

LEMMA RefusedStep ==
  ASSUME FileInv, FSockRefused
  PROVE  FileInv'
<1>1. /\ "refused" \in habits /\ CanOpen /\ fds' = [fds EXCEPT ![Lowest] = "socket"]
      /\ fps' = fps /\ held' = held /\ disk' = disk /\ statName' = statName /\ sb' = sb
      /\ tag' = tag /\ inTag' = inTag /\ lost' = lost /\ PageKept
  BY DEF FSockRefused, stats, tags, fixed, PageKept
<1>2. TypeOK /\ ListInv
  BY DEF FileInv
<1>3. "socket" \in Kinds /\ "socket" # Free
  BY FilesAssumption DEF Kinds
<1>4. fds \in [Fds -> Kinds \union {Free}]
  BY <1>2 DEF TypeOK
<1>5. fds' \in [Fds -> Kinds \union {Free}] /\ \A fd \in Fds : fds[fd] # Free => fds'[fd] # Free
  BY <1>1, <1>3, <1>4
<1>6. ListTypes'
  BY <1>1, <1>2, <1>5 DEF TypeOK, ListTypes, Entries, Fds, Gens, Kinds
<1>7. AreOpen'
  <2>1. \A i \in DOMAIN fps : fps[i].id \in Fds /\ fds[fps[i].id] # Free
    BY <1>2, ListTyped DEF ListInv, AreOpen
  <2>2. QED
    BY <1>1, <1>5, <2>1 DEF AreOpen
<1>8. Distinct' /\ Linked' /\ OneGone' /\ Reached' /\ Clean'
  BY <1>1, <1>2 DEF ListInv, Distinct, Linked, OneGone, Reached, Clean, Gens, Avoids, PageKept
<1>9. ListInv'
  BY <1>7, <1>8 DEF ListInv
<1>10. lost' \in BOOLEAN
  BY <1>1, <1>2 DEF TypeOK
<1>11. ~Tidy
  BY <1>1 DEF Tidy, Avoids
<1>12. ListsKept
  BY <1>6, <1>9, <1>10, <1>11 DEF ListsKept
<1>13. DiskKept /\ StatsKept /\ TagsKept
  BY <1>1, DiskSame, StatsSame, TagsSame
<1>14. QED
  BY <1>1, <1>12, <1>13, PartsKept

LEMMA CloseStep ==
  ASSUME FileInv, NEW id, Uses(id), CloseEntry(id), PageKept, StatsKept, TagsKept
  PROVE  FileInv'
<1>1. /\ fds' = [fds EXCEPT ![id] = Free] /\ fps' = FpDel(id) /\ Releases(id) /\ lost' = lost
      /\ disk' = IF FpFind(id).dirty THEN Touched(FpFind(id).name) ELSE disk
  BY DEF CloseEntry
<1>2. TypeOK /\ ListInv /\ habits' = habits
  BY DEF FileInv, PageKept
<1>3. ListTypes' /\ ListInv' /\ (Listed => Listed')
  BY <1>1, <1>2, DelKeeps
<1>4. ListsKept
  BY <1>1, <1>3, ListsMoved
<1>5. DiskKept
  BY <1>1, ClosedDisk
<1>6. QED
  BY <1>4, <1>5, PartsKept

LEMMA ClosingStep ==
  ASSUME FileInv, NEW id \in Fds, Fclose(id) \/ Pclose(id)
  PROVE  FileInv'
<1>1. /\ Uses(id) /\ statName' = statName /\ sb' = sb /\ tag' = tag /\ inTag' = inTag /\ PageKept
  BY DEF Fclose, Pclose, stats, tags, fixed, PageKept
<1>2. StatsKept /\ TagsKept
  BY <1>1, StatsSame, TagsSame
<1>3. CASE CloseEntry(id)
  BY <1>1, <1>2, <1>3, CloseStep
<1>4. CASE /\ "swap" \in habits /\ fps' = FpDel(id) /\ Releases(id)
           /\ lost' = (lost \/ FpFind(id).dirty) /\ fds' = fds /\ disk' = disk
  <2>1. TypeOK /\ ListInv /\ habits' = habits
    BY <1>1 DEF FileInv, PageKept
  <2>2. ListTypes' /\ ListInv'
    BY <1>1, <1>4, <2>1, DelKeeps
  <2>3. ~Tidy
    BY <1>4 DEF Tidy, Avoids
  <2>4. lost' \in BOOLEAN
    BY <1>4
  <2>5. ListsKept
    BY <2>2, <2>3, <2>4 DEF ListsKept
  <2>6. DiskKept
    BY <1>4, DiskSame
  <2>7. QED
    BY <1>1, <1>2, <2>5, <2>6, PartsKept
<1>5. QED
  BY <1>3, <1>4 DEF Fclose, Pclose

(* A step that only changes an entry.                                      *)
LEMMA SetStep ==
  ASSUME FileInv, NEW id, Uses(id), NEW e \in Entries, e.id = id, e.gen = FpFind(id).gen,
         Avoids({"changes"}) => e.dirty = FpFind(id).dirty, fps' = FpSet(id, e),
         fds' = fds, held' = held, lost' = lost, disk' = disk, statName' = statName, sb' = sb, PageKept, TagsKept
  PROVE  FileInv'
<1>1. TypeOK /\ ListInv /\ habits' = habits
  BY DEF FileInv, PageKept
<1>2. ListTypes' /\ ListInv' /\ (Listed => Listed')
  BY <1>1, SetKeeps
<1>3. ListsKept
  BY <1>2, ListsMoved
<1>4. DiskKept /\ StatsKept
  BY DiskSame, StatsSame
<1>5. QED
  BY <1>3, <1>4, PartsKept

LEMMA FoundTyped ==
  ASSUME FileInv, NEW id, Uses(id)
  PROVE  FpFind(id) \in Entries /\ FpFind(id).id = id
<1>1. TypeOK
  BY DEF FileInv
<1>2. FpAt(id) \in DOMAIN fps /\ fps[FpAt(id)].id = id
  BY <1>1, FpAtIs
<1>3. QED
  BY <1>1, <1>2, ListTyped DEF FpFind

LEMMA EntryChanged ==
  ASSUME NEW e \in Entries, NEW k \in Nat
  PROVE  /\ [e EXCEPT !.line = k] \in Entries /\ [e EXCEPT !.line = k].id = e.id
         /\ [e EXCEPT !.line = k].gen = e.gen /\ [e EXCEPT !.line = k].dirty = e.dirty
         /\ [e EXCEPT !.line = k].name = e.name
         /\ [e EXCEPT !.dirty = TRUE] \in Entries /\ [e EXCEPT !.dirty = TRUE].id = e.id
         /\ [e EXCEPT !.dirty = TRUE].gen = e.gen
BY DEF Entries

LEMMA ReadStep ==
  ASSUME FileInv, NEW id \in Fds,
         Fgets(id) \/ Fgetss(id) \/ Fputs(id) \/ \E k \in 0..2 : Fseek(id, k)
  PROVE  FileInv'
<1> DEFINE e == FpFind(id)
<1>1. Uses(id) /\ fds' = fds /\ held' = held /\ lost' = lost /\ disk' = disk /\ statName' = statName /\ sb' = sb
      /\ PageKept
  BY DEF Fgets, Fgetss, Fputs, Fseek, stats, fixed, PageKept
<1>2. e \in Entries /\ e.id = id
  BY <1>1, FoundTyped
<1>3. e.line \in Nat /\ e.name \in Names /\ e.gen \in Gens
  BY <1>2 DEF Entries
<1>4. Lines(e.name) \in Seq(Seq(Tokens))
  BY <1>3, FilesAssumption
<1>5. \A k \in Nat : LET c == [e EXCEPT !.line = k] IN
        c \in Entries /\ c.id = id /\ c.gen = e.gen /\ c.dirty = e.dirty
  BY <1>2, EntryChanged
<1>6. ASSUME NEW k \in Nat, FpSet(id, [e EXCEPT !.line = k]) = fps', TagsKept
      PROVE  FileInv'
  <2> DEFINE c == [e EXCEPT !.line = k]
  <2>1. c \in Entries /\ c.id = id /\ c.gen = FpFind(id).gen /\ c.dirty = FpFind(id).dirty /\ fps' = FpSet(id, c)
    BY <1>5, <1>6 DEF e
  <2> HIDE DEF c
  <2>2. QED
    BY <1>1, <1>6, <2>1, SetStep
<1>7. e.line + 1 \in Nat
  BY <1>3
<1>8. CASE Fgets(id)
  <2>1. fps' = FpSet(id, [e EXCEPT !.line = e.line + 1]) /\ tag' = tag /\ inTag' = inTag
    BY <1>8 DEF Fgets, tags, e
  <2>2. TagsKept
    BY <2>1, TagsSame
  <2>3. QED
    BY <1>6, <1>7, <2>1, <2>2
<1>9. CASE \E k \in 0..2 : Fseek(id, k)
  <2>1. PICK k \in 0..2 : Fseek(id, k)
    BY <1>9
  <2>2. fps' = FpSet(id, [e EXCEPT !.line = k]) /\ tag' = tag /\ inTag' = inTag
    BY <2>1 DEF Fseek, tags, e
  <2>3. TagsKept /\ k \in Nat
    BY <2>2, TagsSame
  <2>4. QED
    BY <1>6, <2>2, <2>3
<1>10. CASE Fgetss(id)
  <2> DEFINE line == Lines(e.name)[e.line + 1]
  <2>1. /\ fps' = FpSet(id, [e EXCEPT !.line = e.line + 1]) /\ e.line < Len(Lines(e.name))
        /\ tag' = Strip(tag, line).st /\ inTag' \in {0, e.gen}
    BY <1>10 DEF Fgetss, e
  <2>2. tag \in 0..2
    BY DEF FileInv, TypeOK
  <2>3. line \in Seq(Tokens)
    <3>1. e.line + 1 \in 1..Len(Lines(e.name))
      BY <1>3, <1>4, <2>1, LenProperties
    <3>2. QED
      BY <1>4, <3>1, ElementOfSeq
  <2> HIDE DEF line
  <2>4. tag' \in 0..2
    BY <2>1, <2>2, <2>3, StripTyped
  <2>5. TagsKept
    BY <1>3, <2>1, <2>4 DEF TagsKept
  <2>6. QED
    BY <1>6, <1>7, <2>1, <2>5
<1>11. CASE Fputs(id)
  <2> DEFINE c == [e EXCEPT !.dirty = TRUE]
  <2>1. fps' = FpSet(id, c) /\ tag' = tag /\ inTag' = inTag /\ "changes" \in habits
    BY <1>11 DEF Fputs, tags, e
  <2>2. c \in Entries /\ c.id = id /\ c.gen = e.gen
    BY <1>2, EntryChanged
  <2>3. TagsKept
    BY <2>1, TagsSame
  <2>4. ~Avoids({"changes"})
    BY <2>1 DEF Avoids
  <2>5. e.gen = FpFind(id).gen
    BY DEF e
  <2> HIDE DEF c
  <2>6. QED
    BY <1>1, <2>1, <2>2, <2>3, <2>4, <2>5, SetStep
<1>12. QED
  BY <1>8, <1>9, <1>10, <1>11

LEMMA NameStep ==
  ASSUME FileInv, NEW n \in Names,
         ChMod(n) \/ Unlink(n) \/ \E m \in Names : Rename(m, n)
  PROVE  FileInv'
<1>1. /\ "changes" \in habits /\ fps' = fps /\ fds' = fds /\ held' = held /\ lost' = lost
      /\ statName' = statName /\ sb' = sb /\ tag' = tag /\ inTag' = inTag /\ PageKept
  BY DEF ChMod, Unlink, Rename, stats, tags, fixed, PageKept
<1>2. Touched(n) \in [Names -> Stats] /\ disk \in [Names -> Stats] /\ 0 \in Stats
  BY TouchedTyped DEF FileInv, TypeOK, Stats
<1>3. disk' \in [Names -> Stats]
  BY <1>2 DEF ChMod, Unlink, Rename
<1>4. ListsKept /\ DiskKept /\ StatsKept /\ TagsKept
  BY <1>1, <1>3, ListsSame, DiskChanged, StatsSame, TagsSame
<1>5. QED
  BY <1>1, <1>4, PartsKept

LEMMA FuncStep ==
  ASSUME FileInv, NEW n \in Names, FileFunc(n)
  PROVE  FileInv'
<1>1. /\ fps' = fps /\ fds' = fds /\ held' = held /\ lost' = lost /\ disk' = disk
      /\ tag' = tag /\ inTag' = inTag /\ PageKept
      /\ statName = NoName /\ n = ThisPage => "self" \in habits
      /\ statName' = IF n # Remembered THEN n ELSE Remembered
      /\ sb' = IF n # Remembered /\ disk[n] # 0 THEN Answer(n) ELSE sb
  BY DEF FileFunc, tags, fixed, PageKept
<1>2. ThisPage \in Names /\ NoName \notin Names
  BY FilesAssumption
<1>3. /\ statName \in Names \union {NoName} /\ sb \in [name : Names \union {NoName}, rec : Stats]
      /\ disk[n] \in Stats
  BY DEF FileInv, TypeOK
<1>4. Remembered = IF statName = NoName /\ build = "apache" THEN ThisPage ELSE statName
  BY DEF Remembered
<1>5. statName' = n
  BY <1>1
<1>6. n # Remembered => Answer(n) = [name |-> n, rec |-> disk[n]]
  BY DEF Answer
<1>7. sb' \in [name : Names \union {NoName}, rec : Stats]
  BY <1>1, <1>3, <1>6
<1>8. ASSUME Settled PROVE sb' = [name |-> n, rec |-> 1]
  <2>1. disk[n] = 1
    BY <1>8 DEF Settled, FileInv, StatInv
  <2>2. CASE n # Remembered
    BY <1>1, <1>6, <2>1, <2>2
  <2>3. CASE n = Remembered
    <3>1. statName # NoName
      BY <1>1, <1>2, <1>4, <1>8, <2>3 DEF Settled, Avoids
    <3>2. statName = n
      BY <1>4, <2>3, <3>1
    <3>3. sb' = sb
      BY <1>1, <2>3
    <3>4. QED
      BY <1>8, <3>1, <3>2, <3>3 DEF FileInv, StatInv
  <2>4. QED
    BY <2>2, <2>3
<1>9. StatsKept
  BY <1>5, <1>7, <1>8 DEF StatsKept
<1>10. ListsKept /\ DiskKept /\ TagsKept
  BY <1>1, ListsSame, DiskSame, TagsSame
<1>11. QED
  BY <1>1, <1>9, <1>10, PartsKept

(* The end of a request.                                                   *)
LEMMA ForgetKeeps ==
  ASSUME FileInv, Forget, fds' \in [Fds -> Kinds \union {Free}],
         lost' \in BOOLEAN, Tidy => Listed' /\ lost' = FALSE, DiskKept,
         sb' \in [name : Names \union {NoName}, rec : Stats]
  PROVE  FileInv'
<1>1. fps' = <<>> /\ held' = {} /\ statName' = NoName /\ tag' = 0 /\ inTag' = 0 /\ PageKept
  BY DEF Forget, fixed, PageKept
<1>2. fps' \in Seq(Entries) /\ DOMAIN fps' = {}
  BY <1>1
<1>3. ListTypes'
  BY <1>1, <1>2 DEF ListTypes, Entries, Fds, Gens, Kinds
<1>4. ListInv'
  <2>1. 1 \in Gens
    BY FilesAssumption DEF Gens
  <2>2. Distinct' /\ AreOpen' /\ Linked' /\ Reached' /\ Clean'
    BY <1>1, <1>2 DEF Distinct, AreOpen, Linked, Reached, Clean
  <2>3. OneGone'
    BY <1>1, <2>1 DEF OneGone, Gens
  <2>4. QED
    BY <2>2, <2>3 DEF ListInv
<1>5. ListsKept
  BY <1>3, <1>4 DEF ListsKept
<1>6. StatsKept /\ TagsKept
  BY <1>1, TagsReset DEF StatsKept
<1>7. QED
  BY <1>1, <1>5, <1>6, PartsKept

LEMMA EndStep ==
  ASSUME FileInv, EndOfProcess \/ EndOfRequest
  PROVE  FileInv'
<1>0. TypeOK /\ ListInv
  BY DEF FileInv
<1>1. disk \in [Names -> Stats] /\ fds \in [Fds -> Kinds \union {Free}]
      /\ sb \in [name : Names \union {NoName}, rec : Stats]
  BY <1>0 DEF TypeOK
<1>2. Forget
  BY DEF EndOfProcess, EndOfRequest
<1>3. fps' = <<>>
  BY <1>2 DEF Forget
<1>4. CASE EndOfProcess
  <2>1. /\ fds' = [fd \in Fds |-> Free] /\ sb' = [name |-> NoName, rec |-> 0] /\ lost' = FALSE
        /\ disk' = [n \in Names |-> IF \E e \in Range0(fps) : e.name = n /\ e.dirty
                                          THEN Touched(n)[n] ELSE disk[n]]
    BY <1>4 DEF EndOfProcess
  <2>2. \A n \in Names : Touched(n)[n] \in Stats
    BY <1>0, TouchedTyped
  <2>3. disk' \in [Names -> Stats]
    BY <1>1, <2>1, <2>2
  <2>4. Avoids({"changes"}) => disk' = disk
    <3>1. ASSUME Avoids({"changes"}) PROVE disk' = disk
      <4>1. \A e \in Range0(fps) : ~e.dirty
        BY <1>0, <3>1 DEF ListInv, Clean, Range0
      <4>2. disk' = [n \in Names |-> disk[n]]
        BY <2>1, <4>1
      <4>3. QED
        BY <1>1, <4>2
    <3>2. QED
      BY <3>1
  <2>5. DiskKept
    BY <2>3, <2>4 DEF DiskKept
  <2>6. Listed' /\ fds' \in [Fds -> Kinds \union {Free}]
    BY <2>1 DEF Listed, Fds
  <2>7. sb' \in [name : Names \union {NoName}, rec : Stats]
    BY <2>1 DEF Stats
  <2>8. QED
    BY <1>2, <2>1, <2>5, <2>6, <2>7, ForgetKeeps
<1>5. CASE EndOfRequest
  <2>1. /\ build # "cgi" /\ (fps # <<>> => "leave" \in habits)
        /\ lost' = (lost \/ \E e \in Range0(fps) : e.dirty) /\ fds' = fds /\ disk' = disk /\ sb' = sb
    BY <1>5 DEF EndOfRequest, LeaveBehind
  <2>2. ASSUME Tidy PROVE Listed' /\ lost' = FALSE
    <3>1. fps = <<>>
      BY <2>1, <2>2 DEF Tidy, Avoids
    <3>2. DOMAIN fps = {}
      BY <3>1
    <3>3. Range0(fps) = {}
      BY <3>2 DEF Range0
    <3>4. lost = FALSE /\ Listed
      BY <2>2 DEF FileInv, LeftInv
    <3>5. Listed'
      BY <1>3, <2>1, <3>1, <3>4 DEF Listed, Fds
    <3>6. QED
      BY <2>1, <3>3, <3>4, <3>5
  <2>3. lost' \in BOOLEAN
    BY <2>1
  <2>4. DiskKept
    BY <2>1, DiskSame
  <2>5. fds' \in [Fds -> Kinds \union {Free}] /\ sb' \in [name : Names \union {NoName}, rec : Stats]
    BY <1>1, <2>1
  <2>6. QED
    BY <1>2, <2>2, <2>3, <2>4, <2>5, ForgetKeeps
<1>6. QED
  BY <1>4, <1>5

-----------------------------------------------------------------------------
(* The theorems. *)

LEMMA FileStart ==
  ASSUME FilesInit
  PROVE  FileInv
<1>1. /\ build \in Builds /\ habits \in Pages
      /\ fps = <<>> /\ fds = [fd \in Fds |-> Free] /\ held = {} /\ lost = FALSE
      /\ statName = NoName /\ sb = [name |-> NoName, rec |-> 0] /\ tag = 0 /\ inTag = 0
      /\ disk \in [Names -> {0, 1}]
      /\ Avoids({"missing", "changes"}) => disk \in [Names -> {1}]
  <2>1. disk \in [Names -> {1}] \/ disk \in [Names -> {0, 1}]
    BY DEF FilesInit
  <2>2. disk \in [Names -> {0, 1}]
    BY <2>1
  <2>3. Avoids({"missing", "changes"}) => disk \in [Names -> {1}]
    BY DEF FilesInit, Avoids
  <2>4. QED
    BY <2>2, <2>3 DEF FilesInit
<1>2. fps \in Seq(Entries) /\ DOMAIN fps = {}
  BY <1>1
<1>3. TypeOK
  <2>1. disk \in [Names -> Stats]
    BY <1>1 DEF Stats
  <2>2. sb \in [name : Names \union {NoName}, rec : Stats] /\ statName \in Names \union {NoName}
    BY <1>1 DEF Stats
  <2>3. fds \in [Fds -> Kinds \union {Free}] /\ held \subseteq [id : Fds, gen : Gens] /\ lost \in BOOLEAN
    BY <1>1
  <2>4. tag \in 0..2 /\ inTag \in Gens \union {0} /\ build \in Builds /\ habits \in Pages
    BY <1>1
  <2>5. QED
    BY <1>2, <2>1, <2>2, <2>3, <2>4 DEF TypeOK
<1>4. ListInv
  <2>1. 1 \in Gens
    BY FilesAssumption DEF Gens
  <2>2. QED
    BY <1>1, <1>2, <2>1 DEF ListInv, Distinct, AreOpen, Linked, OneGone, Reached, Clean
<1>5. LeftInv
  BY <1>1 DEF LeftInv, Listed
<1>6. StatInv
  BY <1>1 DEF StatInv, Settled
<1>7. QED
  BY <1>3, <1>4, <1>5, <1>6 DEF FileInv

LEMMA FileStep ==
  ASSUME FileInv, [FilesNext]_filesVars
  PROVE  FileInv'
<1>1. CASE UNCHANGED filesVars
  <2>1. /\ fps' = fps /\ fds' = fds /\ held' = held /\ lost' = lost /\ disk' = disk
        /\ statName' = statName /\ sb' = sb /\ tag' = tag /\ inTag' = inTag /\ PageKept
    BY <1>1 DEF filesVars, PageKept
  <2>2. ListsKept /\ DiskKept /\ StatsKept /\ TagsKept
    BY <2>1, ListsSame, DiskSame, StatsSame, TagsSame
  <2>3. QED
    BY <2>1, <2>2, PartsKept
<1>2. CASE FilesNext
  <2>1. ASSUME NEW n \in Names,
               \/ Fopen(n) \/ FopenToWrite(n) \/ Popen(n) \/ FSockOpen(n)
               \/ ChMod(n) \/ Unlink(n) \/ FileFunc(n)
               \/ \E m \in Names : Rename(m, n)
        PROVE  FileInv'
    BY <2>1, OpenStep, NameStep, FuncStep
  <2>2. ASSUME NEW id \in Fds,
               \/ Fclose(id) \/ Pclose(id)
               \/ Fgets(id) \/ Fgetss(id) \/ Fputs(id)
               \/ \E k \in 0 .. 2 : Fseek(id, k)
        PROVE  FileInv'
    BY <2>2, ClosingStep, ReadStep
  <2>3. QED
    BY <1>2, <2>1, <2>2, RefusedStep, EndStep DEF FilesNext
<1>3. QED
  BY <1>1, <1>2

LEMMA FileAlways == FilesSpec => []FileInv
<1>1. FilesInit => FileInv
  BY FileStart
<1>2. FileInv /\ [FilesNext]_filesVars => FileInv'
  BY FileStep
<1>3. QED
  BY <1>1, <1>2, PTL DEF FilesSpec

LEMMA HandlesFollow ==
  ASSUME FileInv
  PROVE  FilesInv
<1>1. TypeOK /\ ListInv
  BY DEF FileInv
<1>2. ASSUME Avoids({"stale"}), NEW h \in held
      PROVE  h.id \in Ids /\ FpFind(h.id).gen = h.gen
  <2>1. PICK i \in DOMAIN fps : fps[i].id = h.id /\ fps[i].gen = h.gen
    BY <1>1, <1>2 DEF ListInv, Reached
  <2>2. h.id \in Ids
    BY <2>1 DEF Ids, Range0
  <2>3. FpAt(h.id) \in DOMAIN fps /\ fps[FpAt(h.id)].id = h.id
    BY <1>1, <2>2, FpAtIs DEF Uses
  <2>4. FpAt(h.id) = i
    BY <1>1, <2>1, <2>3 DEF ListInv, Distinct
  <2>5. QED
    BY <2>1, <2>2, <2>4 DEF FpFind
<1>3. QED
  BY <1>1, <1>2 DEF FilesInv, HandlesFaithful

(* The list has as many entries as numbers.                                *)
LEMMA AsManyIds ==
  ASSUME FileInv
  PROVE  Cardinality(Ids) = Len(fps)
<1> DEFINE n == Len(fps)
           f == [i \in 1..n |-> fps[i].id]
<1>1. TypeOK /\ Distinct
  BY DEF FileInv, ListInv
<1>2. n \in Nat /\ DOMAIN fps = 1..n
  BY <1>1, ListTyped
<1> HIDE DEF n
<1>3. Ids = {fps[i].id : i \in 1..n}
  BY <1>2 DEF Ids, Range0
<1>4. f \in Bijection(1..n, Ids)
  <2>1. f \in [1..n -> Ids] /\ \A y \in Ids : \E i \in 1..n : f[i] = y
    BY <1>3
  <2>2. \A i, j \in 1..n : f[i] = f[j] => i = j
    BY <1>1, <1>2 DEF Distinct
  <2> HIDE DEF f
  <2>3. QED
    BY <2>1, <2>2 DEF Bijection, Injection, Surjection, IsInjective
<1>5. ExistsBijection(1..n, Ids)
  <2> HIDE DEF f
  <2>1. QED
    BY <1>4 DEF ExistsBijection
<1>6. IsFiniteSet(1..n) /\ Cardinality(1..n) = n
  <2>1. 1 \in Int /\ n \in Int /\ (IF 1 > n THEN 0 ELSE n - 1 + 1) = n
    BY <1>2
  <2>2. QED
    BY <2>1, FS_Interval
<1>7. Cardinality(Ids) = n
  BY <1>5, <1>6, FS_Bijection
<1>8. QED
  BY <1>7 DEF n

LEMMA NothingLeftFollows ==
  ASSUME FileInv
  PROVE  NothingLeft
<1>1. SUFFICES ASSUME Avoids({"refused", "swap"}), build # "cgi" => Avoids({"leave"})
               PROVE  /\ {fd \in Fds : fds[fd] # Free} = Ids
                      /\ Cardinality(Ids) = Len(fps) /\ ~lost
  BY DEF NothingLeft
<1>2. Listed /\ ~lost
  BY <1>1 DEF FileInv, LeftInv, Tidy
<1>3. \A i \in DOMAIN fps : fps[i].id \in Fds /\ fds[fps[i].id] # Free
  BY ListTyped DEF FileInv, ListInv, AreOpen
<1>4. \A id : id \in Ids <=> \E i \in DOMAIN fps : fps[i].id = id
  BY DEF Ids, Range0
<1>5. {fd \in Fds : fds[fd] # Free} = Ids
  BY <1>2, <1>3, <1>4 DEF Listed
<1>6. QED
  BY <1>2, <1>5, AsManyIds

LEMMA StatFollows ==
  ASSUME FileInv
  PROVE  StatFaithful
<1>1. SUFFICES ASSUME Avoids({"missing", "changes"}),
                      build = "apache" => Avoids({"self"}) /\ statName # NoName,
                      NEW n \in Names
               PROVE  Answer(n) = [name |-> n, rec |-> disk[n]]
  BY DEF StatFaithful
<1>2. Settled
  BY <1>1 DEF Settled
<1>3. disk[n] = 1 /\ (statName # NoName => sb = [name |-> statName, rec |-> 1])
  BY <1>1, <1>2 DEF FileInv, StatInv
<1>4. Remembered = statName /\ NoName \notin Names
  BY <1>1, FilesAssumption DEF Remembered
<1>5. QED
  BY <1>3, <1>4 DEF Answer

(* For any names, files, builds and pages, and any number of descriptors:  *)
(* a number that a page has got and not closed leads to the stream that    *)
(* was opened (FpPush, FpFind, FpDel).                                     *)
THEOREM HandlesLead == FilesSpec => []FilesInv
<1>1. FileInv => FilesInv
  BY HandlesFollow
<1>2. QED
  BY <1>1, FileAlways, PTL

(* What is open is in the list, the list leads to open descriptors, each   *)
(* once, and nothing that is written is lost, for pages that close things  *)
(* as they opened them (CloseEntry, EndOfRequest).                         *)
THEOREM NothingIsLeft == FilesSpec => []NothingLeft
<1>1. FileInv => NothingLeft
  BY NothingLeftFollows
<1>2. QED
  BY <1>1, FileAlways, PTL

(* The remembered stat record is that of the file that is asked about, if  *)
(* no file is missing or changes (FileFunc).                               *)
THEOREM StatIsFaithful == FilesSpec => []StatFaithful
<1>1. FileInv => StatFaithful
  BY StatFollows
<1>2. QED
  BY <1>1, FileAlways, PTL

-----------------------------------------------------------------------------
(* What fgetss() makes of a line, beside what the definition makes of it.  *)

Marks == [in : {"text", "first", "tag", "code", "string"}, open : Int, out : Seq(Tokens)]

(* base: the text of the lines before.                                     *)
Matches(s, m, base) ==
  /\ m.out = base \o s.out
  /\ m.in = "text" => s.st = 0
  /\ m.in \in {"first", "tag"} => s.st = 1 /\ s.lc # "q"
  /\ m.in \in {"code", "string"} => s.st = 2 /\ s.br = m.open /\ (s.lc = "q" <=> m.in = "string")
  /\ m.in \in {"text", "first", "tag"} => m.open = 0

(* What a token does to the state of the definition.                       *)
MarkMoves(m, to, open, out) == to.in = m /\ to.open = open /\ to.out = out /\ to \in Marks

LEMMA MarkFields ==
  ASSUME NEW m \in Marks, NEW a \in {"text", "first", "tag", "code", "string"}, NEW c \in Int, NEW o \in Seq(Tokens)
  PROVE  /\ MarkMoves(m.in, m, m.open, m.out) /\ MarkMoves(a, [m EXCEPT !.in = a], m.open, m.out)
         /\ MarkMoves(m.in, [m EXCEPT !.open = c], c, m.out) /\ MarkMoves(m.in, [m EXCEPT !.out = o], m.open, o)
<1>0. m \in [in : {"text", "first", "tag", "code", "string"}, open : Int, out : Seq(Tokens)]
  BY DEF Marks
<1>1. MarkMoves(m.in, m, m.open, m.out)
  BY DEF MarkMoves
<1>2. MarkMoves(a, [m EXCEPT !.in = a], m.open, m.out)
  BY <1>0, Zenon DEF MarkMoves, Marks
<1>3. MarkMoves(m.in, [m EXCEPT !.open = c], c, m.out)
  BY <1>0, Zenon DEF MarkMoves, Marks
<1>4. MarkMoves(m.in, [m EXCEPT !.out = o], m.open, o)
  BY <1>0, Zenon DEF MarkMoves, Marks
<1>5. QED
  BY <1>1, <1>2, <1>3, <1>4

LEMMA MarkIs ==
  ASSUME NEW m \in Marks, NEW t \in Tokens, NEW to, to = Mark(m, t)
  PROVE  /\ m.in = "text" /\ t = "<" => MarkMoves("first", to, m.open, m.out)
         /\ m.in = "text" /\ t # "<" => MarkMoves("text", to, m.open, Append(m.out, t))
         /\ m.in \in {"first", "tag"} /\ t = ">" => MarkMoves("text", to, m.open, m.out)
         /\ m.in = "first" /\ t = "?" => MarkMoves("code", to, m.open, m.out)
         /\ m.in = "first" /\ t \notin {">", "?"} => MarkMoves("tag", to, m.open, m.out)
         /\ m.in = "tag" /\ t # ">" => MarkMoves("tag", to, m.open, m.out)
         /\ m.in = "string" /\ t = "q" => MarkMoves("code", to, m.open, m.out)
         /\ m.in = "string" /\ t # "q" => MarkMoves("string", to, m.open, m.out)
         /\ m.in = "code" /\ t = "q" => MarkMoves("string", to, m.open, m.out)
         /\ m.in = "code" /\ t = "(" => MarkMoves("code", to, m.open + 1, m.out)
         /\ m.in = "code" /\ t = ")" => MarkMoves("code", to, m.open - 1, m.out)
         /\ m.in = "code" /\ t = ">" /\ m.open = 0 => MarkMoves("text", to, m.open, m.out)
         /\ m.in = "code" /\ t \notin {"q", "(", ")"} /\ ~(t = ">" /\ m.open = 0) => MarkMoves("code", to, m.open, m.out)
<1>a. /\ m.in \in {"text", "first", "tag", "code", "string"} /\ m.open \in Int /\ m.out \in Seq(Tokens)
      /\ m.open + 1 \in Int /\ m.open - 1 \in Int /\ Append(m.out, t) \in Seq(Tokens)
  BY DEF Marks
<1>1. ASSUME m.in = "text" /\ t = "<" PROVE MarkMoves("first", to, m.open, m.out)
  <2>1. to = [m EXCEPT !.in = "first"]
    BY <1>1, SMT DEF Mark
  <2>2. QED
    BY <1>a, <1>1, <2>1, MarkFields, Zenon
<1>2. ASSUME m.in = "text" /\ t # "<" PROVE MarkMoves("text", to, m.open, Append(m.out, t))
  <2>1. to = [m EXCEPT !.out = Append(m.out, t)]
    BY <1>2, SMT DEF Mark
  <2>2. QED
    BY <1>a, <1>2, <2>1, MarkFields, Zenon
<1>3. ASSUME m.in \in {"first", "tag"} /\ t = ">" PROVE MarkMoves("text", to, m.open, m.out)
  <2>1. to = [m EXCEPT !.in = "text"]
    BY <1>3, SMT DEF Mark
  <2>2. QED
    BY <1>a, <1>3, <2>1, MarkFields, Zenon
<1>4. ASSUME m.in = "first" /\ t = "?" PROVE MarkMoves("code", to, m.open, m.out)
  <2>1. to = [m EXCEPT !.in = "code"]
    BY <1>4, SMT DEF Mark
  <2>2. QED
    BY <1>a, <1>4, <2>1, MarkFields, Zenon
<1>5. ASSUME m.in = "first" /\ t \notin {">", "?"} PROVE MarkMoves("tag", to, m.open, m.out)
  <2>1. to = [m EXCEPT !.in = "tag"]
    BY <1>5, SMT DEF Mark
  <2>2. QED
    BY <1>a, <1>5, <2>1, MarkFields, Zenon
<1>6. ASSUME m.in = "tag" /\ t # ">" PROVE MarkMoves("tag", to, m.open, m.out)
  <2>1. to = [m EXCEPT !.in = "tag"]
    BY <1>6, SMT DEF Mark
  <2>2. QED
    BY <1>a, <1>6, <2>1, MarkFields, Zenon
<1>7. ASSUME m.in = "string" /\ t = "q" PROVE MarkMoves("code", to, m.open, m.out)
  <2>1. to = [m EXCEPT !.in = "code"]
    BY <1>7, SMT DEF Mark
  <2>2. QED
    BY <1>a, <1>7, <2>1, MarkFields, Zenon
<1>8. ASSUME m.in = "string" /\ t # "q" PROVE MarkMoves("string", to, m.open, m.out)
  <2>1. to = [m EXCEPT !.in = "string"]
    BY <1>8, SMT DEF Mark
  <2>2. QED
    BY <1>a, <1>8, <2>1, MarkFields, Zenon
<1>9. ASSUME m.in = "code" /\ t = "q" PROVE MarkMoves("string", to, m.open, m.out)
  <2>1. to = [m EXCEPT !.in = "string"]
    BY <1>9, SMT DEF Mark
  <2>2. QED
    BY <1>a, <1>9, <2>1, MarkFields, Zenon
<1>10. ASSUME m.in = "code" /\ t = "(" PROVE MarkMoves("code", to, m.open + 1, m.out)
  <2>1. to = [m EXCEPT !.open = m.open + 1]
    BY <1>10, SMT DEF Mark
  <2>2. QED
    BY <1>a, <1>10, <2>1, MarkFields, Zenon
<1>11. ASSUME m.in = "code" /\ t = ")" PROVE MarkMoves("code", to, m.open - 1, m.out)
  <2>1. to = [m EXCEPT !.open = m.open - 1]
    BY <1>11, SMT DEF Mark
  <2>2. QED
    BY <1>a, <1>11, <2>1, MarkFields, Zenon
<1>12. ASSUME m.in = "code" /\ t = ">" /\ m.open = 0 PROVE MarkMoves("text", to, m.open, m.out)
  <2>1. to = [m EXCEPT !.in = "text"]
    BY <1>12, SMT DEF Mark
  <2>2. QED
    BY <1>a, <1>12, <2>1, MarkFields, Zenon
<1>13. ASSUME m.in = "code" /\ t \notin {"q", "(", ")"} /\ ~(t = ">" /\ m.open = 0) PROVE MarkMoves("code", to, m.open, m.out)
  <2>1. to = m
    BY <1>13, SMT DEF Mark
  <2>2. QED
    BY <1>a, <1>13, <2>1, MarkFields, Zenon
<1>14. QED
  BY <1>1, <1>2, <1>3, <1>4, <1>5, <1>6, <1>7, <1>8, <1>9, <1>10, <1>11, <1>12, <1>13

LEMMA MarkTyped ==
  ASSUME NEW m \in Marks, NEW t \in Tokens
  PROVE  Mark(m, t) \in Marks
<1>1. PICK to : to = Mark(m, t)
  OBVIOUS
<1>2. m.in \in {"text", "first", "tag", "code", "string"}
  BY DEF Marks
<1>3. \E a, b, c : MarkMoves(a, to, b, c)
  BY <1>1, <1>2, MarkIs
<1>4. QED
  BY <1>1, <1>3 DEF MarkMoves

(* What a token does to the state of fgetss().                             *)
ScanMoves(st, to, br, lc, out) == to.st = st /\ to.br = br /\ to.lc = lc /\ to.out = out

LEMMA ScanIs ==
  ASSUME NEW s \in Scans, NEW t \in Tokens, NEW to, to = Scan(s, t)
  PROVE  /\ s.st = 0 /\ t = "<" => ScanMoves(1, to, s.br, "<", s.out)
         /\ s.st = 0 /\ t \notin {"<", ">"} => ScanMoves(0, to, s.br, s.lc, Append(s.out, t))
         /\ s.st = 1 /\ t = ">" => ScanMoves(0, to, s.br, ">", s.out)
         /\ s.st = 1 /\ t = "?" => ScanMoves(2, to, 0, s.lc, s.out)
         /\ s.st = 1 /\ t \notin {">", "?"} => ScanMoves(1, to, s.br, s.lc, s.out)
         /\ s.st = 2 /\ t = "(" /\ s.lc # "q" => ScanMoves(2, to, s.br + 1, "(", s.out)
         /\ s.st = 2 /\ t = ")" /\ s.lc # "q" => ScanMoves(2, to, s.br - 1, ")", s.out)
         /\ s.st = 2 /\ t = ">" /\ s.br = 0 /\ s.lc # "q" => ScanMoves(0, to, s.br, s.lc, s.out)
         /\ s.st = 2 /\ t = "q" => ScanMoves(2, to, s.br, IF s.lc = "q" THEN "none" ELSE "q", s.out)
         /\ s.st = 2 /\ t \notin {"(", ")", "q"} /\ ~(t = ">" /\ s.br = 0 /\ s.lc # "q") => ScanMoves(2, to, s.br, s.lc, s.out)
         /\ s.st = 2 /\ t # "q" /\ s.lc = "q" => ScanMoves(2, to, s.br, s.lc, s.out)
<1>0. DOMAIN s = {"st", "br", "lc", "out"}
  BY DEF Scans
<1>1. ASSUME s.st = 0 /\ t = "<" PROVE ScanMoves(1, to, s.br, "<", s.out)
  <2>1. to = [s EXCEPT !.st = 1, !.lc = "<"]
    BY <1>1, SMT DEF Scan
  <2>2. QED
    BY <1>0, <1>1, <2>1 DEF ScanMoves
<1>2. ASSUME s.st = 0 /\ t \notin {"<", ">"} PROVE ScanMoves(0, to, s.br, s.lc, Append(s.out, t))
  <2>1. to = [s EXCEPT !.out = Append(s.out, t)]
    BY <1>2, SMT DEF Scan
  <2>2. QED
    BY <1>0, <1>2, <2>1 DEF ScanMoves
<1>3. ASSUME s.st = 1 /\ t = ">" PROVE ScanMoves(0, to, s.br, ">", s.out)
  <2>1. to = [s EXCEPT !.st = 0, !.lc = ">"]
    BY <1>3, SMT DEF Scan
  <2>2. QED
    BY <1>0, <1>3, <2>1 DEF ScanMoves
<1>4. ASSUME s.st = 1 /\ t = "?" PROVE ScanMoves(2, to, 0, s.lc, s.out)
  <2>1. to = [s EXCEPT !.st = 2, !.br = 0]
    BY <1>4, SMT DEF Scan
  <2>2. QED
    BY <1>0, <1>4, <2>1 DEF ScanMoves
<1>5. ASSUME s.st = 1 /\ t \notin {">", "?"} PROVE ScanMoves(1, to, s.br, s.lc, s.out)
  <2>1. to = s
    BY <1>5, SMT DEF Scan
  <2>2. QED
    BY <1>0, <1>5, <2>1 DEF ScanMoves
<1>6. ASSUME s.st = 2 /\ t = "(" /\ s.lc # "q" PROVE ScanMoves(2, to, s.br + 1, "(", s.out)
  <2>1. to = [s EXCEPT !.lc = "(", !.br = s.br + 1]
    BY <1>6, SMT DEF Scan
  <2>2. QED
    BY <1>0, <1>6, <2>1 DEF ScanMoves
<1>7. ASSUME s.st = 2 /\ t = ")" /\ s.lc # "q" PROVE ScanMoves(2, to, s.br - 1, ")", s.out)
  <2>1. to = [s EXCEPT !.lc = ")", !.br = s.br - 1]
    BY <1>7, SMT DEF Scan
  <2>2. QED
    BY <1>0, <1>7, <2>1 DEF ScanMoves
<1>8. ASSUME s.st = 2 /\ t = ">" /\ s.br = 0 /\ s.lc # "q" PROVE ScanMoves(0, to, s.br, s.lc, s.out)
  <2>1. to = [s EXCEPT !.st = 0]
    BY <1>8, SMT DEF Scan
  <2>2. QED
    BY <1>0, <1>8, <2>1 DEF ScanMoves
<1>9. ASSUME s.st = 2 /\ t = "q" PROVE ScanMoves(2, to, s.br, IF s.lc = "q" THEN "none" ELSE "q", s.out)
  <2>1. to = [s EXCEPT !.lc = IF s.lc = "q" THEN "none" ELSE "q"]
    BY <1>9, SMT DEF Scan
  <2>2. QED
    BY <1>0, <1>9, <2>1 DEF ScanMoves
<1>10. ASSUME s.st = 2 /\ t \notin {"(", ")", "q"} /\ ~(t = ">" /\ s.br = 0 /\ s.lc # "q") PROVE ScanMoves(2, to, s.br, s.lc, s.out)
  <2>1. to = s
    BY <1>10, SMT DEF Scan
  <2>2. QED
    BY <1>0, <1>10, <2>1 DEF ScanMoves
<1>11. ASSUME s.st = 2 /\ t # "q" /\ s.lc = "q" PROVE ScanMoves(2, to, s.br, s.lc, s.out)
  <2>1. to = s
    BY <1>11, SMT DEF Scan
  <2>2. QED
    BY <1>0, <1>11, <2>1 DEF ScanMoves
<1>12. QED
  BY <1>1, <1>2, <1>3, <1>4, <1>5, <1>6, <1>7, <1>8, <1>9, <1>10, <1>11

LEMMA AppendAfter ==
  ASSUME NEW T, NEW a \in Seq(T), NEW b \in Seq(T), NEW t \in T
  PROVE  a \o Append(b, t) = Append(a \o b, t)
<1>1. Append(b, t) = b \o <<t>> /\ Append(a \o b, t) = (a \o b) \o <<t>> /\ <<t>> \in Seq(T)
  OBVIOUS
<1>2. (a \o b) \o <<t>> = a \o (b \o <<t>>)
  BY <1>1, ConcatAssociative
<1>3. QED
  BY <1>1, <1>2

(* One token, if it is no ? in a tag and no > in the text.                 *)
LEMMA ScanMarks ==
  ASSUME NEW s \in Scans, NEW m \in Marks, NEW base \in Seq(Tokens), NEW t \in Tokens, Matches(s, m, base),
         ~(m.in = "tag" /\ t = "?"), ~(m.in = "text" /\ t = ">")
  PROVE  Matches(Scan(s, t), Mark(m, t), base)
<1>1. /\ s.st \in 0..2 /\ s.br \in Int /\ s.lc \in Kept /\ s.out \in Seq(Tokens)
      /\ m.in \in {"text", "first", "tag", "code", "string"} /\ m.open \in Int /\ m.out \in Seq(Tokens)
  BY DEF Scans, Marks
<1>2. PICK x : x = Scan(s, t)
  OBVIOUS
<1>3. PICK y : y = Mark(m, t)
  OBVIOUS
<1>4. SUFFICES Matches(x, y, base)
  BY <1>2, <1>3
<1>5. CASE m.in = "text"
  <2>1. s.st = 0 /\ m.out = base \o s.out /\ m.open = 0
    BY <1>5 DEF Matches
  <2>2. CASE t = "<"
    <3>1. ScanMoves(1, x, s.br, "<", s.out) /\ MarkMoves("first", y, 0, m.out)
      BY <1>1, <1>2, <1>3, <1>5, <2>1, <2>2, ScanIs, MarkIs
    <3>2. QED
      BY <2>1, <3>1 DEF Matches, ScanMoves, MarkMoves
  <2>3. CASE t # "<"
    <3>1. ScanMoves(0, x, s.br, s.lc, Append(s.out, t)) /\ MarkMoves("text", y, 0, Append(m.out, t))
      BY <1>1, <1>2, <1>3, <1>5, <2>1, <2>3, ScanIs, MarkIs
    <3>2. base \o Append(s.out, t) = Append(base \o s.out, t)
      <4>1. PICK o \in Seq(Tokens) : o = s.out
        BY <1>1
      <4>2. base \o Append(o, t) = Append(base \o o, t)
        BY AppendAfter
      <4>3. QED
        BY <4>1, <4>2, Zenon
    <3>3. Append(m.out, t) = base \o Append(s.out, t)
      BY <2>1, <3>2, Zenon
    <3>4. y.out = base \o x.out
      BY <3>1, <3>3, Zenon DEF ScanMoves, MarkMoves
    <3>5. x.st = 0 /\ y.in = "text" /\ y.open = 0
      BY <3>1 DEF ScanMoves, MarkMoves
    <3>6. QED
      BY <3>4, <3>5 DEF Matches
  <2>4. QED
    BY <2>2, <2>3
<1>6. CASE m.in \in {"first", "tag"}
  <2>1. s.st = 1 /\ s.lc # "q" /\ m.out = base \o s.out /\ m.open = 0
    BY <1>6 DEF Matches
  <2>2. CASE t = ">"
    <3>1. ScanMoves(0, x, s.br, ">", s.out) /\ MarkMoves("text", y, 0, m.out)
      BY <1>1, <1>2, <1>3, <1>6, <2>1, <2>2, ScanIs, MarkIs
    <3>2. QED
      BY <2>1, <3>1 DEF Matches, ScanMoves, MarkMoves
  <2>3. CASE t = "?" /\ m.in = "first"
    <3>1. ScanMoves(2, x, 0, s.lc, s.out) /\ MarkMoves("code", y, 0, m.out)
      BY <1>1, <1>2, <1>3, <2>1, <2>3, ScanIs, MarkIs
    <3>2. QED
      BY <2>1, <3>1 DEF Matches, ScanMoves, MarkMoves
  <2>4. CASE t # ">" /\ t # "?"
    <3>1. ScanMoves(1, x, s.br, s.lc, s.out) /\ MarkMoves("tag", y, 0, m.out)
      BY <1>1, <1>2, <1>3, <1>6, <2>1, <2>4, ScanIs, MarkIs
    <3>2. QED
      BY <2>1, <3>1 DEF Matches, ScanMoves, MarkMoves
  <2>5. QED
    BY <1>6, <2>2, <2>3, <2>4
<1>7. CASE m.in = "string"
  <2>1. s.st = 2 /\ s.lc = "q" /\ m.out = base \o s.out /\ s.br = m.open
    BY <1>7 DEF Matches
  <2>2. CASE t = "q"
    <3>1. ScanMoves(2, x, s.br, "none", s.out) /\ MarkMoves("code", y, m.open, m.out)
      BY <1>1, <1>2, <1>3, <1>7, <2>1, <2>2, ScanIs, MarkIs
    <3>2. QED
      BY <2>1, <3>1 DEF Matches, ScanMoves, MarkMoves
  <2>3. CASE t # "q"
    <3>1. ScanMoves(2, x, s.br, "q", s.out) /\ MarkMoves("string", y, m.open, m.out)
      BY <1>1, <1>2, <1>3, <1>7, <2>1, <2>3, ScanIs, MarkIs
    <3>2. QED
      BY <2>1, <3>1 DEF Matches, ScanMoves, MarkMoves
  <2>4. QED
    BY <2>2, <2>3
<1>8. CASE m.in = "code"
  <2>1. s.st = 2 /\ s.lc # "q" /\ m.out = base \o s.out /\ s.br = m.open
    BY <1>8 DEF Matches
  <2>2. CASE t = "q"
    <3>1. ScanMoves(2, x, s.br, "q", s.out) /\ MarkMoves("string", y, m.open, m.out)
      BY <1>1, <1>2, <1>3, <1>8, <2>1, <2>2, ScanIs, MarkIs
    <3>2. QED
      BY <2>1, <3>1 DEF Matches, ScanMoves, MarkMoves
  <2>3. CASE t = "("
    <3>1. ScanMoves(2, x, s.br + 1, "(", s.out)
      BY <1>2, <2>1, <2>3, ScanIs
    <3>2. MarkMoves("code", y, m.open + 1, m.out)
      BY <1>1, <1>3, <1>8, <2>3, MarkIs
    <3>3. QED
      BY <2>1, <3>1, <3>2 DEF Matches, ScanMoves, MarkMoves
  <2>4. CASE t = ")"
    <3>1. ScanMoves(2, x, s.br - 1, ")", s.out)
      BY <1>2, <2>1, <2>4, ScanIs
    <3>2. MarkMoves("code", y, m.open - 1, m.out)
      BY <1>1, <1>3, <1>8, <2>4, MarkIs
    <3>3. QED
      BY <2>1, <3>1, <3>2 DEF Matches, ScanMoves, MarkMoves
  <2>5. CASE t = ">" /\ m.open = 0
    <3>1. ScanMoves(0, x, s.br, s.lc, s.out) /\ MarkMoves("text", y, m.open, m.out)
      BY <1>1, <1>2, <1>3, <1>8, <2>1, <2>5, ScanIs, MarkIs
    <3>2. QED
      BY <2>1, <2>5, <3>1 DEF Matches, ScanMoves, MarkMoves
  <2>6. CASE t \notin {"q", "(", ")"} /\ ~(t = ">" /\ m.open = 0)
    <3>1. ScanMoves(2, x, s.br, s.lc, s.out) /\ MarkMoves("code", y, m.open, m.out)
      BY <1>1, <1>2, <1>3, <1>8, <2>1, <2>6, ScanIs, MarkIs
    <3>2. QED
      BY <2>1, <3>1 DEF Matches, ScanMoves, MarkMoves
  <2>7. QED
    BY <2>2, <2>3, <2>4, <2>5, <2>6
<1>9. QED
  BY <1>1, <1>5, <1>6, <1>7, <1>8

(* The definition and the lines of a file as folds.                        *)
MarkStart == [in |-> "text", open |-> 0, out |-> <<>>]
MarkOp    == [x \in Marks \X Tokens |-> Mark(x[1], x[2])]
JoinOp    == [x \in Seq(Tokens) \X Seq(Tokens) |-> x[1] \o x[2]]

LEMMA MarkOps ==
  /\ MarkOp \in [Marks \X Tokens -> Marks] /\ \A x \in Marks, t \in Tokens : MarkOp[<<x, t>>] = Mark(x, t)
  /\ MarkStart \in Marks
<1>1. MarkOp \in [Marks \X Tokens -> Marks] /\ \A x \in Marks, t \in Tokens : MarkOp[<<x, t>>] = Mark(x, t)
  BY MarkTyped DEF MarkOp
<1>2. MarkStart \in Marks
  BY DEF MarkStart, Marks
<1>3. QED
  BY <1>1, <1>2

LEMMA MarkRuns ==
  ASSUME NEW s \in Seq(Tokens)
  PROVE  HasRun(Marks, MarkOp, MarkStart, s, Len(s), MarkAll(s))
<1> DEFINE n == Len(s)
           it == CHOOSE i : i = [u \in SUBSET DOMAIN s |->
                                   IF u = {} THEN MarkStart ELSE Mark(i[u \ {Max(u)}], s[Max(u)])]
<1>1. n \in Nat /\ s \in [1..n -> Tokens] /\ DOMAIN s = 1..n
  BY LenProperties
<1>4. MarkAll(s) = it[DOMAIN s]
  BY Zenon DEF MarkAll, MarkStart, FoldLeft, MapThenFoldSet
<1>6. PICK j \in [SUBSET (1..n) -> Marks] : Iterates(j, MarkOp, MarkStart, s, n)
  <2> HIDE DEF it
  <2>1. QED
    BY <1>1, MarkOps, IteratesExist DEF HasIterates
<1>7. ASSUME NEW u \in SUBSET (1..n), u # {}
      PROVE  Max(u) \in 1..n /\ s[Max(u)] \in Tokens /\ u \ {Max(u)} \in SUBSET (1..n)
  <2>1. Max(u) \in u
    BY <1>1, <1>7, MaxIn
  <2>2. QED
    BY <1>1, <2>1
<1>8. \A u \in SUBSET (1..n) : j[u] = IF u = {} THEN MarkStart ELSE Mark(j[u \ {Max(u)}], s[Max(u)])
  <2> HIDE DEF it
  <2>1. ASSUME NEW u \in SUBSET (1..n), u # {}
        PROVE  MarkOp[<<j[u \ {Max(u)}], s[Max(u)]>>] = Mark(j[u \ {Max(u)}], s[Max(u)])
    BY MarkOps, <1>6, <1>7, <2>1
  <2>2. QED
    BY <1>6, <2>1 DEF Iterates
<1>9. it = [u \in SUBSET DOMAIN s |-> IF u = {} THEN MarkStart ELSE Mark(it[u \ {Max(u)}], s[Max(u)])]
  <2>1. j = [u \in SUBSET DOMAIN s |-> IF u = {} THEN MarkStart ELSE Mark(j[u \ {Max(u)}], s[Max(u)])]
    <3> HIDE DEF it
    <3>1. QED
      BY <1>1, <1>6, <1>8
  <2>2. QED
    BY <2>1, Zenon
<1> HIDE DEF it
<1>10. it[{}] = MarkStart /\ \A u \in SUBSET (1..n) : u # {} => it[u] = Mark(it[u \ {Max(u)}], s[Max(u)])
  BY <1>1, <1>9
<1>11. Follows(it, Marks, MarkOp, MarkStart, s, n)
  BY MarkOps, <1>7, <1>10 DEF Follows
<1>12. HasRun(Marks, MarkOp, MarkStart, s, n, it[1..n])
  BY <1>1, MarkOps, <1>11, RunOfIterates, Zenon
<1>13. QED
  BY <1>1, <1>4, <1>12

LEMMA JoinOps ==
  /\ JoinOp \in [Seq(Tokens) \X Seq(Tokens) -> Seq(Tokens)] /\ <<>> \in Seq(Tokens)
  /\ \A x, y \in Seq(Tokens) : JoinOp[<<x, y>>] = x \o y
<1> DEFINE S == Seq(Tokens)
           pairs == S \X S
<1>1. \A x, y \in S : x \o y \in S
  BY ConcatProperties
<1>2. <<>> \in S
  OBVIOUS
<1>3. JoinOp = [x \in pairs |-> x[1] \o x[2]]
  BY Zenon DEF JoinOp
<1> HIDE DEF S
<1>4. \A x \in pairs : x[1] \in S /\ x[2] \in S
  OBVIOUS
<1>5. \A x, y \in S : <<x, y>> \in pairs /\ <<x, y>>[1] = x /\ <<x, y>>[2] = y
  OBVIOUS
<1> HIDE DEF pairs
<1>6. \A x \in pairs : x[1] \o x[2] \in S
  BY <1>1, <1>4, Zenon
<1>7. JoinOp \in [pairs -> S]
  BY <1>3, <1>6, Zenon
<1>8. ASSUME NEW x \in S, NEW y \in S PROVE JoinOp[<<x, y>>] = x \o y
  <2>1. <<x, y>> \in pairs
    BY <1>5, Zenon
  <2>2. JoinOp[<<x, y>>] = <<x, y>>[1] \o <<x, y>>[2]
    BY <1>3, <2>1, Zenon
  <2>3. QED
    BY <1>5, <2>2, Zenon
<1>9. QED
  BY <1>2, <1>7, <1>8, Zenon DEF S, pairs

LEMMA JoinRuns ==
  ASSUME NEW s \in Seq(Seq(Tokens))
  PROVE  HasRun(Seq(Tokens), JoinOp, <<>>, s, Len(s), FoldLeft(LAMBDA all, line : all \o line, <<>>, s))
<1> DEFINE n == Len(s)
           it == CHOOSE i : i = [u \in SUBSET DOMAIN s |->
                                   IF u = {} THEN <<>> ELSE i[u \ {Max(u)}] \o s[Max(u)]]
<1>1. n \in Nat /\ s \in [1..n -> Seq(Tokens)] /\ DOMAIN s = 1..n
  BY LenProperties
<1>2. <<>> \in Seq(Tokens)
  OBVIOUS
<1>3. /\ JoinOp \in [Seq(Tokens) \X Seq(Tokens) -> Seq(Tokens)]
      /\ \A x, y \in Seq(Tokens) : JoinOp[<<x, y>>] = x \o y
  BY JoinOps
<1>4. FoldLeft(LAMBDA all, line : all \o line, <<>>, s) = it[DOMAIN s]
  BY Zenon DEF FoldLeft, MapThenFoldSet
<1>6. PICK j \in [SUBSET (1..n) -> Seq(Tokens)] : Iterates(j, JoinOp, <<>>, s, n)
  <2> HIDE DEF it
  <2>1. QED
    BY <1>1, <1>2, <1>3, IteratesExist DEF HasIterates
<1>7. ASSUME NEW u \in SUBSET (1..n), u # {}
      PROVE  Max(u) \in 1..n /\ s[Max(u)] \in Seq(Tokens) /\ u \ {Max(u)} \in SUBSET (1..n)
  <2>1. Max(u) \in u
    BY <1>1, <1>7, MaxIn
  <2>2. QED
    BY <1>1, <2>1
<1>8. \A u \in SUBSET (1..n) : j[u] = IF u = {} THEN <<>> ELSE j[u \ {Max(u)}] \o s[Max(u)]
  <2> HIDE DEF it
  <2>1. ASSUME NEW u \in SUBSET (1..n), u # {}
        PROVE  JoinOp[<<j[u \ {Max(u)}], s[Max(u)]>>] = j[u \ {Max(u)}] \o s[Max(u)]
    BY <1>3, <1>6, <1>7, <2>1
  <2>2. QED
    BY <1>6, <2>1 DEF Iterates
<1>9. it = [u \in SUBSET DOMAIN s |-> IF u = {} THEN <<>> ELSE it[u \ {Max(u)}] \o s[Max(u)]]
  <2>1. j = [u \in SUBSET DOMAIN s |-> IF u = {} THEN <<>> ELSE j[u \ {Max(u)}] \o s[Max(u)]]
    <3> HIDE DEF it
    <3>1. QED
      BY <1>1, <1>6, <1>8
  <2>2. QED
    BY <2>1, Zenon
<1> HIDE DEF it
<1>10. it[{}] = <<>> /\ \A u \in SUBSET (1..n) : u # {} => it[u] = it[u \ {Max(u)}] \o s[Max(u)]
  BY <1>1, <1>9
<1>11. Follows(it, Seq(Tokens), JoinOp, <<>>, s, n)
  BY <1>3, <1>7, <1>10 DEF Follows
<1>12. HasRun(Seq(Tokens), JoinOp, <<>>, s, n, it[1..n])
  BY <1>1, <1>2, <1>3, <1>11, RunOfIterates, Zenon
<1>13. QED
  BY <1>1, <1>4, <1>12

(* A run passes through what comes of every beginning of its sequence.     *)
Passes(g, n, last) == g[n] = last

LEMMA RunPasses ==
  ASSUME NEW S, NEW op, NEW b, NEW s, NEW n, NEW last, HasRun(S, op, b, s, n, last),
         NEW t, NEW m, NEW g, Run(g, op, b, t, m), Longer(t, s, n), n \in Nat, m \in Nat, n <= m
  PROVE  Passes(g, n, last)
<1>1. PICK f \in [0..n -> S] : Run(f, op, b, s, n) /\ f[n] = last
  BY DEF HasRun
<1> DEFINE P == {k \in 0..n : f[k] = g[k]}
<1>2. 0 \in P
  BY <1>1 DEF Run
<1>3. ASSUME NEW k \in 1..n, k - 1 \in P PROVE k \in P
  <2>1. k \in 0..n /\ k \in 1..m
    OBVIOUS
  <2>2. f[k - 1] = g[k - 1] /\ s[k] = t[k]
    BY <1>3 DEF Longer
  <2>3. f[k] = op[<<f[k - 1], s[k]>>] /\ g[k] = op[<<g[k - 1], t[k]>>]
    BY <1>1, <2>1 DEF Run
  <2>4. QED
    BY <2>1, <2>2, <2>3
<1>4. \A k \in 0..n : k \in P
  <2> HIDE DEF P
  <2>1. QED
    BY <1>2, <1>3, Upward
<1>5. n \in P
  BY <1>4
<1>6. QED
  BY <1>1, <1>5 DEF Passes

(* The text up to a line, and with it.                                     *)
LEMMA TextNext ==
  ASSUME NEW n \in Names, NEW k \in 1 .. Len(Lines(n))
  PROVE  /\ Text(n, k - 1) \in Seq(Tokens) /\ Lines(n)[k] \in Seq(Tokens)
         /\ Text(n, k) = Text(n, k - 1) \o Lines(n)[k]
<1> DEFINE r == SubSeq(Lines(n), 1, k - 1)
           s == SubSeq(Lines(n), 1, k)
<1>1. Lines(n) \in Seq(Seq(Tokens)) /\ Len(Lines(n)) \in Nat
  BY FilesAssumption, LenProperties
<1>2. \A i \in 1 .. Len(Lines(n)) : Lines(n)[i] \in Seq(Tokens)
  BY <1>1, ElementOfSeq
<1>3. k \in Nat /\ k - 1 \in Nat /\ k - 1 <= k /\ k <= Len(Lines(n))
  BY <1>1
<1>4. s \in Seq(Seq(Tokens)) /\ Len(s) = k /\ \A i \in 1..k : s[i] = Lines(n)[i]
  <2>1. 1 \in Int /\ k \in Int /\ 1 <= k /\ \A i \in 1..k : Lines(n)[i] \in Seq(Tokens)
    BY <1>1, <1>2
  <2>2. /\ s \in Seq(Seq(Tokens)) /\ Len(s) = IF 1 <= k THEN k - 1 + 1 ELSE 0
        /\ \A i \in 1 .. k - 1 + 1 : s[i] = Lines(n)[1 + i - 1]
    BY <2>1, SubSeqProperties
  <2> HIDE DEF s
  <2>3. Len(s) = k /\ \A i \in 1..k : s[i] = Lines(n)[i]
    BY <1>3, <2>1, <2>2
  <2>4. QED
    BY <2>2, <2>3
<1>5. r \in Seq(Seq(Tokens)) /\ Len(r) = k - 1 /\ \A i \in 1 .. k - 1 : r[i] = Lines(n)[i]
  <2>1. 1 \in Int /\ k - 1 \in Int /\ \A i \in 1 .. k - 1 : Lines(n)[i] \in Seq(Tokens)
    BY <1>1, <1>2
  <2>2. /\ r \in Seq(Seq(Tokens)) /\ Len(r) = IF 1 <= k - 1 THEN k - 1 - 1 + 1 ELSE 0
        /\ \A i \in 1 .. k - 1 - 1 + 1 : r[i] = Lines(n)[1 + i - 1]
    BY <2>1, SubSeqProperties
  <2> HIDE DEF r
  <2>3. Len(r) = k - 1
    BY <1>3, <2>2
  <2>5. ASSUME NEW i \in 1 .. k - 1 PROVE r[i] = Lines(n)[i]
    <3>1. i \in 1 .. k - 1 - 1 + 1 /\ 1 + i - 1 = i
      BY <1>3
    <3>2. r[i] = Lines(n)[1 + i - 1]
      BY <2>2, <3>1
    <3>3. QED
      BY <3>1, <3>2, Zenon
  <2>4. QED
    BY <2>2, <2>3, <2>5
<1>6. Text(n, k) = FoldLeft(LAMBDA all, line : all \o line, <<>>, s)
  BY DEF Text
<1>7. Text(n, k - 1) = FoldLeft(LAMBDA all, line : all \o line, <<>>, r)
  BY DEF Text
<1> HIDE DEF r, s
<1>8. HasRun(Seq(Tokens), JoinOp, <<>>, s, k, Text(n, k))
  BY <1>4, <1>6, JoinRuns
<1>9. HasRun(Seq(Tokens), JoinOp, <<>>, r, k - 1, Text(n, k - 1))
  BY <1>5, <1>7, JoinRuns
<1>10. PICK g : g \in [0..k -> Seq(Tokens)] /\ Run(g, JoinOp, <<>>, s, k) /\ g[k] = Text(n, k)
  BY <1>8 DEF HasRun
<1>11. s \in [1..k -> Seq(Tokens)] /\ r \in [1 .. k - 1 -> Seq(Tokens)]
  <2>1. s \in [1 .. Len(s) -> Seq(Tokens)] /\ r \in [1 .. Len(r) -> Seq(Tokens)]
    BY <1>4, <1>5, LenProperties, Zenon
  <2>2. QED
    BY <1>4, <1>5, <2>1, Zenon
<1>12. Longer(s, r, k - 1)
  <2>1. ASSUME NEW i \in 1 .. k - 1 PROVE s[i] = r[i]
    <3>1. i \in 1..k
      BY <1>3
    <3>2. QED
      BY <1>4, <1>5, <3>1, Zenon
  <2>2. QED
    BY <2>1 DEF Longer
<1>13. /\ JoinOp \in [Seq(Tokens) \X Seq(Tokens) -> Seq(Tokens)] /\ <<>> \in Seq(Tokens)
       /\ \A x, y \in Seq(Tokens) : JoinOp[<<x, y>>] = x \o y
  BY JoinOps
<1>14. g[k - 1] = Text(n, k - 1)
  <2>1. Passes(g, k - 1, Text(n, k - 1))
    BY <1>3, <1>9, <1>10, <1>12, RunPasses
  <2>2. QED
    BY <2>1, Zenon DEF Passes
<1>15. g[k - 1] \in Seq(Tokens) /\ g[k] = JoinOp[<<g[k - 1], s[k]>>] /\ s[k] = Lines(n)[k]
  <2>1. k \in 1..k /\ k - 1 \in 0..k
    BY <1>3
  <2>2. QED
    BY <1>4, <1>10, <2>1 DEF Run
<1>16. QED
  BY <1>2, <1>10, <1>13, <1>14, <1>15

(* Of the counts of the definition: none is open in text, nor in a tag.    *)
Rests(m) == m.in \in {"text", "first", "tag"} => m.open = 0

LEMMA MarkRests ==
  ASSUME NEW m \in Marks, NEW t \in Tokens, Rests(m)
  PROVE  Rests(Mark(m, t))
<1>1. PICK to : to = Mark(m, t)
  OBVIOUS
<1>2. m.in \in {"text", "first", "tag", "code", "string"} /\ m.open \in Int /\ (m.in \in {"text", "first", "tag"} => m.open = 0)
  BY DEF Marks, Rests
<1>3. to.in \in {"text", "first", "tag"} => to.open = 0
  <2>1. CASE m.in \in {"text", "first", "tag"}
    <3>1. \E a, c : MarkMoves(a, to, 0, c)
      BY <1>1, <1>2, <2>1, MarkIs
    <3>2. QED
      BY <3>1 DEF MarkMoves
  <2>2. CASE m.in = "string"
    <3>1. \E c : MarkMoves("code", to, m.open, c) \/ MarkMoves("string", to, m.open, c)
      BY <1>1, <2>2, MarkIs
    <3>2. QED
      BY <3>1 DEF MarkMoves
  <2>3. CASE m.in = "code"
    <3>1. \E b, c : \/ MarkMoves("code", to, b, c) \/ MarkMoves("string", to, b, c)
                    \/ MarkMoves("text", to, b, c) /\ b = 0
      BY <1>1, <2>3, MarkIs
    <3>2. QED
      BY <3>1 DEF MarkMoves
  <2>4. QED
    BY <1>2, <2>1, <2>2, <2>3
<1>4. QED
  BY <1>1, <1>3 DEF Rests

LEMMA MarkAllRests ==
  ASSUME NEW s \in Seq(Tokens)
  PROVE  MarkAll(s) \in Marks /\ Rests(MarkAll(s))
<1>1. PICK n : n = Len(s) /\ n \in Nat /\ s \in [1..n -> Tokens]
  BY LenProperties
<1>2. PICK f \in [0..n -> Marks] : Run(f, MarkOp, MarkStart, s, n) /\ f[n] = MarkAll(s)
  BY <1>1, MarkRuns DEF HasRun
<1> DEFINE P == {k \in 0..n : Rests(f[k])}
<1>3. 0 \in P
  <2>1. Rests(MarkStart)
    BY DEF MarkStart, Rests
  <2>2. QED
    BY <1>1, <1>2, <2>1 DEF Run
<1>4. ASSUME NEW k \in 1..n, k - 1 \in P PROVE k \in P
  <2>1. k \in 0..n /\ k - 1 \in 0..n /\ Rests(f[k - 1]) /\ s[k] \in Tokens /\ f[k - 1] \in Marks
    BY <1>1, <1>4
  <2>2. f[k] = MarkOp[<<f[k - 1], s[k]>>]
    BY <1>2 DEF Run
  <2>3. f[k] = Mark(f[k - 1], s[k])
    BY <2>1, <2>2, MarkOps
  <2>4. QED
    BY <2>1, <2>3, MarkRests
<1>5. \A k \in 0..n : k \in P
  <2> HIDE DEF P
  <2>1. QED
    BY <1>1, <1>3, <1>4, Upward
<1>6. n \in P
  BY <1>1, <1>5
<1>7. QED
  BY <1>1, <1>2, <1>6

(* A beginning of a text and of its next line.                             *)
LEMMA BeginsWith ==
  ASSUME NEW s \in Seq(Tokens), NEW line \in Seq(Tokens), NEW j \in 0 .. Len(line), NEW t, t = s \o SubSeq(line, 1, j)
  PROVE  t \in Seq(Tokens) /\ Len(t) = Len(s) + j /\ Longer(s \o line, t, Len(s) + j)
<1>1. Len(s) \in Nat /\ Len(line) \in Nat /\ \A i \in 1 .. Len(line) : line[i] \in Tokens
  BY LenProperties, ElementOfSeq
<1>2. PICK b : b = SubSeq(line, 1, j)
  OBVIOUS
<1>3. b \in Seq(Tokens) /\ Len(b) = j
  <2>1. /\ b \in Seq(Tokens) /\ Len(b) = IF 1 <= j THEN j - 1 + 1 ELSE 0
    BY <1>1, <1>2, SubSeqProperties
  <2>2. QED
    BY <1>1, <2>1
<1>4. \A i \in 1..j : b[i] = line[i]
  <2>1. ASSUME NEW i \in 1..j PROVE b[i] = line[i]
    <3>1. i \in 1 .. j - 1 + 1 /\ 1 + i - 1 = i
      BY <1>1
    <3>2. b[i] = line[1 + i - 1]
      BY <1>1, <1>2, <3>1, SubSeqProperties
    <3>3. QED
      BY <3>1, <3>2, Zenon
  <2>2. QED
    BY <2>1
<1>5. t = s \o b
  BY <1>2
<1>6. t \in Seq(Tokens) /\ Len(t) = Len(s) + j
  BY <1>3, <1>5, ConcatProperties
<1>7. ASSUME NEW i \in 1 .. Len(s) + j PROVE (s \o line)[i] = t[i]
  <2>1. t[i] = IF i <= Len(s) THEN s[i] ELSE b[i - Len(s)]
    BY <1>1, <1>3, <1>5
  <2>2. (s \o line)[i] = IF i <= Len(s) THEN s[i] ELSE line[i - Len(s)]
    BY <1>1
  <2>3. i > Len(s) => i - Len(s) \in 1..j
    BY <1>1
  <2>4. QED
    BY <1>1, <1>4, <2>1, <2>2, <2>3
<1>8. QED
  BY <1>6, <1>7 DEF Longer

(* The run of the definition over a text passes through what it makes of   *)
(* every beginning.                                                        *)
LEMMA MarkPasses ==
  ASSUME NEW s \in Seq(Tokens), NEW m, m = Len(s), NEW g, Run(g, MarkOp, MarkStart, s, m),
         NEW t \in Seq(Tokens), NEW n, n = Len(t), n <= m, Longer(s, t, n)
  PROVE  Passes(g, n, MarkAll(t))
<1>1. HasRun(Marks, MarkOp, MarkStart, t, n, MarkAll(t)) /\ n \in Nat /\ m \in Nat
  BY MarkRuns, LenProperties
<1>2. QED
  BY <1>1, RunPasses

(* What the definition says of a token of a line, in a file without the    *)
(* traits that fgetss() does not follow.                                   *)
LEMMA PlainToken ==
  ASSUME NEW n \in Names, NEW k \in 1 .. Len(Lines(n)), "query" \notin Traits(n), "bare" \notin Traits(n),
         NEW j \in 1 .. Len(Lines(n)[k]), NEW m, m = MarkAll(Text(n, k - 1) \o SubSeq(Lines(n)[k], 1, j - 1)),
         NEW t, t = Lines(n)[k][j]
  PROVE  ~(m.in = "tag" /\ t = "?") /\ ~(m.in = "text" /\ t = ">")
<1>1. ~Occurs(n, "tag", "?") /\ ~Occurs(n, "text", ">")
  BY DEF Traits
<1>2. DOMAIN Lines(n) = 1 .. Len(Lines(n)) /\ DOMAIN Lines(n)[k] = 1 .. Len(Lines(n)[k])
  BY FilesAssumption, TextNext, LenProperties
<1>3. k \in DOMAIN Lines(n) /\ j \in DOMAIN Lines(n)[k]
  BY <1>2
<1>4. ASSUME t = "?", m.in = "tag" PROVE FALSE
  BY <1>1, <1>3, <1>4, Zenon DEF Occurs
<1>5. ASSUME t = ">", m.in = "text" PROVE FALSE
  BY <1>1, <1>3, <1>5, Zenon DEF Occurs
<1>6. QED
  BY <1>4, <1>5

(* Where fgetss() may be when a line begins: st is what the lines before   *)
(* have left.                                                              *)
Entered(n, k, st) ==
  /\ Marked(n, k).in = "text" => st = 0
  /\ Marked(n, k).in \in {"first", "tag"} => st = 1
  /\ Marked(n, k).in \notin {"code", "string"}

(* A text is what came before, and a line; and one that ends in the line.  *)
Joins(text, s, a, line, m) ==
  /\ s \in Seq(Tokens) /\ a = Len(s) /\ line \in Seq(Tokens) /\ m = Len(line)
  /\ text = s \o line

EndsAt(t, s, line, j) == t = s \o SubSeq(line, 1, j)

LEMMA Joined ==
  ASSUME NEW text, NEW s, NEW a, NEW line, NEW m, Joins(text, s, a, line, m)
  PROVE  /\ text \in Seq(Tokens) /\ a \in Nat /\ m \in Nat /\ a + m \in Nat /\ Len(text) = a + m
         /\ Longer(text, s, a)
         /\ \A j \in 1..m : Passes(text, a + j, line[j])
<1>1. s \in Seq(Tokens) /\ line \in Seq(Tokens) /\ Len(s) \in Nat /\ Len(line) \in Nat
  BY LenProperties DEF Joins
<1>2. s \o line \in Seq(Tokens) /\ Len(s \o line) = Len(s) + Len(line)
  BY <1>1, ConcatProperties
<1>3. ASSUME NEW i \in 1 .. Len(s) PROVE (s \o line)[i] = s[i]
  BY <1>1, ConcatProperties
<1>4. ASSUME NEW j \in 1 .. Len(line) PROVE (s \o line)[Len(s) + j] = line[j]
  BY <1>1, ConcatProperties
<1>5. Longer(s \o line, s, Len(s)) /\ \A j \in 1 .. Len(line) : Passes(s \o line, Len(s) + j, line[j])
  BY <1>3, <1>4 DEF Longer, Passes
<1>6. Len(s) + Len(line) \in Nat
  BY <1>1
<1>7. QED
  BY <1>1, <1>2, <1>5, <1>6, Zenon DEF Joins

LEMMA EndsIn ==
  ASSUME NEW text, NEW s, NEW a, NEW line, NEW m, Joins(text, s, a, line, m),
         NEW j \in 0..m, NEW t, EndsAt(t, s, line, j)
  PROVE  t \in Seq(Tokens) /\ Len(t) = a + j /\ Longer(text, t, a + j)
<1>1. s \in Seq(Tokens) /\ line \in Seq(Tokens) /\ j \in 0 .. Len(line)
  BY DEF Joins
<1>2. /\ s \o SubSeq(line, 1, j) \in Seq(Tokens) /\ Len(s \o SubSeq(line, 1, j)) = Len(s) + j
      /\ Longer(s \o line, s \o SubSeq(line, 1, j), Len(s) + j)
  BY <1>1, BeginsWith
<1>3. QED
  BY <1>2, Zenon DEF Joins, EndsAt

(* fgetss() and the definition go through a line together.                 *)
LEMMA LineRead ==
  ASSUME NEW n \in Names, NEW k \in 1 .. Len(Lines(n)), "query" \notin Traits(n), "bare" \notin Traits(n),
         NEW st \in 0..2, Entered(n, k - 1, st)
  PROVE  Matches(Strip(st, Lines(n)[k]), Marked(n, k), Marked(n, k - 1).out)
<1>1. PICK before, a, line, m, text :
        /\ before = Text(n, k - 1) /\ line = Lines(n)[k] /\ text = Text(n, k)
        /\ Joins(text, before, a, line, m)
  BY TextNext DEF Joins
<1>2. before \in Seq(Tokens) /\ line \in Seq(Tokens) /\ Len(before) = a /\ Len(line) = m
  BY <1>1 DEF Joins
<1>3. /\ text \in Seq(Tokens) /\ a \in Nat /\ m \in Nat /\ Len(text) = a + m /\ a + m \in Nat
      /\ Longer(text, before, a) /\ \A j \in 1..m : Passes(text, a + j, line[j])
  BY <1>1, Joined
<1>4. PICK f \in [0..m -> Scans] : Run(f, ScanOp, ScanStart(st), line, m) /\ f[m] = Strip(st, line)
  BY <1>2, StripRuns DEF HasRun
<1>5. PICK g \in [0 .. a + m -> Marks] : Run(g, MarkOp, MarkStart, text, a + m) /\ g[a + m] = MarkAll(text)
  BY <1>3, MarkRuns DEF HasRun
<1>6. PICK start : start = MarkAll(before)
  OBVIOUS
<1>7. Marked(n, k - 1) = start /\ Marked(n, k) = MarkAll(text) /\ start \in Marks /\ Rests(start)
  BY <1>1, <1>2, <1>6, MarkAllRests DEF Marked
<1> DEFINE base == start.out
<1>8. base \in Seq(Tokens)
  BY <1>7 DEF Marks
<1>9. ASSUME NEW j \in 0..m, NEW t, EndsAt(t, before, line, j) PROVE g[a + j] = MarkAll(t)
  <2>1. t \in Seq(Tokens) /\ Len(t) = a + j /\ Longer(text, t, a + j)
    BY <1>1, <1>9, EndsIn
  <2>2. a + j <= a + m
    BY <1>3
  <2>3. Passes(g, a + j, MarkAll(t))
    BY <1>3, <1>5, <2>1, <2>2, MarkPasses
  <2>4. QED
    BY <2>3, Zenon DEF Passes
<1>10. g[a] = start
  <2>2. a <= a + m
    BY <1>3
  <2>3. Passes(g, a, start)
    BY <1>2, <1>3, <1>5, <1>6, <2>2, MarkPasses
  <2>4. QED
    BY <2>3, Zenon DEF Passes
<1> DEFINE P == {j \in 0..m : Matches(f[j], g[a + j], base)}
<1>11. 0 \in P
  <2>1. f[0] = ScanStart(st) /\ a + 0 = a /\ 0 \in 0..m
    BY <1>3, <1>4 DEF Run
  <2>2. base \o <<>> = base
    BY <1>8, ConcatEmptySeq
  <2>3. ScanStart(st).st = st /\ ScanStart(st).lc = "none" /\ ScanStart(st).out = <<>>
    BY DEF ScanStart
  <2>4. /\ start.in = "text" => st = 0
        /\ start.in \in {"first", "tag"} => st = 1
        /\ start.in \notin {"code", "string"}
    BY <1>7 DEF Entered
  <2>5. start.in \in {"text", "first", "tag"} => start.open = 0
    BY <1>7 DEF Rests
  <2>6. Matches(ScanStart(st), start, base)
    BY <2>2, <2>3, <2>4, <2>5 DEF Matches
  <2>7. QED
    BY <1>10, <2>1, <2>6
<1>12. ASSUME NEW j \in 1..m, j - 1 \in P PROVE j \in P
  <2>1. j \in 0..m /\ j - 1 \in 0..m /\ a + (j - 1) \in 0 .. a + m /\ a + j \in 1 .. a + m /\ (a + j) - 1 = a + (j - 1)
    BY <1>3
  <2>2. PICK s, c, t : s = f[j - 1] /\ c = g[a + (j - 1)] /\ t = line[j]
    OBVIOUS
  <2>3. s \in Scans /\ c \in Marks /\ t \in Tokens /\ Matches(s, c, base)
    BY <1>2, <1>12, <2>1, <2>2, ElementOfSeq
  <2>4. text[a + j] = t
    BY <1>3, <2>2, Zenon DEF Passes
  <2>5. f[j] = Scan(s, t)
    <3>1. f[j] = ScanOp[<<f[j - 1], line[j]>>]
      BY <1>4 DEF Run
    <3>2. QED
      BY <2>2, <2>3, <3>1, ScanOps
  <2>6. g[a + j] = Mark(c, t)
    <3>1. g[a + j] = MarkOp[<<g[(a + j) - 1], text[a + j]>>]
      <4>1. \A i \in 1 .. a + m : g[i] = MarkOp[<<g[i - 1], text[i]>>]
        BY <1>5, Zenon DEF Run
      <4>2. QED
        BY <2>1, <4>1, Zenon
    <3>2. QED
      BY <2>1, <2>2, <2>3, <2>4, <3>1, MarkOps
  <2>7. ~(c.in = "tag" /\ t = "?") /\ ~(c.in = "text" /\ t = ">")
    <3>1. c = MarkAll(Text(n, k - 1) \o SubSeq(Lines(n)[k], 1, j - 1))
      BY <1>1, <1>9, <2>1, <2>2, Zenon DEF EndsAt
    <3>2. QED
      BY <1>1, <1>2, <2>2, <3>1, PlainToken
  <2>8. Matches(Scan(s, t), Mark(c, t), base)
    BY <1>8, <2>3, <2>7, ScanMarks
  <2>9. QED
    BY <2>1, <2>5, <2>6, <2>8
<1>13. \A j \in 0..m : j \in P
  <2> HIDE DEF P
  <2>1. QED
    BY <1>3, <1>11, <1>12, Upward
<1>14. Matches(f[m], g[a + m], base)
  BY <1>3, <1>13
<1>15. QED
  BY <1>1, <1>4, <1>5, <1>7, <1>14

-----------------------------------------------------------------------------
(* Where the streams of a page are, and fgetss() with them. *)

Sober == Avoids({"wanders", "query", "spread", "bare"})

(* A stream of which fgetss() has stopped in a tag is in it, and every     *)
(* other one is at a place in the text.                                    *)
Reads(e, in, state) ==
  IF e.gen = in THEN e.line < Len(Lines(e.name)) => state = 1 /\ Marked(e.name, e.line).in \in {"first", "tag"}
                ELSE InText(e.name, e.line)

OneStream == \A i, j \in DOMAIN fps : fps[i].gen = fps[j].gen => fps[i].id = fps[j].id
Placed  == \A i \in DOMAIN fps : Reads(fps[i], inTag, tag)

TagInv == Sober => read.got = read.due /\ (inTag = 0 => tag = 0) /\ OneStream /\ Placed

Same(d, e) == d.id = e.id /\ d.name = e.name /\ d.line = e.line /\ d.gen = e.gen

(* Every entry of the next list is one of this list.                       *)
Fewer == \A i \in DOMAIN fps' : \E j \in DOMAIN fps : Same(fps'[i], fps[j])

LEMMA SameReads ==
  ASSUME NEW d, NEW e, Same(d, e), NEW in, NEW state, Reads(e, in, state)
  PROVE  Reads(d, in, state)
<1>1. d.gen = e.gen /\ d.line = e.line /\ d.name = e.name
  BY DEF Same
<1>2. QED
  BY <1>1, Zenon DEF Reads

LEMMA TagsFewer ==
  ASSUME TagInv, habits' = habits, tag' = tag, inTag' = inTag, read' = read, Fewer
  PROVE  TagInv'
<1>1. Sober' <=> Sober
  BY DEF Sober, Avoids
<1>2. ASSUME Sober PROVE OneStream' /\ Placed'
  <2>1. OneStream /\ Placed
    BY <1>2 DEF TagInv
  <2>2. ASSUME NEW i \in DOMAIN fps', NEW j \in DOMAIN fps', fps'[i].gen = fps'[j].gen
        PROVE  fps'[i].id = fps'[j].id
    <3>1. PICK a \in DOMAIN fps, b \in DOMAIN fps : Same(fps'[i], fps[a]) /\ Same(fps'[j], fps[b])
      BY DEF Fewer
    <3>2. QED
      BY <2>1, <2>2, <3>1 DEF OneStream, Same
  <2>3. ASSUME NEW i \in DOMAIN fps' PROVE Reads(fps'[i], inTag, tag)
    <3>1. PICK a \in DOMAIN fps : Same(fps'[i], fps[a])
      BY DEF Fewer
    <3>2. QED
      BY <2>1, <3>1, SameReads DEF Placed
  <2>4. OneStream'
    BY <2>2 DEF OneStream
  <2>5. ASSUME NEW i \in DOMAIN fps' PROVE Reads(fps[i], inTag, tag)'
    <3>1. Reads(fps'[i], inTag, tag)
      BY <2>3
    <3>2. QED
      BY <3>1, Zenon DEF Reads, Marked, InText
  <2>6. QED
    BY <2>4, <2>5 DEF Placed
<1>3. QED
  BY <1>1, <1>2 DEF TagInv

LEMMA FewerSame ==
  ASSUME fps' = fps
  PROVE  Fewer
<1>1. \A i \in DOMAIN fps' : i \in DOMAIN fps /\ Same(fps'[i], fps[i])
  BY DEF Same
<1>2. QED
  BY <1>1 DEF Fewer

LEMMA FewerDeleted ==
  ASSUME TypeOK, NEW id, Uses(id), fps' = FpDel(id)
  PROVE  Fewer
<1> DEFINE k == FpAt(id)
           r == RemoveAt(fps, k)
<1>1. k \in DOMAIN fps
  BY FpAtIs
<1> HIDE DEF k
<1>2. /\ fps \in Seq(Entries) /\ DOMAIN fps = 1..Len(fps) /\ Len(fps) \in Nat
  BY ListTyped
<1>3. /\ DOMAIN r = 1 .. Len(fps) - 1
      /\ \A i \in 1 .. k - 1 : r[i] = fps[i] /\ i \in DOMAIN r
      /\ \A i \in k + 1 .. Len(fps) : r[i - 1] = fps[i] /\ i - 1 \in DOMAIN r
  BY <1>1, <1>2, TakenOut, Zenon
<1> HIDE DEF r
<1>4. ASSUME NEW i \in DOMAIN r PROVE \E j \in DOMAIN fps : r[i] = fps[j]
  <2>1. CASE i < k
    <3>1. i \in 1 .. k - 1 /\ i \in DOMAIN fps
      BY <1>1, <1>2, <1>3, <1>4, <2>1
    <3>2. QED
      BY <1>3, <3>1
  <2>2. CASE ~(i < k)
    <3>1. i + 1 \in k + 1 .. Len(fps) /\ i + 1 \in DOMAIN fps /\ (i + 1) - 1 = i
      BY <1>1, <1>2, <1>3, <1>4, <2>2
    <3>2. QED
      BY <1>3, <3>1
  <2>3. QED
    BY <2>1, <2>2
<1>5. fps' = r
  BY DEF FpDel, r, k
<1>6. \A d : Same(d, d)
  BY DEF Same
<1>7. QED
  BY <1>4, <1>5, <1>6 DEF Fewer

LEMMA FewerWritten ==
  ASSUME FileInv, NEW id, Uses(id), fps' = FpSet(id, [FpFind(id) EXCEPT !.dirty = TRUE])
  PROVE  Fewer
<1> DEFINE k == FpAt(id)
<1>1. TypeOK
  BY DEF FileInv
<1>2. k \in DOMAIN fps /\ fps[k] \in Entries
  BY <1>1, FpAtIs, ListTyped
<1>3. fps' = [fps EXCEPT ![k] = [fps[k] EXCEPT !.dirty = TRUE]]
  BY DEF FpSet, FpFind
<1> HIDE DEF k
<1>4. Same([fps[k] EXCEPT !.dirty = TRUE], fps[k])
  BY <1>2 DEF Entries, Same
<1>5. \A d : Same(d, d)
  BY DEF Same
<1>6. \A i \in DOMAIN fps' : i \in DOMAIN fps /\ Same(fps'[i], fps[i])
  BY <1>2, <1>3, <1>4, <1>5
<1>7. QED
  BY <1>6 DEF Fewer

(* Before its first line a file is in text.                                *)
LEMMA TextStarts ==
  ASSUME NEW n
  PROVE  InText(n, 0)
<1>1. SubSeq(Lines(n), 1, 0) = <<>>
  BY SubSeqEmpty
<1>2. <<>> \in Seq(Seq(Tokens)) /\ <<>> \in Seq(Tokens) /\ Len(<<>>) = 0
  OBVIOUS
<1>3. Text(n, 0) = <<>>
  <2>1. Text(n, 0) = FoldLeft(LAMBDA all, line : all \o line, <<>>, <<>>)
    BY <1>1, Zenon DEF Text
  <2>2. HasRun(Seq(Tokens), JoinOp, <<>>, <<>>, 0, Text(n, 0))
    <3>1. HasRun(Seq(Tokens), JoinOp, <<>>, <<>>, Len(<<>>), FoldLeft(LAMBDA all, line : all \o line, <<>>, <<>>))
      BY <1>2, JoinRuns
    <3>2. QED
      BY <1>2, <2>1, <3>1
  <2>3. QED
    BY <2>2 DEF HasRun, Run
<1>4. HasRun(Marks, MarkOp, MarkStart, <<>>, 0, MarkAll(<<>>))
  BY <1>2, MarkRuns
<1>5. MarkAll(<<>>) = MarkStart
  BY <1>4 DEF HasRun, Run
<1>6. MarkStart.in = "text"
  BY DEF MarkStart
<1>7. QED
  BY <1>3, <1>5, <1>6 DEF InText, Marked

(* A new stream begins in text.                                            *)
LEMMA TagsPushed ==
  ASSUME FileInv, TagInv, habits' = habits, read' = read, NEW n \in Names, NEW kind \in Kinds, FpPush(n, kind),
         \/ tag' = tag /\ inTag' = inTag
         \/ tag' = 0 /\ inTag' = 0 /\ (Sober => inTag \notin {e.gen : e \in Range0(fps)})
  PROVE  TagInv'
<1> DEFINE g == NewGen
           e == [id |-> Lowest, name |-> n, kind |-> kind, line |-> 0, dirty |-> FALSE, gen |-> g]
<1>1. TypeOK /\ ListInv /\ CanOpen /\ MaxFd \in Nat \ {0}
  BY FilesAssumption DEF FileInv, FpPush
<1>2. Lowest \in Fds
  BY <1>1, LowestIs
<1>3. g \in Gens /\ (\A i \in DOMAIN fps : fps[i].gen # g) /\ g # inTag
  BY <1>1, NewGenIs
<1>4. fps' = <<e>> \o fps
  BY DEF FpPush
<1> HIDE DEF g
<1>5. e \in Entries /\ e.gen = g /\ e.name = n /\ e.line = 0
  BY <1>2, <1>3 DEF Entries
<1>6. fps \in Seq(Entries) /\ DOMAIN fps = 1..Len(fps) /\ Len(fps) \in Nat
  BY <1>1, ListTyped
<1> HIDE DEF e
<1>7. /\ DOMAIN fps' = 1 .. Len(fps) + 1 /\ fps'[1] = e
      /\ \A i \in 1..Len(fps) : fps'[i + 1] = fps[i]
  <2>1. ASSUME NEW s \in Seq(Entries), NEW q, q = <<e>> \o s
        PROVE  /\ DOMAIN q = 1 .. Len(s) + 1
               /\ q[1] = e /\ \A i \in 1 .. Len(s) : q[i + 1] = s[i]
    <3>1. e \in Entries
      BY <1>5
    <3>2. QED
      BY <2>1, <3>1, Pushed
  <2>2. QED
    BY <1>4, <1>6, <2>1, Zenon
<1>8. ASSUME NEW i \in DOMAIN fps', i # 1 PROVE \E j \in DOMAIN fps : fps'[i] = fps[j]
  <2>1. i - 1 \in 1..Len(fps) /\ (i - 1) + 1 = i
    BY <1>6, <1>7, <1>8
  <2>2. fps'[i] = fps[i - 1]
    BY <1>7, <2>1
  <2>3. QED
    BY <1>6, <2>1, <2>2
<1>9. Sober' <=> Sober
  BY DEF Sober, Avoids
<1>10. ASSUME Sober PROVE OneStream' /\ Placed' /\ (inTag' = 0 => tag' = 0) /\ read'.got = read'.due
  <2>1. OneStream /\ Placed /\ (inTag = 0 => tag = 0) /\ read.got = read.due
    BY <1>10 DEF TagInv
  <2>2. ASSUME NEW i \in DOMAIN fps', NEW j \in DOMAIN fps', fps'[i].gen = fps'[j].gen
        PROVE  fps'[i].id = fps'[j].id
    <3>1. CASE i = 1 /\ j = 1
      BY <3>1
    <3>2. CASE i = 1 /\ j # 1
      BY <1>3, <1>5, <1>7, <1>8, <2>2, <3>2
    <3>3. CASE i # 1 /\ j = 1
      BY <1>3, <1>5, <1>7, <1>8, <2>2, <3>3
    <3>4. CASE i # 1 /\ j # 1
      <4>1. PICK a \in DOMAIN fps, b \in DOMAIN fps : fps'[i] = fps[a] /\ fps'[j] = fps[b]
        BY <1>8, <3>4
      <4>2. QED
        BY <2>1, <2>2, <4>1 DEF OneStream
    <3>5. QED
      BY <3>1, <3>2, <3>3, <3>4
  <2>3. ASSUME NEW d, NEW in, NEW state, d.gen # in, InText(d.name, d.line) PROVE Reads(d, in, state)
    BY <2>3 DEF Reads
  <2>4. e.gen # inTag' /\ InText(e.name, e.line)
    <3>1. e.gen # inTag /\ e.gen # 0
      BY <1>3, <1>5 DEF Gens
    <3>2. QED
      BY <1>5, <3>1, TextStarts
  <2>5. ASSUME NEW a \in DOMAIN fps PROVE Reads(fps[a], inTag', tag')
    <3>1. CASE tag' = tag /\ inTag' = inTag
      BY <2>1, <3>1 DEF Placed
    <3>2. CASE tag' = 0 /\ inTag' = 0 /\ inTag \notin {c.gen : c \in Range0(fps)}
      <4>1. fps[a].gen # inTag /\ fps[a].gen # 0
        <5>1. fps[a].gen \in Gens /\ fps[a] \in Range0(fps)
          BY <1>1, ListTyped DEF Range0
        <5>2. QED
          BY <3>2, <5>1 DEF Gens
      <4>2. InText(fps[a].name, fps[a].line)
        BY <2>1, <4>1 DEF Placed, Reads
      <4>3. QED
        BY <2>3, <3>2, <4>1, <4>2
    <3>3. QED
      BY <1>10, <3>1, <3>2
  <2>6. ASSUME NEW i \in DOMAIN fps' PROVE Reads(fps'[i], inTag', tag')
    <3>1. CASE i = 1
      BY <1>7, <2>3, <2>4, <3>1
    <3>2. CASE i # 1
      BY <1>8, <2>5, <3>2
    <3>3. QED
      BY <3>1, <3>2
  <2>7. OneStream'
    BY <2>2 DEF OneStream
  <2>8. Placed'
    BY <2>6, Zenon DEF Placed, Reads, Marked, InText
  <2>9. QED
    BY <2>1, <2>7, <2>8
<1>11. QED
  BY <1>9, <1>10 DEF TagInv

(* A stream is moved from one place in the text to another.                *)
LEMMA TagsMoved ==
  ASSUME FileInv, TagInv, habits' = habits, tag' = tag, inTag' = inTag, read' = read, NEW id, Uses(id),
         NEW line \in Nat, Moves(FpFind(id), line), fps' = FpSet(id, [FpFind(id) EXCEPT !.line = line])
  PROVE  TagInv'
<1> DEFINE k == FpAt(id)
           e == fps[k]
           c == [e EXCEPT !.line = line]
<1>1. TypeOK
  BY DEF FileInv
<1>2. k \in DOMAIN fps /\ fps[k] \in Entries
  BY <1>1, FpAtIs, ListTyped
<1>3. fps' = [fps EXCEPT ![k] = c] /\ Moves(fps[k], line)
  BY DEF FpSet, FpFind
<1> HIDE DEF k
<1>4. c.id = e.id /\ c.name = e.name /\ c.gen = e.gen /\ c.line = line
  BY <1>2 DEF Entries
<1> HIDE DEF c
<1>5. DOMAIN fps' = DOMAIN fps /\ fps'[k] = c /\ \A i \in DOMAIN fps : i # k => fps'[i] = fps[i]
  BY <1>2, <1>3
<1>6. Sober' <=> Sober
  BY DEF Sober, Avoids
<1>7. ASSUME Sober PROVE OneStream' /\ Placed'
  <2>1. OneStream /\ Placed
    BY <1>7 DEF TagInv
  <2>2. \A i \in DOMAIN fps' : i \in DOMAIN fps /\ fps'[i].id = fps[i].id /\ fps'[i].gen = fps[i].gen
    BY <1>2, <1>4, <1>5
  <2>3. OneStream'
    BY <2>1, <2>2 DEF OneStream
  <2>4. c.gen # inTag /\ InText(c.name, c.line)
    BY <1>3, <1>4, <1>7 DEF Moves, Sober, Avoids
  <2>5. Reads(c, inTag, tag)
    BY <2>4 DEF Reads
  <2>6. ASSUME NEW i \in DOMAIN fps' PROVE Reads(fps'[i], inTag, tag)
    BY <1>5, <2>1, <2>5 DEF Placed
  <2>7. Placed'
    BY <2>6, Zenon DEF Placed, Reads, Marked, InText
  <2>8. QED
    BY <2>3, <2>7
<1>8. QED
  BY <1>6, <1>7 DEF TagInv

(* What is left of a sequence after its beginning.                         *)
LEMMA AfterBase ==
  ASSUME NEW b \in Seq(Tokens), NEW o \in Seq(Tokens), NEW q, q = b \o o
  PROVE  SubSeq(q, Len(b) + 1, Len(q)) = o
<1> DEFINE m == Len(b)
           n == Len(o)
           p == b \o o
           r == SubSeq(p, m + 1, m + n)
<1>1. m \in Nat /\ n \in Nat
  BY LenProperties
<1>2. p \in Seq(Tokens) /\ Len(p) = m + n /\ \A i \in 1 .. m + n : p[i] = IF i <= m THEN b[i] ELSE o[i - m]
  BY ConcatProperties
<1> HIDE DEF m, n, p
<1>3. \A i \in m + 1 .. m + n : p[i] \in Tokens
  <2>1. ASSUME NEW i \in m + 1 .. m + n PROVE p[i] \in Tokens
    <3>1. i \in 1 .. Len(p)
      BY <1>1, <1>2
    <3>2. QED
      BY <1>2, <3>1, ElementOfSeq
  <2>2. QED
    BY <2>1
<1>4. m + 1 \in Int /\ m + n \in Int
  BY <1>1
<1>5. /\ r \in Seq(Tokens) /\ Len(r) = IF m + 1 <= m + n THEN (m + n) - (m + 1) + 1 ELSE 0
      /\ \A i \in 1 .. (m + n) - (m + 1) + 1 : r[i] = p[(m + 1) + i - 1]
  BY <1>3, <1>4, SubSeqProperties
<1> HIDE DEF r
<1>6. Len(r) = n
  BY <1>1, <1>5
<1>7. ASSUME NEW i \in 1..n PROVE r[i] = o[i]
  <2>1. i \in 1 .. (m + n) - (m + 1) + 1 /\ (m + 1) + i - 1 = m + i /\ m + i \in 1 .. m + n /\ ~(m + i <= m) /\ (m + i) - m = i
    BY <1>1
  <2>2. r[i] = p[(m + 1) + i - 1]
    BY <1>5, <2>1
  <2>3. QED
    BY <1>2, <2>1, <2>2
<1>8. o \in Seq(Tokens) /\ Len(o) = n
  BY DEF n
<1>9. r = o
  BY <1>5, <1>6, <1>7, <1>8, SeqEqual
<1>10. QED
  BY <1>2, <1>9, Zenon DEF r, m, p

(* What fgetss() is due to return of a line, it returns.                   *)
LEMMA LineDue ==
  ASSUME NEW n \in Names, NEW k \in 1 .. Len(Lines(n)), "query" \notin Traits(n), "bare" \notin Traits(n),
         NEW st \in 0..2, Entered(n, k - 1, st), NEW r, r = Strip(st, Lines(n)[k])
  PROVE  /\ r.out = DueText(n, k)
         /\ InText(n, k) => r.st = 0
         /\ Marked(n, k).in \in {"first", "tag"} => r.st = 1
<1>1. Text(n, k - 1) \in Seq(Tokens) /\ Lines(n)[k] \in Seq(Tokens)
  BY TextNext
<1>2. r \in Scans
  BY <1>1, StripTyped
<1>3. r.out \in Seq(Tokens)
  BY <1>2 DEF Scans
<1>4. PICK b : b = Marked(n, k - 1).out
  OBVIOUS
<1>5. b \in Seq(Tokens)
  <2>1. Marked(n, k - 1) \in Marks
    BY <1>1, MarkAllRests DEF Marked
  <2>2. QED
    BY <1>4, <2>1 DEF Marks
<1>6. Matches(r, Marked(n, k), b)
  BY <1>4, LineRead
<1>7. PICK q, o : q = Marked(n, k).out /\ o = r.out
  OBVIOUS
<1>8. q = b \o o /\ o \in Seq(Tokens)
  BY <1>3, <1>6, <1>7 DEF Matches
<1>9. SubSeq(q, Len(b) + 1, Len(q)) = o
  BY <1>5, <1>8, AfterBase
<1>10. DueText(n, k) = o
  BY <1>4, <1>7, <1>9, Zenon DEF DueText
<1>11. QED
  BY <1>6, <1>7, <1>10 DEF Matches, InText

LEMMA TagsRead ==
  ASSUME FileInv, TagInv, NEW id \in Fds, Fgetss(id)
  PROVE  TagInv'
<1> DEFINE k == FpAt(id)
           e == fps[k]
           line == e.line + 1
           c == [e EXCEPT !.line = line]
           r == Strip(tag, Lines(e.name)[line])
<1>1. TypeOK /\ Distinct /\ tag \in 0..2
  BY DEF FileInv, ListInv, TypeOK
<1>2. Uses(id) /\ habits' = habits
  BY DEF Fgetss, fixed
<1>3. k \in DOMAIN fps /\ e \in Entries
  BY <1>1, <1>2, FpAtIs, ListTyped
<1>4. FpFind(id) = e
  BY DEF FpFind
<1>5. /\ e.line < Len(Lines(e.name)) /\ Traits(e.name) \subseteq habits
      /\ inTag \notin {0, e.gen} => "wanders" \in habits
      /\ tag' = r.st /\ read' = [got |-> r.out, due |-> DueText(e.name, line)]
      /\ inTag' = IF InText(e.name, line) THEN 0 ELSE e.gen
      /\ fps' = FpSet(id, c)
  BY <1>4, Zenon DEF Fgetss
<1>6. fps' = [fps EXCEPT ![k] = c]
  BY <1>5 DEF FpSet
<1> HIDE DEF k
<1>7. e.line \in Nat /\ e.name \in Names /\ e.gen \in Gens /\ e.gen # 0
  BY <1>3 DEF Entries, Gens
<1>8. c.id = e.id /\ c.name = e.name /\ c.gen = e.gen /\ c.line = line
  BY <1>3 DEF Entries
<1> HIDE DEF c
<1>9. DOMAIN fps' = DOMAIN fps /\ fps'[k] = c /\ \A i \in DOMAIN fps : i # k => fps'[i] = fps[i]
  BY <1>3, <1>6
<1>10. PICK n, m, g : n = e.name /\ m = e.line /\ g = e.gen
  OBVIOUS
<1>11. n \in Names /\ m \in Nat /\ m < Len(Lines(n)) /\ g # 0 /\ line = m + 1 /\ (m + 1) - 1 = m
  BY <1>5, <1>7, <1>10
<1>12. Len(Lines(n)) \in Nat
  BY <1>11, FilesAssumption, LenProperties
<1>13. m + 1 \in 1 .. Len(Lines(n))
  BY <1>11, <1>12
<1>14. Sober' <=> Sober
  BY <1>2 DEF Sober, Avoids
<1>15. ASSUME Sober PROVE OneStream' /\ Placed' /\ (inTag' = 0 => tag' = 0) /\ read'.got = read'.due
  <2>1. OneStream /\ Placed /\ (inTag = 0 => tag = 0)
    BY <1>15 DEF TagInv
  <2>2. inTag \in {0, g} /\ "query" \notin Traits(n) /\ "bare" \notin Traits(n) /\ "spread" \notin Traits(n)
    BY <1>5, <1>10, <1>15 DEF Sober, Avoids
  <2>3. Entered(n, m, tag)
    <3>1. Reads(e, inTag, tag)
      BY <1>3, <2>1 DEF Placed
    <3>2. CASE g = inTag
      <4>1. tag = 1 /\ Marked(n, m).in \in {"first", "tag"}
        BY <1>10, <1>11, <3>1, <3>2 DEF Reads
      <4>2. QED
        BY <4>1 DEF Entered
    <3>3. CASE g # inTag
      <4>1. tag = 0 /\ Marked(n, m).in = "text"
        BY <1>10, <2>1, <2>2, <3>1, <3>3 DEF Reads, InText
      <4>2. QED
        BY <4>1 DEF Entered
    <3>4. QED
      BY <3>2, <3>3
  <2>4. r = Strip(tag, Lines(n)[m + 1])
    BY <1>10, <1>11, Zenon
  <2> HIDE DEF r
  <2>5. /\ r.out = DueText(n, m + 1)
        /\ InText(n, m + 1) => r.st = 0
        /\ Marked(n, m + 1).in \in {"first", "tag"} => r.st = 1
    <3>1. PICK j : j = m + 1 /\ j \in 1 .. Len(Lines(n)) /\ j - 1 = m
      BY <1>11, <1>13
    <3>2. Entered(n, j - 1, tag) /\ r = Strip(tag, Lines(n)[j])
      BY <2>3, <2>4, <3>1
    <3>3. /\ r.out = DueText(n, j)
          /\ InText(n, j) => r.st = 0
          /\ Marked(n, j).in \in {"first", "tag"} => r.st = 1
      BY <1>1, <1>11, <2>2, <3>1, <3>2, LineDue
    <3>4. QED
      BY <3>1, <3>3
  <2>6. read'.got = read'.due
    BY <1>5, <1>10, <1>11, <2>5
  <2>7. inTag' = (IF InText(n, m + 1) THEN 0 ELSE g) /\ tag' = r.st
    BY <1>5, <1>10, <1>11
  <2>8. inTag' = 0 => tag' = 0
    BY <1>11, <2>5, <2>7
  <2>9. c.name = n /\ c.gen = g /\ c.line = m + 1
    BY <1>8, <1>10, <1>11
  <2>10. Reads(c, inTag', tag')
    <3>1. CASE InText(n, m + 1)
      BY <1>11, <2>7, <2>9, <3>1 DEF Reads
    <3>2. CASE ~InText(n, m + 1)
      <4>1. ASSUME m + 1 < Len(Lines(n)) PROVE Marked(n, m + 1).in \in {"first", "tag"}
        <5>1. m + 1 \in 1 .. Len(Lines(n)) - 1
          BY <1>11, <1>12, <4>1
        <5>2. Marked(n, m + 1).in \notin {"code", "string"}
          BY <2>2, <5>1 DEF Traits
        <5>3. Marked(n, m + 1) \in Marks
          <6>1. PICK j \in 1 .. Len(Lines(n)) : j = m + 1
            BY <1>13
          <6>2. Text(n, j - 1) \in Seq(Tokens) /\ Lines(n)[j] \in Seq(Tokens) /\ Text(n, j) = Text(n, j - 1) \o Lines(n)[j]
            BY <1>11, <6>1, TextNext
          <6>3. Text(n, j) \in Seq(Tokens)
            BY <6>2, ConcatProperties
          <6>4. QED
            BY <6>1, <6>3, MarkAllRests DEF Marked
        <5>4. Marked(n, m + 1).in \in {"text", "first", "tag", "code", "string"}
          BY <5>3 DEF Marks
        <5>5. Marked(n, m + 1).in # "text"
          BY <3>2 DEF InText
        <5>6. QED
          BY <5>2, <5>4, <5>5
      <4>2. m + 1 < Len(Lines(n)) => tag' = 1 /\ Marked(n, m + 1).in \in {"first", "tag"}
        BY <2>5, <2>7, <4>1
      <4>3. QED
        BY <2>7, <2>9, <3>2, <4>2 DEF Reads
    <3>3. QED
      BY <3>1, <3>2
  <2>11. ASSUME NEW i \in DOMAIN fps, i # k PROVE Reads(fps[i], inTag', tag')
    <3>1. fps[i].gen # g
      BY <1>1, <1>3, <1>10, <2>1, <2>11 DEF OneStream, Distinct
    <3>2. fps[i].gen # 0
      BY <1>1, ListTyped DEF Gens
    <3>3. InText(fps[i].name, fps[i].line)
      BY <2>1, <2>2, <3>1, <3>2 DEF Placed, Reads
    <3>4. fps[i].gen # inTag'
      BY <2>7, <3>1, <3>2
    <3>5. QED
      BY <3>3, <3>4 DEF Reads
  <2>12. ASSUME NEW i \in DOMAIN fps' PROVE Reads(fps'[i], inTag', tag')
    BY <1>9, <2>10, <2>11
  <2>13. Placed'
    BY <2>12, Zenon DEF Placed, Reads, Marked, InText
  <2>14. \A i \in DOMAIN fps' : i \in DOMAIN fps /\ fps'[i].id = fps[i].id /\ fps'[i].gen = fps[i].gen
    BY <1>3, <1>8, <1>9
  <2>15. OneStream'
    BY <2>1, <2>14 DEF OneStream
  <2>16. QED
    BY <2>6, <2>8, <2>13, <2>15
<1>16. QED
  BY <1>14, <1>15 DEF TagInv

LEMMA TagsForgotten ==
  ASSUME Forget
  PROVE  TagInv'
<1>1. fps' = <<>> /\ tag' = 0 /\ inTag' = 0 /\ read' = [got |-> <<>>, due |-> <<>>]
  BY DEF Forget
<1>2. DOMAIN fps' = {} /\ read'.got = read'.due
  BY <1>1
<1>3. OneStream' /\ Placed'
  BY <1>2 DEF OneStream, Placed
<1>4. QED
  BY <1>1, <1>2, <1>3 DEF TagInv

LEMMA TagsStep ==
  ASSUME FileInv, TagInv, [FilesNext]_filesVars
  PROVE  TagInv'
<1>1. TypeOK
  BY DEF FileInv
<1>2. CASE UNCHANGED filesVars
  <2>1. fps' = fps /\ tag' = tag /\ inTag' = inTag /\ read' = read /\ habits' = habits
    BY <1>2 DEF filesVars
  <2>2. QED
    BY <2>1, FewerSame, TagsFewer
<1>3. ASSUME NEW n \in Names,
             \/ ChMod(n) \/ Unlink(n) \/ FileFunc(n) \/ FSockRefused \/ \E m \in Names : Rename(m, n)
      PROVE  TagInv'
  <2>1. fps' = fps /\ tag' = tag /\ inTag' = inTag /\ read' = read /\ habits' = habits
    BY <1>3 DEF ChMod, Unlink, FileFunc, FSockRefused, Rename, tags, fixed
  <2>2. QED
    BY <2>1, FewerSame, TagsFewer
<1>4. ASSUME NEW n \in Names, Fopen(n) \/ FopenToWrite(n) PROVE TagInv'
  <2>1. /\ FpPush(n, "file") /\ tag' = 0 /\ inTag' = 0 /\ read' = read /\ habits' = habits
        /\ inTag \in {e.gen : e \in Range0(fps)} => "wanders" \in habits
    BY <1>4 DEF Fopen, FopenToWrite, fixed
  <2>2. Sober => inTag \notin {e.gen : e \in Range0(fps)}
    BY <2>1 DEF Sober, Avoids
  <2>3. "file" \in Kinds
    BY DEF Kinds
  <2>4. QED
    BY <2>1, <2>2, <2>3, TagsPushed
<1>5. ASSUME NEW n \in Names, Popen(n) \/ FSockOpen(n) PROVE TagInv'
  <2>1. PICK kind \in Kinds : FpPush(n, kind)
    BY <1>5 DEF Popen, FSockOpen, Kinds
  <2>2. tag' = tag /\ inTag' = inTag /\ read' = read /\ habits' = habits
    BY <1>5 DEF Popen, FSockOpen, tags, fixed
  <2>3. QED
    BY <2>1, <2>2, TagsPushed
<1>6. ASSUME NEW id \in Fds, Fclose(id) \/ Pclose(id) PROVE TagInv'
  <2>1. Uses(id) /\ fps' = FpDel(id) /\ tag' = tag /\ inTag' = inTag /\ read' = read /\ habits' = habits
    BY <1>6 DEF Fclose, Pclose, CloseEntry, tags, fixed
  <2>2. QED
    BY <1>1, <2>1, FewerDeleted, TagsFewer
<1>7. ASSUME NEW id \in Fds, Fputs(id) PROVE TagInv'
  <2>1. /\ Uses(id) /\ fps' = FpSet(id, [FpFind(id) EXCEPT !.dirty = TRUE])
        /\ tag' = tag /\ inTag' = inTag /\ read' = read /\ habits' = habits
    BY <1>7 DEF Fputs, tags, fixed
  <2>2. QED
    BY <2>1, FewerWritten, TagsFewer
<1>8. ASSUME NEW id \in Fds, Fgets(id) \/ \E k \in 0..2 : Fseek(id, k) PROVE TagInv'
  <2>1. Uses(id) /\ tag' = tag /\ inTag' = inTag /\ read' = read /\ habits' = habits
    BY <1>8 DEF Fgets, Fseek, tags, fixed
  <2>2. FpFind(id) \in Entries
    BY <2>1, FoundTyped
  <2>3. FpFind(id).line + 1 \in Nat
    BY <2>2 DEF Entries
  <2>4. \E line \in Nat : Moves(FpFind(id), line) /\ fps' = FpSet(id, [FpFind(id) EXCEPT !.line = line])
    <3>1. CASE Fgets(id)
      BY <2>3, <3>1 DEF Fgets
    <3>2. CASE \E k \in 0..2 : Fseek(id, k)
      BY <3>2 DEF Fseek
    <3>3. QED
      BY <1>8, <3>1, <3>2
  <2>5. QED
    BY <2>1, <2>4, TagsMoved
<1>9. ASSUME EndOfProcess \/ EndOfRequest PROVE TagInv'
  BY <1>9, TagsForgotten DEF EndOfProcess, EndOfRequest
<1>10. CASE FilesNext
  <2>1. \E n : n \in Names
    BY FilesAssumption
  <2>2. FSockRefused => TagInv'
    BY <1>3, <2>1
  <2>3. QED
    BY <1>3, <1>4, <1>5, <1>6, <1>7, <1>8, <1>9, <1>10, <2>2, TagsRead DEF FilesNext
<1>11. QED
  BY <1>2, <1>10

(* fgetss() returns the text outside of tags and code, line by line, if no *)
(* other file is read meanwhile, and there is no ? in a tag, no code over  *)
(* several lines and no > in the text (file.c:831-893).                    *)
THEOREM TagsAreStripped == FilesSpec => []TagsStripped
<1>1. FilesInit => TagInv
  <2>1. ASSUME FilesInit PROVE TagInv
    <3>1. fps = <<>> /\ tag = 0 /\ inTag = 0 /\ read = [got |-> <<>>, due |-> <<>>]
      BY <2>1 DEF FilesInit
    <3>2. DOMAIN fps = {} /\ read.got = read.due
      BY <3>1
    <3>3. QED
      BY <3>1, <3>2 DEF TagInv, OneStream, Placed
  <2>2. QED
    BY <2>1
<1>2. FileInv /\ TagInv /\ [FilesNext]_filesVars => TagInv'
  BY TagsStep
<1>3. TagInv => TagsStripped
  BY DEF TagInv, TagsStripped, Sober
<1>4. QED
  BY <1>1, <1>2, <1>3, FileAlways, PTL DEF FilesSpec

-----------------------------------------------------------------------------
(* Rule-sets and their strings. *)

(* Two runs over the same members have the same values.                    *)
Goes(op, from, x, to) == to = op[<<from, x>>]

LEMMA RunAppended ==
  ASSUME NEW S, NEW T, NEW op \in [S \X T -> S], NEW b \in S, NEW n \in Nat,
         NEW s \in [1..n -> T], NEW t \in [1 .. n + 1 -> T], Longer(t, s, n),
         NEW last, HasRun(S, op, b, s, n, last), NEW next, HasRun(S, op, b, t, n + 1, next)
  PROVE  last \in S /\ Goes(op, last, t[n + 1], next)
<1>1. PICK f \in [0..n -> S] : Run(f, op, b, s, n) /\ f[n] = last
  BY DEF HasRun
<1>2. PICK g \in [0 .. n + 1 -> S] : Run(g, op, b, t, n + 1) /\ g[n + 1] = next
  BY DEF HasRun
<1> DEFINE P == {k \in 0..n : f[k] = g[k]}
<1>3. 0 \in P
  BY <1>1, <1>2 DEF Run
<1>4. ASSUME NEW k \in 1..n, k - 1 \in P PROVE k \in P
  <2>1. k \in 0..n /\ k \in 1 .. n + 1
    OBVIOUS
  <2>2. f[k] = op[<<f[k - 1], s[k]>>] /\ g[k] = op[<<g[k - 1], t[k]>>]
    BY <1>1, <1>2, <2>1 DEF Run
  <2>3. QED
    BY <1>4, <2>1, <2>2 DEF Longer
<1>5. \A k \in 0..n : k \in P
  <2> HIDE DEF P
  <2>1. QED
    BY <1>3, <1>4, Upward
<1>6. f[n] = g[n] /\ n \in 0..n
  BY <1>5
<1>7. n + 1 \in 1 .. n + 1 /\ n + 1 - 1 = n
  OBVIOUS
<1>8. g[n + 1] = op[<<g[n], t[n + 1]>>]
  BY <1>2, <1>7 DEF Run
<1>9. QED
  BY <1>1, <1>2, <1>6, <1>8 DEF Goes

(* What StrtoAccess goes through.                                          *)
FieldValues == Texts \union Letters \union {"pub", "pri"}
Values  == FieldValues \union {Garbage} \union {AddSlashes(v) : v \in FieldValues}
             \union {StripSlashes(AddSlashes(v)) : v \in FieldValues}
Read    == [mode : Values, password : Values, patt : Values]
Readers == [state : {"def", "mode", "word", "patt"}, def : Values, mode : Values, password : Values,
            rules : Seq(Read)]

Reader(state, def, mode, password, rules) ==
  [state |-> state, def |-> def, mode |-> mode, password |-> password, rules |-> rules]

LEMMA ReaderIs ==
  ASSUME NEW a \in Readers
  PROVE  /\ a = Reader(a.state, a.def, a.mode, a.password, a.rules)
         /\ a.state \in {"def", "mode", "word", "patt"} /\ a.def \in Values /\ a.mode \in Values
         /\ a.password \in Values /\ a.rules \in Seq(Read)
BY Zenon DEF Readers, Reader

LEMMA ReaderTyped ==
  ASSUME NEW st \in {"def", "mode", "word", "patt"}, NEW d \in Values, NEW m \in Values, NEW p \in Values,
         NEW rs \in Seq(Read)
  PROVE  Reader(st, d, m, p, rs) \in Readers
BY Zenon DEF Readers, Reader

LEMMA ReadDef ==
  ASSUME NEW a \in Readers, NEW s, a.state = "def"
  PROVE  ReadField(a, s) = Reader("mode", IF s.v = "pri" THEN "pri" ELSE "pub", a.mode, a.password, a.rules)
<1>0. a \in Readers
  OBVIOUS
<1>1. PICK b : b = [a EXCEPT !.def = IF s.v = "pri" THEN "pri" ELSE "pub", !.state = "mode"]
  OBVIOUS
<1>2. b = Reader("mode", IF s.v = "pri" THEN "pri" ELSE "pub", a.mode, a.password, a.rules)
  BY <1>0, <1>1, Zenon DEF Readers, Reader
<1>3. ReadField(a, s) = b
  BY <1>1 DEF ReadField
<1>4. QED
  BY <1>2, <1>3

LEMMA ReadMode ==
  ASSUME NEW a \in Readers, NEW s, a.state = "mode", s.f \notin {"word", "patt"}
  PROVE  ReadField(a, s) = Reader(IF s.v = "P" THEN "word" ELSE "patt", a.def, s.v, a.password, a.rules)
<1>0. a \in Readers
  OBVIOUS
<1>1. PICK b : b = [a EXCEPT !.mode = s.v, !.state = IF s.v = "P" THEN "word" ELSE "patt"]
  OBVIOUS
<1>2. b = Reader(IF s.v = "P" THEN "word" ELSE "patt", a.def, s.v, a.password, a.rules)
  BY <1>0, <1>1, Zenon DEF Readers, Reader
<1>3. ReadField(a, s) = b
  BY <1>1 DEF ReadField
<1>4. QED
  BY <1>2, <1>3

LEMMA ReadWord ==
  ASSUME NEW a \in Readers, NEW s, a.state = "word"
  PROVE  ReadField(a, s) = Reader("patt", a.def, a.mode, AddSlashes(s.v), a.rules)
<1>0. a \in Readers
  OBVIOUS
<1>1. PICK b : b = [a EXCEPT !.password = AddSlashes(s.v), !.state = "patt"]
  OBVIOUS
<1>2. b = Reader("patt", a.def, a.mode, AddSlashes(s.v), a.rules)
  BY <1>0, <1>1, Zenon DEF Readers, Reader
<1>3. ReadField(a, s) = b
  BY <1>1 DEF ReadField
<1>4. QED
  BY <1>2, <1>3

PattOf(s) == IF s.f = "patt" THEN StripSlashes(AddSlashes(s.v)) ELSE Garbage

LEMMA ReadPatt ==
  ASSUME NEW a \in Readers, NEW s, a.state = "patt" \/ (a.state = "mode" /\ s.f \in {"word", "patt"})
  PROVE  ReadField(a, s) = Reader("mode", a.def, a.mode, a.password, Append(a.rules, Rule(a.mode, a.password, PattOf(s))))
<1> DEFINE r == Rule(a.mode, a.password, PattOf(s))
<1> HIDE DEF r
<1>0. a \in Readers
  OBVIOUS
<1>1. PICK b : b = [a EXCEPT !.state = "mode", !.rules = Append(a.rules, r)]
  OBVIOUS
<1>2. b = Reader("mode", a.def, a.mode, a.password, Append(a.rules, r))
  BY <1>0, <1>1, Zenon DEF Readers, Reader
<1>3. ReadField(a, s) = b
  BY <1>1 DEF ReadField, r, PattOf
<1>4. QED
  BY <1>2, <1>3 DEF r

LEMMA ReadTyped ==
  ASSUME NEW a \in Readers, NEW s \in AllFields
  PROVE  ReadField(a, s) \in Readers
<1>1. /\ s.v \in Values /\ AddSlashes(s.v) \in Values /\ PattOf(s) \in Values
      /\ (IF s.v = "pri" THEN "pri" ELSE "pub") \in Values
  <2>1. s.v \in FieldValues
    BY DEF AllFields, FieldValues
  <2>2. QED
    BY <2>1 DEF Values, PattOf, FieldValues
<1>2. /\ a.state \in {"def", "mode", "word", "patt"} /\ a.def \in Values /\ a.mode \in Values
      /\ a.password \in Values /\ a.rules \in Seq(Read)
  BY ReaderIs
<1>3. CASE a.state = "def"
  BY <1>1, <1>2, <1>3, ReadDef, ReaderTyped
<1>4. CASE a.state = "mode" /\ s.f \notin {"word", "patt"}
  <2>1. (IF s.v = "P" THEN "word" ELSE "patt") \in {"def", "mode", "word", "patt"}
    OBVIOUS
  <2>2. s.v \in Values
    BY <1>1
  <2>3. QED
    BY <1>2, <1>4, <2>1, <2>2, ReadMode, ReaderTyped
<1>5. CASE a.state = "word"
  BY <1>1, <1>2, <1>5, ReadWord, ReaderTyped
<1>6. CASE a.state = "patt" \/ (a.state = "mode" /\ s.f \in {"word", "patt"})
  <2> DEFINE r == Rule(a.mode, a.password, PattOf(s))
  <2>1. r \in Read
    <3>1. NoWord \in Values
      BY TextsAssumption DEF Values, FieldValues
    <3>2. (IF a.mode = "P" THEN a.password ELSE NoWord) \in Values
      BY <1>2, <3>1
    <3>3. QED
      BY <1>1, <1>2, <3>2, Zenon DEF Rule, Read
  <2> HIDE DEF r
  <2>2. Append(a.rules, r) \in Seq(Read)
    BY <1>2, <2>1
  <2>3. ReadField(a, s) = Reader("mode", a.def, a.mode, a.password, Append(a.rules, r))
    BY <1>6, ReadPatt DEF r
  <2>4. QED
    BY <1>2, <2>2, <2>3, ReaderTyped
<1>7. QED
  BY <1>2, <1>3, <1>4, <1>5, <1>6

Begun == Reader("def", NoWord, NoWord, NoWord, <<>>)
ReadOp == [x \in Readers \X AllFields |-> ReadField(x[1], x[2])]
Reading(str) == FoldLeft(ReadNext, Begun, str)

LEMMA ReadNextIs ==
  ASSUME NEW a, NEW s
  PROVE  ReadNext(a, s) = ReadField(a, s)
<1>1. {ReadField(x, s) : x \in {a}} = {ReadField(a, s)}
  OBVIOUS
<1>2. QED
  BY <1>1 DEF ReadNext

LEMMA BegunTyped == Begun \in Readers
<1>1. <<>> \in Seq(Read) /\ NoWord \in Values
  BY TextsAssumption DEF Values, FieldValues
<1>2. QED
  BY <1>1, ReaderTyped DEF Begun

LEMMA ReadRun ==
  ASSUME NEW s \in Seq(AllFields)
  PROVE  HasRun(Readers, ReadOp, Begun, s, Len(s), Reading(s))
<1> DEFINE n == Len(s)
           it == CHOOSE i : i = [u \in SUBSET DOMAIN s |->
                    IF u = {} THEN Begun ELSE ReadNext(i[u \ {Max(u)}], s[Max(u)])]
<1>1. n \in Nat /\ s \in [1..n -> AllFields] /\ DOMAIN s = 1..n
  BY LenProperties
<1>2. Begun \in Readers
  BY BegunTyped
<1>3. ReadOp \in [Readers \X AllFields -> Readers] /\ \A x \in Readers, t \in AllFields : ReadOp[<<x, t>>] = ReadNext(x, t)
  BY ReadTyped, ReadNextIs DEF ReadOp
<1>4. Reading(s) = it[DOMAIN s]
  BY Zenon DEF Reading, FoldLeft, MapThenFoldSet
<1>5. PICK j \in [SUBSET (1..n) -> Readers] : Iterates(j, ReadOp, Begun, s, n)
  <2> HIDE DEF it
  <2>1. QED
    BY <1>1, <1>2, <1>3, IteratesExist DEF HasIterates
<1>6. ASSUME NEW u \in SUBSET (1..n), u # {}
      PROVE  Max(u) \in 1..n /\ s[Max(u)] \in AllFields /\ u \ {Max(u)} \in SUBSET (1..n)
  <2>1. Max(u) \in u
    BY <1>1, <1>6, MaxIn
  <2>2. QED
    BY <1>1, <2>1
<1>7. \A u \in SUBSET (1..n) :
        j[u] = IF u = {} THEN Begun ELSE ReadNext(j[u \ {Max(u)}], s[Max(u)])
  <2> HIDE DEF it
  <2>1. ASSUME NEW u \in SUBSET (1..n), u # {}
        PROVE  ReadOp[<<j[u \ {Max(u)}], s[Max(u)]>>] = ReadNext(j[u \ {Max(u)}], s[Max(u)])
    <3>1. j[u \ {Max(u)}] \in Readers /\ s[Max(u)] \in AllFields
      BY <1>5, <1>6, <2>1
    <3>2. QED
      BY <1>3, <3>1
  <2>2. QED
    BY <1>5, <2>1 DEF Iterates
<1>8. it = [u \in SUBSET DOMAIN s |-> IF u = {} THEN Begun ELSE ReadNext(it[u \ {Max(u)}], s[Max(u)])]
  <2>1. j = [u \in SUBSET DOMAIN s |-> IF u = {} THEN Begun ELSE ReadNext(j[u \ {Max(u)}], s[Max(u)])]
    <3> HIDE DEF it
    <3>1. QED
      BY <1>1, <1>5, <1>7
  <2>2. QED
    BY <2>1, Zenon
<1> HIDE DEF it
<1>9. it[{}] = Begun /\ \A u \in SUBSET (1..n) : u # {} => it[u] = ReadNext(it[u \ {Max(u)}], s[Max(u)])
  BY <1>1, <1>8
<1>10. Follows(it, Readers, ReadOp, Begun, s, n)
  BY <1>3, <1>6, <1>9 DEF Follows
<1>11. HasRun(Readers, ReadOp, Begun, s, n, it[1..n])
  BY <1>1, <1>2, <1>3, <1>10, RunOfIterates, Zenon
<1>12. QED
  BY <1>1, <1>4, <1>11

(* StrtoAccess goes from one field to the next.                            *)
LEMMA ReadAppend ==
  /\ Reading(<<>>) = Begun
  /\ \A s \in Seq(AllFields) :
       /\ Reading(s) \in Readers
       /\ \A x \in AllFields : Reading(Append(s, x)) = ReadField(Reading(s), x)
<1>1. ReadOp \in [Readers \X AllFields -> Readers] /\ \A x \in Readers, t \in AllFields : ReadOp[<<x, t>>] = ReadField(x, t)
  BY ReadTyped DEF ReadOp
<1>2. Reading(<<>>) = Begun
  <2>1. <<>> \in Seq(AllFields) /\ Len(<<>>) = 0
    OBVIOUS
  <2>2. HasRun(Readers, ReadOp, Begun, <<>>, 0, Reading(<<>>))
    BY <2>1, ReadRun
  <2>3. QED
    BY <2>2 DEF HasRun, Run
<1>3. ASSUME NEW s \in Seq(AllFields), NEW x \in AllFields
      PROVE  Reading(s) \in Readers /\ Reading(Append(s, x)) = ReadField(Reading(s), x)
  <2> DEFINE t == Append(s, x)
             n == Len(s)
  <2>1. n \in Nat /\ s \in [1..n -> AllFields]
    BY LenProperties
  <2>2. t \in Seq(AllFields) /\ Len(t) = n + 1 /\ (\A i \in 1..n : t[i] = s[i]) /\ t[n + 1] = x
    BY AppendProperties
  <2>3. t \in [1 .. n + 1 -> AllFields]
    BY <2>2, LenProperties
  <2>4. HasRun(Readers, ReadOp, Begun, s, n, Reading(s)) /\ HasRun(Readers, ReadOp, Begun, t, n + 1, Reading(t))
    BY <2>2, ReadRun
  <2>6. Longer(t, s, n)
    BY <2>2 DEF Longer
  <2> HIDE DEF t, n
  <2>5. Reading(s) \in Readers /\ Goes(ReadOp, Reading(s), t[n + 1], Reading(t))
    BY <1>1, <2>1, <2>3, <2>4, <2>6, BegunTyped, RunAppended, Zenon
  <2>7. QED
    BY <1>1, <2>2, <2>5 DEF t, Goes
<1>4. ASSUME NEW s \in Seq(AllFields) PROVE Reading(s) \in Readers
  <2>1. HasRun(Readers, ReadOp, Begun, s, Len(s), Reading(s)) /\ Len(s) \in Nat
    BY ReadRun
  <2>2. QED
    BY <2>1 DEF HasRun
<1>5. QED
  BY <1>2, <1>3, <1>4

LEMMA StrtoAccessIs ==
  ASSUME NEW str
  PROVE  StrtoAccess(str) = [def |-> Reading(str).def, rules |-> Reading(str).rules]
<1> DEFINE a == Reading(str)
<1>1. {[def |-> x.def, rules |-> x.rules] : x \in {a}} = {[def |-> a.def, rules |-> a.rules]}
  OBVIOUS
<1>2. StrtoAccess(str) = CHOOSE set \in {[def |-> x.def, rules |-> x.rules] : x \in {a}} : TRUE
  BY DEF StrtoAccess, Reading, Begun, Reader
<1> HIDE DEF a
<1>3. QED
  BY <1>1, <1>2 DEF a

Strings == Seq(AllFields)
Begins(d) == <<Field("def", d)>>
WriteOp == [x \in Strings \X AllRules |-> x[1] \o Fields(x[2])]
Written(d, rules) == FoldLeft(LAMBDA str, rule : str \o Fields(rule), Begins(d), rules)

LEMMA WrittenTyped ==
  /\ \A d \in {"pub", "pri"} : Begins(d) \in Strings
  /\ \A r \in AllRules : Fields(r) \in Strings
  /\ \A x \in Strings, r \in AllRules : x \o Fields(r) \in Strings
<1>1. ASSUME NEW d \in {"pub", "pri"} PROVE Begins(d) \in Strings
  <2>1. Field("def", d) \in AllFields
    BY DEF Field, AllFields
  <2>2. QED
    BY <2>1 DEF Begins, Strings
<1>2. ASSUME NEW r \in AllRules PROVE Fields(r) \in Strings
  <2>1. r.mode \in Letters /\ r.password \in Texts /\ r.patt \in Texts
    BY TextsAssumption DEF AllRules
  <2>2. Field("mode", r.mode) \in AllFields /\ Field("word", r.password) \in AllFields /\ Field("patt", r.patt) \in AllFields
    BY <2>1 DEF Field, AllFields
  <2>3. <<Field("mode", r.mode)>> \in Strings /\ <<Field("word", r.password)>> \in Strings
        /\ <<Field("patt", r.patt)>> \in Strings /\ <<>> \in Strings
    BY <2>2 DEF Strings
  <2>4. \A x, y \in Strings : x \o y \in Strings
    BY DEF Strings
  <2>5. QED
    BY <2>3, <2>4 DEF Fields
<1>3. \A x \in Strings, r \in AllRules : x \o Fields(r) \in Strings
  BY <1>2 DEF Strings
<1>4. QED
  BY <1>1, <1>2, <1>3

LEMMA WriteRun ==
  ASSUME NEW d \in {"pub", "pri"}, NEW s \in Seq(AllRules)
  PROVE  HasRun(Strings, WriteOp, Begins(d), s, Len(s), Written(d, s))
<1> DEFINE n == Len(s)
           it == CHOOSE i : i = [u \in SUBSET DOMAIN s |->
                    IF u = {} THEN Begins(d) ELSE i[u \ {Max(u)}] \o Fields(s[Max(u)])]
<1>1. n \in Nat /\ s \in [1..n -> AllRules] /\ DOMAIN s = 1..n
  BY LenProperties
<1>2. Begins(d) \in Strings
  BY WrittenTyped
<1>3. WriteOp \in [Strings \X AllRules -> Strings] /\ \A x \in Strings, t \in AllRules : WriteOp[<<x, t>>] = x \o Fields(t)
  BY WrittenTyped DEF WriteOp
<1>4. Written(d, s) = it[DOMAIN s]
  BY Zenon DEF Written, FoldLeft, MapThenFoldSet
<1>5. PICK j \in [SUBSET (1..n) -> Strings] : Iterates(j, WriteOp, Begins(d), s, n)
  <2> HIDE DEF it
  <2>1. QED
    BY <1>1, <1>2, <1>3, IteratesExist DEF HasIterates
<1>6. ASSUME NEW u \in SUBSET (1..n), u # {}
      PROVE  Max(u) \in 1..n /\ s[Max(u)] \in AllRules /\ u \ {Max(u)} \in SUBSET (1..n)
  <2>1. Max(u) \in u
    BY <1>1, <1>6, MaxIn
  <2>2. QED
    BY <1>1, <2>1
<1>7. \A u \in SUBSET (1..n) :
        j[u] = IF u = {} THEN Begins(d) ELSE j[u \ {Max(u)}] \o Fields(s[Max(u)])
  <2> HIDE DEF it
  <2>1. ASSUME NEW u \in SUBSET (1..n), u # {}
        PROVE  WriteOp[<<j[u \ {Max(u)}], s[Max(u)]>>] = j[u \ {Max(u)}] \o Fields(s[Max(u)])
    <3>1. j[u \ {Max(u)}] \in Strings /\ s[Max(u)] \in AllRules
      BY <1>5, <1>6, <2>1
    <3>2. QED
      BY <1>3, <3>1
  <2>2. QED
    BY <1>5, <2>1 DEF Iterates
<1>8. it = [u \in SUBSET DOMAIN s |-> IF u = {} THEN Begins(d) ELSE it[u \ {Max(u)}] \o Fields(s[Max(u)])]
  <2>1. j = [u \in SUBSET DOMAIN s |-> IF u = {} THEN Begins(d) ELSE j[u \ {Max(u)}] \o Fields(s[Max(u)])]
    <3> HIDE DEF it
    <3>1. QED
      BY <1>1, <1>5, <1>7
  <2>2. QED
    BY <2>1, Zenon
<1> HIDE DEF it
<1>9. it[{}] = Begins(d) /\ \A u \in SUBSET (1..n) : u # {} => it[u] = it[u \ {Max(u)}] \o Fields(s[Max(u)])
  BY <1>1, <1>8
<1>10. Follows(it, Strings, WriteOp, Begins(d), s, n)
  BY <1>3, <1>6, <1>9 DEF Follows
<1>11. HasRun(Strings, WriteOp, Begins(d), s, n, it[1..n])
  BY <1>1, <1>2, <1>3, <1>10, RunOfIterates, Zenon
<1>12. QED
  BY <1>1, <1>4, <1>11

(* Write adds the fields of one rule after the other.                      *)
LEMMA WriteAppend ==
  ASSUME NEW d \in {"pub", "pri"}
  PROVE
  /\ Written(d, <<>>) = Begins(d)
  /\ \A s \in Seq(AllRules) :
       /\ Written(d, s) \in Strings
       /\ \A x \in AllRules : Written(d, Append(s, x)) = Written(d, s) \o Fields(x)
<1>1. WriteOp \in [Strings \X AllRules -> Strings] /\ \A x \in Strings, t \in AllRules : WriteOp[<<x, t>>] = x \o Fields(t)
  BY WrittenTyped DEF WriteOp
<1>2. Written(d, <<>>) = Begins(d)
  <2>1. <<>> \in Seq(AllRules) /\ Len(<<>>) = 0
    OBVIOUS
  <2>2. HasRun(Strings, WriteOp, Begins(d), <<>>, 0, Written(d, <<>>))
    BY <2>1, WriteRun
  <2>3. QED
    BY <2>2 DEF HasRun, Run
<1>3. ASSUME NEW s \in Seq(AllRules), NEW x \in AllRules
      PROVE  Written(d, s) \in Strings /\ Written(d, Append(s, x)) = Written(d, s) \o Fields(x)
  <2> DEFINE t == Append(s, x)
             n == Len(s)
  <2>1. n \in Nat /\ s \in [1..n -> AllRules]
    BY LenProperties
  <2>2. t \in Seq(AllRules) /\ Len(t) = n + 1 /\ (\A i \in 1..n : t[i] = s[i]) /\ t[n + 1] = x
    BY AppendProperties
  <2>3. t \in [1 .. n + 1 -> AllRules]
    BY <2>2, LenProperties
  <2>4. HasRun(Strings, WriteOp, Begins(d), s, n, Written(d, s)) /\ HasRun(Strings, WriteOp, Begins(d), t, n + 1, Written(d, t))
    BY <2>2, WriteRun
  <2>6. Longer(t, s, n)
    BY <2>2 DEF Longer
  <2> HIDE DEF t, n
  <2>5. Written(d, s) \in Strings /\ Goes(WriteOp, Written(d, s), t[n + 1], Written(d, t))
    BY <1>1, <2>1, <2>3, <2>4, <2>6, WrittenTyped, RunAppended, Zenon
  <2>7. QED
    BY <1>1, <2>2, <2>5 DEF t, Goes
<1>4. ASSUME NEW s \in Seq(AllRules) PROVE Written(d, s) \in Strings
  <2>1. HasRun(Strings, WriteOp, Begins(d), s, Len(s), Written(d, s)) /\ Len(s) \in Nat
    BY WriteRun
  <2>2. QED
    BY <2>1 DEF HasRun
<1>5. QED
  BY <1>2, <1>3, <1>4

(* What holds of the empty sequence and of one with a member more holds of *)
(* each sequence.                                                          *)
LEMMA Lengthwise ==
  ASSUME NEW T, NEW P, <<>> \in P, \A s \in Seq(T), x \in T : s \in P => Append(s, x) \in P
  PROVE  Seq(T) \subseteq P
<1> SUFFICES ASSUME NEW s \in Seq(T) PROVE s \in P
  OBVIOUS
<1> DEFINE n == Len(s)
           Q == {k \in 0..n : SubSeq(s, 1, k) \in P}
<1>1. n \in Nat
  BY LenProperties
<1>2. 0 \in Q
  <2>1. SubSeq(s, 1, 0) = <<>>
    <3>1. 1 \in Int /\ 0 \in Int /\ 0 < 1
      OBVIOUS
    <3>2. QED
      BY <3>1, SubSeqEmpty
  <2>2. SubSeq(s, 1, 0) \in P
    BY <2>1, Zenon
  <2>3. 0 \in 0..n
    BY <1>1
  <2>4. QED
    BY <2>2, <2>3, Zenon
<1>3. ASSUME NEW k \in 1..n, k - 1 \in Q PROVE k \in Q
  <2>1. SubSeq(s, 1, k - 1) \in Seq(T) /\ s[k] \in T /\ k \in 0..n
    BY <1>1, SubSeqProperties, ElementOfSeq
  <2>2. SubSeq(s, 1, k) = SubSeq(s, 1, k - 1) \o <<s[k]>>
    <3>1. 1 \in 1..Len(s) /\ k \in 1..Len(s)
      BY <1>1
    <3>2. QED
      BY <3>1, SubSeqRecursiveSecond
  <2>3. SubSeq(s, 1, k) = Append(SubSeq(s, 1, k - 1), s[k])
    BY <2>1, <2>2
  <2>4. QED
    BY <1>3, <2>1, <2>3
<1>4. \A k \in 0..n : k \in Q
  <2> HIDE DEF Q
  <2>1. QED
    BY <1>1, <1>2, <1>3, Upward
<1>5. SubSeq(s, 1, n) = s /\ n \in 0..n
  BY <1>1, SubSeqFull
<1>6. QED
  BY <1>4, <1>5

(* All the rules of a string are read.                                     *)
Ready(str, d, rules) ==
  /\ Reading(str) \in Readers
  /\ Reading(str).state = "mode" /\ Reading(str).def = d /\ Reading(str).rules = rules

LEMMA ReaderFields ==
  ASSUME NEW a, NEW st, NEW d, NEW m, NEW p, NEW rs, a = Reader(st, d, m, p, rs)
  PROVE  a.state = st /\ a.def = d /\ a.mode = m /\ a.password = p /\ a.rules = rs
BY DEF Reader

LEMMA FieldIs ==
  ASSUME NEW f, NEW v
  PROVE  Field(f, v).f = f /\ Field(f, v).v = v
BY DEF Field

LEMMA RuleIs ==
  ASSUME NEW r \in AllRules
  PROVE  /\ r \in Read /\ r.mode \in Letters /\ r.password \in Texts /\ r.patt \in Texts
         /\ AddSlashes(r.password) = r.password /\ StripSlashes(AddSlashes(r.patt)) = r.patt
         /\ \A p : (r.mode = "P" => p = r.password) => Rule(r.mode, p, r.patt) = r
<1>1. /\ r \in [mode : Letters, password : Texts, patt : Texts] /\ r.password \in Words
      /\ r.mode # "P" => r.password = NoWord
  BY TextsAssumption DEF AllRules
<1>2. r \in Read /\ AddSlashes(r.password) = r.password /\ StripSlashes(AddSlashes(r.patt)) = r.patt
  BY <1>1, TextsAssumption DEF Read, Values, FieldValues
<1>3. ASSUME NEW p, r.mode = "P" => p = r.password
      PROVE  Rule(r.mode, p, r.patt) = r
  <2>1. r = [mode |-> r.mode, password |-> r.password, patt |-> r.patt]
    BY <1>1
  <2>2. (IF r.mode = "P" THEN p ELSE NoWord) = r.password
    BY <1>1, <1>3
  <2>3. Rule(r.mode, p, r.patt) = [mode |-> r.mode, password |-> r.password, patt |-> r.patt]
    BY <2>2, Zenon DEF Rule
  <2>4. QED
    BY <2>1, <2>3
<1>4. QED
  BY <1>1, <1>2, <1>3

LEMMA Appended ==
  ASSUME NEW S, NEW s \in Seq(S), NEW x \in S, NEW y \in S, NEW z \in S
  PROVE  /\ s \o (<<x>> \o <<>> \o <<y>>) = Append(Append(s, x), y)
         /\ s \o (<<x>> \o <<y>> \o <<z>>) = Append(Append(Append(s, x), y), z)
<1>1. \A t \in Seq(S), e \in S : t \o <<e>> = Append(t, e) /\ Append(t, e) \in Seq(S)
  OBVIOUS
<1>2. PICK p, q, r, e0 : p = <<x>> /\ q = <<y>> /\ r = <<z>> /\ e0 = <<>>
  OBVIOUS
<1>3. p \in Seq(S) /\ q \in Seq(S) /\ r \in Seq(S)
  BY <1>2
<1>4. p \o e0 = p /\ p \o q \in Seq(S)
  BY <1>2, <1>3, ConcatEmptySeq, ConcatProperties
<1>5. s \o (p \o q) = (s \o p) \o q
  BY <1>3, SMT
<1>6. s \o ((p \o q) \o r) = (s \o (p \o q)) \o r
  <2>1. PICK pq : pq = p \o q
    OBVIOUS
  <2>2. pq \in Seq(S)
    BY <1>4, <2>1, Zenon
  <2>3. s \o (pq \o r) = (s \o pq) \o r
    <3>1. r \in Seq(S)
      BY <1>3
    <3>2. QED
      BY <2>2, <3>1, SMT
  <2>4. QED
    BY <2>1, <2>3, Zenon
<1>7. s \o p = Append(s, x) /\ Append(s, x) \in Seq(S)
  BY <1>1, <1>2, Zenon
<1>8. Append(s, x) \o q = Append(Append(s, x), y) /\ Append(Append(s, x), y) \in Seq(S)
  BY <1>1, <1>2, <1>7, Zenon
<1>9. Append(Append(s, x), y) \o r = Append(Append(Append(s, x), y), z)
  BY <1>1, <1>2, <1>8, Zenon
<1>10. /\ s \o ((p \o e0) \o q) = Append(Append(s, x), y)
       /\ s \o ((p \o q) \o r) = Append(Append(Append(s, x), y), z)
  BY <1>4, <1>5, <1>6, <1>7, <1>8, <1>9, Zenon
<1>11. QED
  BY <1>2, <1>10, Zenon

LEMMA ReadRule ==
  ASSUME NEW str \in Strings, NEW d, NEW rs, Ready(str, d, rs), NEW r \in AllRules
  PROVE  Ready(str \o Fields(r), d, Append(rs, r))
<1> DEFINE F1 == Field("mode", r.mode)
           F2 == Field("word", r.password)
           F3 == Field("patt", r.patt)
           a == Reading(str)
           b == Reading(Append(str, F1))
           c == Reading(Append(Append(str, F1), F2))
<1>1. F1 \in AllFields /\ F2 \in AllFields /\ F3 \in AllFields
  BY RuleIs DEF Field, AllFields
<1>2. /\ F1.f = "mode" /\ F1.v = r.mode /\ F2.f = "word" /\ F2.v = r.password /\ F3.f = "patt" /\ F3.v = r.patt
  BY FieldIs
<1> HIDE DEF F1, F2, F3
<1>3. /\ a \in Readers /\ a.state = "mode" /\ a.def = d /\ a.rules = rs
  BY DEF Ready
<1>4. b \in Readers /\ b.state = (IF r.mode = "P" THEN "word" ELSE "patt") /\ b.def = d /\ b.mode = r.mode
      /\ b.rules = rs
  <2>1. b = ReadField(a, F1) /\ Append(str, F1) \in Strings
    BY <1>1, ReadAppend DEF Strings
  <2>2. b = Reader(IF F1.v = "P" THEN "word" ELSE "patt", a.def, F1.v, a.password, a.rules)
    BY <1>2, <1>3, <2>1, ReadMode
  <2>3. b \in Readers
    BY <2>1, ReadAppend DEF Strings
  <2> HIDE DEF a, b
  <2>4. QED
    BY <1>2, <1>3, <2>2, <2>3, ReaderFields
<1>5. ASSUME NEW x \in Strings, Reading(x) \in Readers, Reading(x).state = "patt", Reading(x).def = d,
             Reading(x).mode = r.mode, r.mode = "P" => Reading(x).password = r.password, Reading(x).rules = rs
      PROVE  Ready(Append(x, F3), d, Append(rs, r))
  <2> DEFINE y == Reading(x)
             z == Reading(Append(x, F3))
  <2>0. x \in Seq(AllFields) /\ Append(x, F3) \in Seq(AllFields)
    BY <1>1 DEF Strings
  <2>1. z = ReadField(y, F3) /\ z \in Readers
    BY <1>1, <2>0, ReadAppend
  <2>2. z = Reader("mode", y.def, y.mode, y.password, Append(y.rules, Rule(y.mode, y.password, PattOf(F3))))
    BY <1>2, <1>5, <2>1, ReadPatt
  <2>3. Rule(y.mode, y.password, PattOf(F3)) = r
    <3>1. PattOf(F3) = r.patt
      BY <1>2, RuleIs DEF PattOf
    <3>2. QED
      BY <1>5, <3>1, RuleIs
  <2>4. z = Reader("mode", d, y.mode, y.password, Append(rs, r))
    BY <1>5, <2>2, <2>3
  <2>5. PICK rr : rr = Append(rs, r)
    OBVIOUS
  <2>6. z.state = "mode" /\ z.def = d /\ z.rules = rr
    <3>1. PICK m, p : m = y.mode /\ p = y.password
      OBVIOUS
    <3>2. z = Reader("mode", d, m, p, rr)
      BY <2>4, <2>5, <3>1, Zenon
    <3>3. \A u : u = Reader("mode", d, m, p, rr) => u.state = "mode" /\ u.def = d /\ u.rules = rr
      BY ReaderFields
    <3> HIDE DEF z
    <3>4. QED
      BY <3>2, <3>3, Zenon
  <2>7. Ready(Append(x, F3), d, rr)
    BY <2>1, <2>6, Zenon DEF Ready
  <2>8. QED
    BY <2>5, <2>7, Zenon
<1>6. CASE r.mode = "P"
  <2>1. c = ReadField(b, F2) /\ c \in Readers /\ Append(Append(str, F1), F2) \in Strings
    <3>1. Append(str, F1) \in Seq(AllFields) /\ Append(Append(str, F1), F2) \in Seq(AllFields)
      BY <1>1 DEF Strings
    <3>2. QED
      BY <1>1, <3>1, ReadAppend DEF Strings
  <2>2. c = Reader("patt", b.def, b.mode, F2.v, b.rules)
    BY <1>2, <1>4, <1>6, <2>1, ReadWord, RuleIs
  <2>3. c.state = "patt" /\ c.def = d /\ c.mode = r.mode /\ c.password = r.password /\ c.rules = rs
    <3> HIDE DEF b, c
    <3>1. QED
      BY <1>2, <1>4, <2>2, ReaderFields
  <2>4. Ready(Append(Append(Append(str, F1), F2), F3), d, Append(rs, r))
    <3> HIDE DEF a, b
    <3>1. QED
      BY <1>5, <2>1, <2>3
  <2>5. str \o Fields(r) = Append(Append(Append(str, F1), F2), F3)
    <3>1. Fields(r) = <<F1>> \o <<F2>> \o <<F3>>
      BY <1>6 DEF Fields, F1, F2, F3
    <3>2. str \in Seq(AllFields)
      BY DEF Strings
    <3>3. QED
      BY <1>1, <3>1, <3>2, Appended
  <2>6. QED
    BY <2>4, <2>5
<1>7. CASE r.mode # "P"
  <2>1. Append(str, F1) \in Strings
    BY <1>1 DEF Strings
  <2>2. Ready(Append(Append(str, F1), F3), d, Append(rs, r))
    BY <1>4, <1>5, <1>7, <2>1
  <2>3. str \o Fields(r) = Append(Append(str, F1), F3)
    <3>1. Fields(r) = <<F1>> \o <<>> \o <<F3>>
      BY <1>7 DEF Fields, F1, F3
    <3>2. str \in Seq(AllFields)
      BY DEF Strings
    <3>3. QED
      BY <1>1, <3>1, <3>2, Appended
  <2>4. QED
    BY <2>2, <2>3
<1>8. QED
  BY <1>6, <1>7

LEMMA WriteIs ==
  ASSUME NEW set \in RuleSets
  PROVE  /\ set = [def |-> set.def, rules |-> set.rules] /\ set.def \in {"pub", "pri"}
         /\ set.rules \in Seq(AllRules) /\ Write(set) = Written(set.def, set.rules)
         /\ Write(set) \in Strings
<1>1. set = [def |-> set.def, rules |-> set.rules] /\ set.def \in {"pub", "pri"} /\ set.rules \in Seq(AllRules)
  BY DEF RuleSets
<1>2. Write(set) = Written(set.def, set.rules)
  BY Zenon DEF Write, Written, Begins
<1>3. QED
  BY <1>1, <1>2, WriteAppend

LEMMA ReadBegin ==
  ASSUME NEW d \in {"pub", "pri"}
  PROVE  Ready(Begins(d), d, <<>>)
<1> DEFINE F == Field("def", d)
           b == Reading(Begins(d))
<1>1. F \in AllFields /\ F.v = d
  BY FieldIs DEF Field, AllFields
<1> HIDE DEF F
<1>2. <<>> \in Seq(AllFields) /\ Begins(d) = Append(<<>>, F) /\ Begins(d) \in Seq(AllFields)
  BY <1>1 DEF Begins, F
<1>3. b = ReadField(Begun, F) /\ b \in Readers
  BY <1>1, <1>2, ReadAppend, Zenon
<1>4. Begun \in Readers /\ Begun.state = "def" /\ Begun.rules = <<>>
  BY BegunTyped, ReaderFields DEF Begun
<1>5. b = Reader("mode", d, Begun.mode, Begun.password, <<>>)
  <2>1. (IF F.v = "pri" THEN "pri" ELSE "pub") = d
    BY <1>1
  <2>2. QED
    BY <1>3, <1>4, <2>1, ReadDef
<1>6. b.state = "mode" /\ b.def = d /\ b.rules = <<>>
  <2> HIDE DEF b
  <2>1. QED
    BY <1>5, ReaderFields
<1>7. QED
  BY <1>3, <1>6 DEF Ready

(* What is written of a rule-set is read as the same rule-set              *)
(* (PostToAccessStr, StrtoAccess).                                         *)
LEMMA RoundTrip ==
  ASSUME NEW set \in RuleSets
  PROVE  StrtoAccess(Write(set)) = set
<1>1. PICK d \in {"pub", "pri"}, rs \in Seq(AllRules) : d = set.def /\ rs = set.rules
  BY WriteIs
<1> DEFINE P == {r \in Seq(AllRules) : Ready(Written(d, r), d, r)}
<1>2. <<>> \in P
  <2>1. <<>> \in Seq(AllRules) /\ Written(d, <<>>) = Begins(d)
    BY WriteAppend
  <2>2. QED
    BY <2>1, ReadBegin
<1>3. ASSUME NEW s \in Seq(AllRules), NEW x \in AllRules, s \in P PROVE Append(s, x) \in P
  <2>1. Written(d, s) \in Strings /\ Written(d, Append(s, x)) = Written(d, s) \o Fields(x)
    BY WriteAppend
  <2>2. Ready(Written(d, s) \o Fields(x), d, Append(s, x))
    BY <1>3, <2>1, ReadRule
  <2>3. Append(s, x) \in Seq(AllRules)
    OBVIOUS
  <2>4. QED
    BY <2>1, <2>2, <2>3, Zenon
<1> HIDE DEF P
<1>4. rs \in P
  BY <1>2, <1>3, Lengthwise
<1>5. Reading(Written(d, rs)).def = d /\ Reading(Written(d, rs)).rules = rs
  BY <1>4 DEF P, Ready
<1>6. StrtoAccess(Write(set)) = [def |-> d, rules |-> rs]
  BY <1>1, <1>5, WriteIs, StrtoAccessIs, Zenon
<1>7. QED
  BY <1>1, <1>6, WriteIs

(* The first rule that is no password rule is the two fields behind pub or *)
(* pri.                                                                    *)
Starts(str, d, r) == \E rest \in Strings : str = (Begins(d) \o Fields(r)) \o rest

LEMMA FirstStarts ==
  ASSUME NEW d \in {"pub", "pri"}, NEW rs \in Seq(AllRules), rs # <<>>
  PROVE  Starts(Written(d, rs), d, rs[1])
<1> DEFINE P == {s \in Seq(AllRules) : s # <<>> => Starts(Written(d, s), d, s[1])}
<1>1. <<>> \in P
  OBVIOUS
<1>2. ASSUME NEW s \in Seq(AllRules), NEW x \in AllRules, s \in P PROVE Append(s, x) \in P
  <2>1. Written(d, s) \in Strings /\ Written(d, Append(s, x)) = Written(d, s) \o Fields(x) /\ Fields(x) \in Strings
    BY WriteAppend, WrittenTyped
  <2>2. Append(s, x) \in Seq(AllRules)
    OBVIOUS
  <2>3. CASE s = <<>>
    <3>1. Append(s, x)[1] = x /\ Written(d, s) = Begins(d)
      BY <2>3, WriteAppend
    <3>2. <<>> \in Strings /\ Begins(d) \o Fields(x) \in Strings
      BY <2>1, WrittenTyped DEF Strings
    <3>3. (Begins(d) \o Fields(x)) \o <<>> = Begins(d) \o Fields(x)
      BY <3>2, ConcatEmptySeq DEF Strings
    <3>4. Starts(Written(d, Append(s, x)), d, Append(s, x)[1])
      BY <2>1, <3>1, <3>2, <3>3, Zenon DEF Starts
    <3>5. QED
      BY <2>2, <3>4
  <2>4. CASE s # <<>>
    <3>1. Append(s, x)[1] = s[1] /\ s[1] \in AllRules
      BY <2>4
    <3>2. PICK rest \in Strings : Written(d, s) = (Begins(d) \o Fields(s[1])) \o rest
      BY <1>2, <2>4 DEF Starts
    <3>3. PICK begin : begin = Begins(d) \o Fields(s[1])
      OBVIOUS
    <3>4. begin \in Strings
      BY <3>1, <3>3, WrittenTyped
    <3>5. (begin \o rest) \o Fields(x) = begin \o (rest \o Fields(x)) /\ rest \o Fields(x) \in Strings
      <4>1. PICK f \in Seq(AllFields) : f = Fields(x)
        BY <2>1 DEF Strings
      <4>2. begin \in Seq(AllFields) /\ rest \in Seq(AllFields)
        BY <3>4 DEF Strings
      <4>3. begin \o (rest \o f) = (begin \o rest) \o f
        BY <4>2, SMT
      <4>4. rest \o f \in Seq(AllFields)
        BY <4>2
      <4>5. QED
        BY <4>1, <4>3, <4>4, Zenon DEF Strings
    <3>6. Written(d, Append(s, x)) = begin \o (rest \o Fields(x))
      BY <2>1, <3>2, <3>3, <3>5, Zenon
    <3>7. Starts(Written(d, Append(s, x)), d, s[1])
      BY <3>3, <3>5, <3>6, Zenon DEF Starts
    <3>8. QED
      BY <2>2, <3>1, <3>7
  <2>5. QED
    BY <2>3, <2>4
<1> HIDE DEF P
<1>3. rs \in P
  BY <1>1, <1>2, Lengthwise
<1>4. QED
  BY <1>3 DEF P

LEMMA TwoLong ==
  ASSUME NEW S, NEW x \in S, NEW y \in S
  PROVE  Len(<<x>> \o <<>> \o <<y>>) = 2
<1>1. PICK e : e = <<>>
  OBVIOUS
<1>2. e \in Seq(S) /\ Len(e) = 0
  BY <1>1
<1>3. PICK f : f = <<x>> \o <<>> \o <<y>>
  OBVIOUS
<1>4. e \o f = Append(Append(e, x), y)
  <2>1. \A s \in Seq(S) : s \o (<<x>> \o <<>> \o <<y>>) = Append(Append(s, x), y)
    BY Appended
  <2>2. QED
    BY <1>2, <1>3, <2>1, Zenon
<1>5. f \in Seq(S)
  BY <1>3
<1>6. Len(e \o f) = Len(f)
  BY <1>2, <1>5, ConcatProperties
<1>7. Len(Append(Append(e, x), y)) = 2
  BY <1>2
<1>8. QED
  BY <1>3, <1>4, <1>6, <1>7, Zenon

LEMMA FirstRule ==
  ASSUME NEW set \in RuleSets, set.rules # <<>>, set.rules[1].mode # "P"
  PROVE  SubSeq(Write(set), 2, 3) = Fields(set.rules[1])
<1>1. PICK d \in {"pub", "pri"}, rs \in Seq(AllRules) : d = set.def /\ rs = set.rules
  BY WriteIs
<1>2. PICK r \in AllRules : r = rs[1]
  BY <1>1
<1>3. PICK b \in Strings, f \in Strings : b = Begins(d) /\ f = Fields(r)
  BY WrittenTyped
<1>4. Len(b) = 1
  BY <1>3 DEF Begins
<1>5. Len(f) = 2
  <2>1. PICK x \in AllFields, y \in AllFields : x = Field("mode", r.mode) /\ y = Field("patt", r.patt)
    BY <1>2, RuleIs DEF Field, AllFields
  <2>2. f = <<x>> \o <<>> \o <<y>>
    BY <1>1, <1>2, <1>3, <2>1, Zenon DEF Fields
  <2>3. Len(<<x>> \o <<>> \o <<y>>) = 2
    BY TwoLong
  <2>4. QED
    BY <2>2, <2>3, Zenon
<1>6. PICK rest \in Strings : Write(set) = (b \o f) \o rest
  <2>1. rs # <<>>
    BY <1>1
  <2>2. Starts(Written(d, rs), d, rs[1])
    BY <2>1, FirstStarts
  <2>3. Write(set) = Written(d, rs)
    BY <1>1, WriteIs, Zenon
  <2>4. Starts(Write(set), d, r)
    BY <1>2, <2>2, <2>3, Zenon
  <2>5. QED
    BY <1>3, <2>4, Zenon DEF Starts
<1>7. b \o f \in Seq(AllFields) /\ Len(b \o f) = 3 /\ b \in Seq(AllFields) /\ f \in Seq(AllFields)
      /\ rest \in Seq(AllFields)
  <2>1. b \in Seq(AllFields) /\ f \in Seq(AllFields) /\ rest \in Seq(AllFields)
    BY DEF Strings
  <2>2. b \o f \in Seq(AllFields) /\ Len(b \o f) = Len(b) + Len(f)
    BY <2>1, ConcatProperties
  <2>3. QED
    BY <1>4, <1>5, <2>1, <2>2
<1>8. PICK bf \in Seq(AllFields) : bf = b \o f
  BY <1>7
<1>9. SubSeq(bf \o rest, 2, 3) = SubSeq(bf, 2, 3)
  <2>1. 2 \in 1..Len(bf) /\ 3 \in 1..Len(bf)
    BY <1>7, <1>8
  <2>2. QED
    BY <1>7, <2>1, SubSeqOfConcat1
<1>10. SubSeq(b \o f, 2, 3) = SubSeq(f, 1, 2)
  <2>1. 2 \in Len(b) + 1 .. Len(b) + Len(f) /\ 3 \in Len(b) + 1 .. Len(b) + Len(f)
    BY <1>4, <1>5
  <2>2. SubSeq(b \o f, 2, 3) = SubSeq(f, 2 - Len(b), 3 - Len(b))
    BY <1>7, <2>1, SubSeqOfConcat2
  <2>3. 2 - Len(b) = 1 /\ 3 - Len(b) = 2
    BY <1>4
  <2>4. QED
    BY <2>2, <2>3, Zenon
<1>11. SubSeq(f, 1, 2) = f
  <2>1. SubSeq(f, 1, Len(f)) = f
    BY <1>7, SubSeqFull
  <2>2. QED
    BY <1>5, <2>1, Zenon
<1>12. QED
  BY <1>1, <1>2, <1>3, <1>6, <1>8, <1>9, <1>10, <1>11, Zenon

-----------------------------------------------------------------------------
(* Slashes.  A string without a character that is given one is fetched as  *)
(* it is.                                                                  *)

PlainRules == {rule \in AllRules : Plain(rule)}
PlainSets  == {set \in RuleSets \union {None} : set # None => set.rules \in Seq(PlainRules)}

Bare(field) == field.f \in {"word", "patt"} => AddSlashes(field.v) = field.v
BareFields  == {field \in AllFields : Bare(field)}

LEMMA BareFetched ==
  ASSUME NEW str \in Seq(BareFields)
  PROVE  Fetched(str) = str
<1>1. ASSUME NEW i \in DOMAIN str
      PROVE  (IF str[i].f \in {"word", "patt"} THEN [str[i] EXCEPT !.v = AddSlashes(@)] ELSE str[i]) = str[i]
  <2>1. PICK field \in BareFields : field = str[i]
    OBVIOUS
  <2>2. field = [f |-> field.f, v |-> field.v] /\ Bare(field)
    BY DEF BareFields, AllFields
  <2>3. CASE field.f \in {"word", "patt"}
    <3>1. AddSlashes(field.v) = field.v
      BY <2>2, <2>3 DEF Bare
    <3>2. [field EXCEPT !.v = AddSlashes(@)] = field
      BY <2>2, <3>1
    <3>3. QED
      BY <2>1, <2>3, <3>2
  <2>4. CASE field.f \notin {"word", "patt"}
    BY <2>1, <2>4
  <2>5. QED
    BY <2>3, <2>4
<1>2. str = [i \in DOMAIN str |-> str[i]]
  OBVIOUS
<1>3. QED
  BY <1>1, <1>2, Zenon DEF Fetched

LEMMA PlainFields ==
  ASSUME NEW r \in PlainRules
  PROVE  Fields(r) \in Seq(BareFields)
<1>1. r \in AllRules /\ AddSlashes(r.patt) = r.patt
  BY DEF PlainRules, Plain
<1>2. r.mode \in Letters /\ r.password \in Texts /\ r.patt \in Texts /\ AddSlashes(r.password) = r.password
  BY <1>1, RuleIs
<1>3. PICK x, y, z : x = Field("mode", r.mode) /\ y = Field("word", r.password) /\ z = Field("patt", r.patt)
  OBVIOUS
<1>4. x \in AllFields /\ y \in AllFields /\ z \in AllFields
  BY <1>2, <1>3 DEF Field, AllFields
<1>5. Bare(x) /\ Bare(y) /\ Bare(z)
  BY <1>1, <1>2, <1>3, FieldIs DEF Bare
<1>6. <<x>> \in Seq(BareFields) /\ <<y>> \in Seq(BareFields) /\ <<z>> \in Seq(BareFields) /\ <<>> \in Seq(BareFields)
  BY <1>4, <1>5 DEF BareFields
<1>7. \A s, t \in Seq(BareFields) : s \o t \in Seq(BareFields)
  OBVIOUS
<1>8. QED
  BY <1>3, <1>6, <1>7, Zenon DEF Fields

LEMMA PlainWritten ==
  ASSUME NEW set \in PlainSets, set # None
  PROVE  set \in RuleSets /\ Fetched(Write(set)) = Write(set)
<1>1. set \in RuleSets
  BY DEF PlainSets
<1>2. PICK d \in {"pub", "pri"}, rs \in Seq(PlainRules) : d = set.def /\ rs = set.rules
  BY <1>1, WriteIs DEF PlainSets
<1> DEFINE P == {s \in Seq(PlainRules) : Written(d, s) \in Seq(BareFields)}
<1>3. \A s \in Seq(PlainRules) : s \in Seq(AllRules)
  BY DEF PlainRules
<1>4. <<>> \in P
  <2>1. Written(d, <<>>) = <<Field("def", d)>> /\ <<>> \in Seq(PlainRules)
    BY WriteAppend DEF Begins
  <2>2. Field("def", d) \in AllFields /\ Bare(Field("def", d))
    BY FieldIs DEF Field, AllFields, Bare
  <2>3. PICK field \in BareFields : field = Field("def", d)
    BY <2>2 DEF BareFields
  <2>4. <<field>> \in Seq(BareFields)
    OBVIOUS
  <2>5. QED
    BY <2>1, <2>3, <2>4
<1>5. ASSUME NEW s \in Seq(PlainRules), NEW x \in PlainRules, s \in P PROVE Append(s, x) \in P
  <2>1. s \in Seq(AllRules) /\ x \in AllRules
    BY <1>3 DEF PlainRules
  <2>2. Written(d, Append(s, x)) = Written(d, s) \o Fields(x)
    BY <2>1, WriteAppend
  <2>3. Written(d, s) \in Seq(BareFields) /\ Fields(x) \in Seq(BareFields)
    BY <1>5, PlainFields
  <2>4. \A t, u \in Seq(BareFields) : t \o u \in Seq(BareFields)
    OBVIOUS
  <2>5. Append(s, x) \in Seq(PlainRules)
    OBVIOUS
  <2>6. QED
    BY <2>2, <2>3, <2>4, <2>5, Zenon
<1>6. rs \in P
  <2> HIDE DEF P
  <2>1. QED
    BY <1>4, <1>5, Lengthwise
<1>7. Write(set) \in Seq(BareFields)
  BY <1>1, <1>2, <1>6, WriteIs, Zenon
<1>8. QED
  BY <1>1, <1>7, BareFetched

-----------------------------------------------------------------------------
(* RulesKept. *)

(* A string is that of a rule-set, or none.                                *)
Sets == RuleSets \union {None}
Readable(str) == str # None => StrtoAccess(str) \in RuleSets /\ Write(StrtoAccess(str)) = str

LEMMA NotNone ==
  /\ None \notin RuleSets
  /\ \A set \in RuleSets : Write(set) \in Strings /\ Write(set) # None
BY ConfigsAssumption, WriteIs DEF Strings

LEMMA StrRead ==
  ASSUME NEW set \in Sets
  PROVE  Parsed(Str(set)) = set /\ Readable(Str(set)) /\ Str(set) \in Strings \union {None}
<1>1. CASE set = None
  BY <1>1 DEF Str, Parsed, Readable
<1>2. CASE set # None
  <2>1. set \in RuleSets /\ Str(set) = Write(set)
    BY <1>2 DEF Sets, Str
  <2>2. StrtoAccess(Write(set)) = set /\ Write(set) # None /\ Write(set) \in Strings
    BY <2>1, RoundTrip, NotNone
  <2>3. QED
    BY <2>1, <2>2 DEF Parsed, Readable
<1>3. QED
  BY <1>1, <1>2

LEMMA ReadableIs ==
  ASSUME NEW str, Readable(str)
  PROVE  Parsed(str) \in Sets /\ Str(Parsed(str)) = str /\ (Parsed(str) = None <=> str = None)
BY NotNone DEF Readable, Parsed, Sets, Str

(* The set that the screen makes where there is none, and one that was     *)
(* added to.                                                               *)
InitialSet == [def |-> "pub", rules |-> <<Rule("L", NoWord, AnyOne)>>]
WithRule(set, r) == [def |-> set.def, rules |-> Append(set.rules, r)]

LEMMA InitialIs ==
  /\ InitialSet \in RuleSets /\ Initial = Write(InitialSet) /\ StrtoAccess(Initial) = InitialSet
  /\ Initial # None /\ Readable(Initial)
  /\ InitialSet.rules # <<>> /\ InitialSet.rules[1].mode # "P" /\ InitialSet \in PlainSets
<1>1. Rule("L", NoWord, AnyOne) \in PlainRules /\ Rule("L", NoWord, AnyOne).mode = "L"
  BY TextsAssumption DEF Rule, AllRules, Letters, PlainRules, Plain
<1>2. InitialSet \in RuleSets /\ InitialSet.rules # <<>> /\ InitialSet.rules[1].mode # "P" /\ InitialSet \in PlainSets
  <2> DEFINE r == Rule("L", NoWord, AnyOne)
  <2> HIDE DEF r
  <2>1. r \in PlainRules /\ r \in AllRules /\ r.mode = "L"
    BY <1>1 DEF r, PlainRules
  <2>2. InitialSet = [def |-> "pub", rules |-> <<r>>]
    BY DEF InitialSet, r
  <2>3. <<r>> \in Seq(AllRules) /\ <<r>> \in Seq(PlainRules) /\ <<r>> # <<>> /\ <<r>>[1] = r
    BY <2>1
  <2>4. QED
    BY <2>1, <2>2, <2>3 DEF RuleSets, PlainSets
<1>3. Initial = Write(InitialSet)
  BY DEF Initial, InitialSet
<1>4. QED
  BY <1>2, <1>3, RoundTrip, NotNone DEF Readable

LEMMA AddedIs ==
  ASSUME NEW set \in PlainSets, NEW dft \in PlainSets, set # None, dft # None,
         dft.rules # <<>>, dft.rules[1].mode # "P"
  PROVE  /\ Added(Write(set), Write(dft)) = Write(WithRule(set, dft.rules[1]))
         /\ WithRule(set, dft.rules[1]) \in RuleSets /\ WithRule(set, dft.rules[1]) \in PlainSets
<1>0. set \in RuleSets /\ dft \in RuleSets /\ Fetched(Write(set)) = Write(set) /\ Fetched(Write(dft)) = Write(dft)
  BY PlainWritten
<1>1. PICK r \in PlainRules : r = dft.rules[1] /\ r \in AllRules
  BY DEF PlainSets, PlainRules
<1>2. set.def \in {"pub", "pri"} /\ set.rules \in Seq(AllRules) /\ Write(set) = Written(set.def, set.rules)
  BY <1>0, WriteIs
<1>3. WithRule(set, r) \in RuleSets /\ WithRule(set, r) \in PlainSets
  <2>1. set.rules \in Seq(PlainRules)
    BY DEF PlainSets
  <2>2. Append(set.rules, r) \in Seq(PlainRules) /\ Append(set.rules, r) \in Seq(AllRules)
    BY <1>1, <1>2, <2>1
  <2>3. QED
    BY <1>2, <2>2 DEF WithRule, RuleSets, PlainSets
<1>4. Write(WithRule(set, r)) = Written(set.def, Append(set.rules, r))
  BY <1>3, WriteIs DEF WithRule
<1>5. Written(set.def, Append(set.rules, r)) = Written(set.def, set.rules) \o Fields(r)
  BY <1>1, <1>2, WriteAppend
<1>6. Added(Write(set), Write(dft)) = Write(set) \o Fields(r)
  BY <1>0, <1>1, FirstRule, Zenon DEF Added
<1>7. QED
  BY <1>1, <1>2, <1>3, <1>4, <1>5, <1>6, Zenon

LEMMA AddedToNone ==
  ASSUME NEW dft \in PlainSets, dft # None, dft.rules # <<>>, dft.rules[1].mode # "P",
         NEW set, set = [def |-> "pub", rules |-> <<dft.rules[1]>>]
  PROVE  Added(<<Field("def", "pub")>>, Write(dft)) = Write(set) /\ set \in RuleSets /\ set \in PlainSets
<1>1. PICK r \in PlainRules : r = dft.rules[1]
  BY DEF PlainSets
<1>2. PICK empty : empty = [def |-> "pub", rules |-> <<>>]
  OBVIOUS
<1>3. empty \in RuleSets /\ empty \in PlainSets /\ empty # None
  <2>1. <<>> \in Seq(AllRules) /\ <<>> \in Seq(PlainRules) /\ empty.rules = <<>>
    BY <1>2
  <2>2. empty \in RuleSets
    BY <1>2, <2>1 DEF RuleSets
  <2>3. QED
    BY <2>1, <2>2, NotNone DEF PlainSets
<1>4. Write(empty) = <<Field("def", "pub")>>
  <2>1. Written("pub", <<>>) = Begins("pub")
    BY WriteAppend
  <2>2. empty.def = "pub" /\ empty.rules = <<>>
    BY <1>2
  <2>3. Write(empty) = Written("pub", <<>>)
    BY <1>3, <2>2, WriteIs
  <2>4. QED
    BY <2>1, <2>3 DEF Begins
<1>5. WithRule(empty, r) = set
  BY <1>1, <1>2 DEF WithRule
<1>6. QED
  BY <1>1, <1>3, <1>4, <1>5, AddedIs

(* The form of the default set keeps its first rule, as one that does not  *)
(* ask for a password if the administrator asks for none there.            *)
Leads(set) == set.rules # <<>> /\ (~Has("passfirst") => set.rules[1].mode # "P")

LEMMA SetIs ==
  ASSUME NEW d \in {"pub", "pri"}, NEW rules \in Seq(AllRules), NEW set, set = [def |-> d, rules |-> rules]
  PROVE  set \in RuleSets /\ set.def = d /\ set.rules = rules
BY DEF RuleSets

LEMMA RuleRemoved ==
  ASSUME NEW set \in RuleSets, NEW i \in DOMAIN set.rules, NEW s, s = Removed(set, i)
  PROVE  /\ s \in RuleSets /\ (i >= 2 => s.rules # <<>> /\ s.rules[1] = set.rules[1])
         /\ set \in PlainSets => s \in PlainSets
<1>1. PICK d \in {"pub", "pri"}, rs \in Seq(AllRules) : d = set.def /\ rs = set.rules /\ set = [def |-> d, rules |-> rs]
  BY WriteIs
<1>2. i \in 1..Len(rs) /\ Len(rs) \in Nat
  BY <1>1, LenProperties
<1>3. PICK u, v : u = SubSeq(rs, 1, i - 1) /\ v = SubSeq(rs, i + 1, Len(rs))
  OBVIOUS
<1>4. u \in Seq(AllRules) /\ Len(u) = i - 1 /\ \A j \in 1 .. i - 1 : u[j] = rs[j]
  <2>1. /\ SubSeq(rs, 1, i - 1) \in Seq(AllRules) /\ Len(SubSeq(rs, 1, i - 1)) = i - 1
        /\ \A j \in 1 .. i - 1 : SubSeq(rs, 1, i - 1)[j] = rs[j]
    <3>1. \A j \in 1 .. i - 1 : rs[j] \in AllRules
      BY <1>2
    <3>2. 1 \in Int /\ i - 1 \in Int /\ i - 1 >= 0
      BY <1>2
    <3>3. QED
      BY <3>1, <3>2, SubSeqProperties
  <2>2. QED
    BY <1>3, <2>1
<1>5. v \in Seq(AllRules)
  <2>1. \A j \in i + 1 .. Len(rs) : rs[j] \in AllRules
    BY <1>2
  <2>2. i + 1 \in Int /\ Len(rs) \in Int
    BY <1>2
  <2>3. QED
    BY <1>3, <2>1, <2>2, SubSeqProperties
<1>6. PICK w : w = u \o v
  OBVIOUS
<1>7. w \in Seq(AllRules) /\ Len(w) = Len(u) + Len(v) /\ \A j \in 1 .. Len(u) : w[j] = u[j]
  <2>1. u \in Seq(AllRules)
    BY <1>4
  <2>2. QED
    BY <1>5, <1>6, <2>1, ConcatProperties
<1>8. RemoveAt(rs, i) = w
  BY <1>3, <1>6 DEF RemoveAt
<1>9. s = [def |-> d, rules |-> w]
  BY <1>1, <1>8 DEF Removed
<1>10. s \in RuleSets /\ s.rules = w
  BY <1>7, <1>9, SetIs
<1>11. ASSUME i >= 2 PROVE w # <<>> /\ w[1] = rs[1]
  <2>1. 1 \in 1 .. i - 1 /\ 1 \in 1 .. Len(u)
    BY <1>2, <1>4, <1>11
  <2>2. w[1] = rs[1]
    BY <1>4, <1>7, <2>1
  <2>3. Len(w) # 0
    BY <1>2, <1>4, <1>5, <1>7, <1>11, LenProperties
  <2>4. QED
    BY <2>2, <2>3
<1>12. ASSUME set \in PlainSets PROVE s \in PlainSets
  <2>1. rs \in Seq(PlainRules)
    BY <1>1, <1>12, NotNone DEF PlainSets
  <2>2. \A j \in 1..Len(rs) : rs[j] \in PlainRules
    BY <2>1
  <2>3. u \in Seq(PlainRules)
    <3>1. (\A j \in 1 .. i - 1 : rs[j] \in PlainRules) /\ 1 \in Int /\ i - 1 \in Int
      BY <1>2, <2>2
    <3>2. QED
      BY <1>3, <3>1, SubSeqProperties
  <2>4. v \in Seq(PlainRules)
    <3>1. (\A j \in i + 1 .. Len(rs) : rs[j] \in PlainRules) /\ i + 1 \in Int /\ Len(rs) \in Int
      BY <1>2, <2>2
    <3>2. QED
      BY <1>3, <3>1, SubSeqProperties
  <2>5. w \in Seq(PlainRules)
    BY <1>6, <2>3, <2>4
  <2>6. QED
    BY <1>10, <2>5 DEF PlainSets
<1>13. QED
  BY <1>1, <1>10, <1>11, <1>12

LEMMA RuleChanged ==
  ASSUME NEW set \in RuleSets, NEW i \in DOMAIN set.rules, NEW r \in AllRules, NEW s,
         s = Replaced(set, i, r)
  PROVE  /\ s \in RuleSets /\ s.rules # <<>> /\ s.rules[1] = IF i = 1 THEN r ELSE set.rules[1]
         /\ set \in PlainSets /\ Plain(r) => s \in PlainSets
<1>1. PICK d \in {"pub", "pri"}, rs \in Seq(AllRules) : d = set.def /\ rs = set.rules /\ set = [def |-> d, rules |-> rs]
  BY WriteIs
<1>2. i \in 1..Len(rs) /\ Len(rs) \in Nat
  BY <1>1, LenProperties
<1>3. PICK w : w = [rs EXCEPT ![i] = r]
  OBVIOUS
<1>4. w \in Seq(AllRules) /\ w # <<>> /\ w[1] = IF i = 1 THEN r ELSE rs[1]
  <2>1. w \in Seq(AllRules) /\ Len(w) = Len(rs) /\ 1 \in 1..Len(rs)
    BY <1>2, <1>3
  <2>2. QED
    BY <1>2, <1>3, <2>1
<1>5. s = [def |-> d, rules |-> w]
  BY <1>1, <1>3 DEF Replaced
<1>6. s \in RuleSets /\ s.rules = w
  BY <1>4, <1>5, SetIs
<1>7. ASSUME set \in PlainSets, Plain(r) PROVE s \in PlainSets
  <2>1. rs \in Seq(PlainRules) /\ r \in PlainRules
    BY <1>1, <1>7, NotNone DEF PlainSets, PlainRules
  <2>2. w \in Seq(PlainRules)
    BY <1>2, <1>3, <2>1
  <2>3. QED
    BY <1>6, <2>2 DEF PlainSets
<1>8. QED
  BY <1>1, <1>4, <1>6, <1>7

LEMMA DefTurned ==
  ASSUME NEW set \in RuleSets, NEW s, s = Turned(set)
  PROVE  s \in RuleSets /\ s.rules = set.rules /\ (set \in PlainSets => s \in PlainSets)
<1>1. set = [def |-> set.def, rules |-> set.rules] /\ set.rules \in Seq(AllRules)
  BY WriteIs
<1>2. PICK d \in {"pub", "pri"} : d = IF set.def = "pub" THEN "pri" ELSE "pub"
  OBVIOUS
<1>3. s = [def |-> d, rules |-> set.rules]
  BY <1>1, <1>2 DEF Turned
<1>4. s \in RuleSets /\ s.rules = set.rules
  BY <1>1, <1>3, SetIs
<1>5. QED
  BY <1>4, NotNone DEF PlainSets

(* What a form may be turned into.                                         *)
LEMMA EditIs ==
  ASSUME NEW set \in RuleSets, NEW k \in Keys, NEW s \in Edits(set, k)
  PROVE  /\ s \in RuleSets /\ (k = Default /\ Leads(set) => Leads(s))
         /\ set \in PlainSets /\ ~Has("slashes") => s \in PlainSets
<1>1. CASE \E i \in DOMAIN set.rules : (k = Default => i >= 2) /\ s = Removed(set, i)
  <2>1. PICK i \in DOMAIN set.rules : (k = Default => i >= 2) /\ s = Removed(set, i)
    BY <1>1
  <2>2. /\ s \in RuleSets /\ (i >= 2 => s.rules # <<>> /\ s.rules[1] = set.rules[1])
        /\ set \in PlainSets => s \in PlainSets
    BY <2>1, RuleRemoved
  <2>3. QED
    BY <2>1, <2>2 DEF Leads
<1>2. CASE \E i \in DOMAIN set.rules, r \in EditRules :
             MayBe(k, i, r) /\ s = Replaced(set, i, r)
  <2>1. PICK i \in DOMAIN set.rules, r \in EditRules :
             MayBe(k, i, r) /\ s = Replaced(set, i, r)
    BY <1>2
  <2>2. r \in AllRules
    BY ConfigsAssumption
  <2>3. /\ s \in RuleSets /\ s.rules # <<>> /\ s.rules[1] = IF i = 1 THEN r ELSE set.rules[1]
        /\ set \in PlainSets /\ Plain(r) => s \in PlainSets
    BY <2>1, <2>2, RuleChanged
  <2>4. QED
    BY <2>1, <2>3 DEF Leads, MayBe
<1>3. CASE s = Turned(set)
  BY <1>3, DefTurned DEF Leads
<1> DEFINE A == {Removed(set, i) : i \in {j \in DOMAIN set.rules : k = Default => j >= 2}}
           B == UNION {{Replaced(set, i, r) : r \in {q \in EditRules : MayBe(k, i, q)}} :
                         i \in DOMAIN set.rules}
           C == {Turned(set)}
<1>4. Edits(set, k) = A \union C \union B
  BY DEF Edits
<1>5. CASE s \in A
  BY <1>1, <1>5
<1>6. CASE s \in B
  <2>1. PICK i \in DOMAIN set.rules :
          s \in {Replaced(set, i, r) : r \in {q \in EditRules : MayBe(k, i, q)}}
    BY <1>6
  <2>2. QED
    BY <1>2, <2>1
<1>7. CASE s \in C
  BY <1>3, <1>7
<1> HIDE DEF A, B, C
<1>8. QED
  BY <1>4, <1>5, <1>6, <1>7

-----------------------------------------------------------------------------
(* The inductive invariant.  RulesKept speaks of the moments when nobody   *)
(* writes; it rests on what the administrator who writes has in hand, on   *)
(* nobody else writing, on the first rule of the default set, and on what  *)
(* the form of a single administrator shows while he has not posted it.    *)

Stages == {"idle", "make", "lock", "made", "reread", "file", "open", "fill", "filled", "change", "write", "written",
           "show"}

Orders ==
  [op : {"view", "add", "save"}, key : Keys, set : Sets, base : Sets, str : Strings \union {None}]

DeskTyped ==
  /\ pc \in [Admins -> Stages] /\ req \in [Admins -> Orders \union {None}]
  /\ \A a \in Admins : pc[a] # "idle" => a \in work.admins /\ req[a] \in Orders
  /\ shown \in [Admins -> [Keys -> Sets]]

FileTyped ==
  /\ DOMAIN cfg = Keys /\ \A k \in Keys : Readable(cfg[k])
  /\ meant \in [Keys -> Sets]

Locked ==
  /\ \A a \in Admins : pc[a] \in {"made", "fill", "write"} => writer = a
  /\ writer # None => writer \in Admins /\ pc[writer] \in {"lock", "made", "fill", "write"}

(* A file that is not there, or was only just made, has no rule-sets.      *)
Nothing == \A k \in Keys : cfg[k] = None /\ meant[k] = None

Fresh ==
  /\ ~exists => Has("fresh") /\ Nothing /\ \A a \in Admins : pc[a] \in {"idle", "make"}
  /\ \A a \in Admins : /\ pc[a] = "make" => ~exists
                       /\ pc[a] \in {"lock", "made"} => Has("fresh") /\ Nothing

(* What is in the file is what is meant, unless it is being written.       *)
Writing(k) == \E a \in Admins : pc[a] = "write" /\ req[a].key = k
InStep  == \A k \in Keys : cfg[k] = Str(meant[k]) \/ Writing(k)
Pending == \A a \in Admins : pc[a] = "write" => req[a].str = Str(meant[req[a].key])

DefaultFirst ==
  exists /\ (\A a \in Admins : pc[a] \notin {"lock", "made"}) => meant[Default] # None /\ Leads(meant[Default])

Ordered ==
  \A a \in Admins : pc[a] # "idle" =>
    /\ req[a].op = "add" => Has("adds")
    /\ req[a].op = "save" => /\ Has("saves") /\ req[a].set # None
                             /\ req[a].key = Default => Leads(req[a].set)

(* The form of an administrator who is alone shows what is meant, but for  *)
(* a page that had no rule-set, until he posts it; and then he sees it     *)
(* anew.  He adds rules to sets that are there.                            *)
Current(a) == \A k \in Keys : shown[a][k] # None => shown[a][k] = meant[k]

UpToDate ==
  Alone => \A a \in Admins : a \in work.admins =>
    /\ pc[a] \in {"write", "written"} \/ (pc[a] = "show" /\ a \in reads) \/ Current(a)
    /\ pc[a] \notin {"idle", "write", "written", "show"} /\ req[a].op = "save" =>
         req[a].base = meant[req[a].key] /\ req[a].base # None
    /\ pc[a] \notin {"idle", "write", "written", "show"} /\ req[a].op = "add" => meant[req[a].key] # None

(* A set has rules, and the default one a first rule, whatever becomes of  *)
(* it: as it is meant, in the file and in the forms.                       *)
Leading ==
  /\ \A k \in Keys : meant[k] # None => meant[k].rules # <<>>
  /\ cfg[Default] # None => Leads(Parsed(cfg[Default]))
  /\ \A a \in Admins : shown[a][Default] # None => Leads(shown[a][Default])

(* No pattern has a character that is given a slash, if none is to have.   *)
Plainly ==
  ~Has("slashes") =>
    /\ \A k \in Keys : meant[k] \in PlainSets /\ Parsed(cfg[k]) \in PlainSets
    /\ \A a \in Admins : /\ \A k \in Keys : shown[a][k] \in PlainSets
                         /\ pc[a] # "idle" /\ req[a].op = "save" => req[a].set \in PlainSets

Seeing == Alone \/ ~Has("saves") => ~blind

Keeping ==
  /\ DeskTyped /\ FileTyped /\ Locked /\ Fresh /\ InStep /\ Pending
  /\ DefaultFirst /\ Ordered /\ UpToDate /\ Leading /\ Plainly /\ Seeing

KeptInv == Intact => Keeping

-----------------------------------------------------------------------------
(* What the steps of an administrator have in common. *)

LEMMA KeysAre ==
  /\ Keys = {Default, Page} /\ Page # Default /\ None \notin Admins /\ Server \notin Admins
BY AccessAssumption DEF Keys, Clients

Moved(a, l) ==
  /\ pc' \in [Admins -> Stages] /\ pc'[a] = l
  /\ \A b \in Admins : b # a => pc'[b] = pc[b]

LEMMA GotoMoves ==
  ASSUME DeskTyped, NEW a \in Admins, NEW l \in Stages, Goto(a, l)
  PROVE  Moved(a, l)
BY DEF DeskTyped, Goto, Moved

(* Who is alone is the only one who does anything.                         *)
LEMMA OnlyOne ==
  ASSUME Intact, DeskTyped, NEW a \in Admins, NEW b \in Admins, pc[a] # "idle" \/ a \in work.admins, pc[b] # "idle",
         work.db # "flat" \/ Has("fresh")
  PROVE  a = b
BY DEF Intact, DeskTyped, Alone, One

LEMMA PremiseStays ==
  ASSUME work' = work
  PROVE  (Intact' <=> Intact) /\ (Alone' <=> Alone)
BY DEF Intact, Alone, One, Has

LEMMA LeadingStays ==
  ASSUME Leading, UNCHANGED <<work, shown>>, \A k \in Keys : meant'[k] # None => meant'[k].rules # <<>>,
         cfg'[Default] # None => Leads(Parsed(cfg'[Default]))
  PROVE  Leading'
BY DEF Leading, Leads, Has, Parsed

LEMMA LeadingKept ==
  ASSUME Leading, UNCHANGED <<work, shown, meant, cfg>>
  PROVE  Leading'
BY DEF Leading, Leads, Has, Parsed

LEMMA PlainlyStays ==
  ASSUME Plainly, UNCHANGED <<work, shown>>,
         ~Has("slashes") => \A k \in Keys : meant'[k] \in PlainSets /\ Parsed(cfg'[k]) \in PlainSets,
         \A b \in Admins : pc'[b] # "idle" => pc[b] # "idle" /\ req'[b].op = req[b].op /\ req'[b].set = req[b].set
  PROVE  Plainly'
BY DEF Plainly, Has, Parsed

LEMMA PlainlyKept ==
  ASSUME Plainly, UNCHANGED <<work, shown, meant, cfg>>,
         \A b \in Admins : pc'[b] # "idle" => pc[b] # "idle" /\ req'[b].op = req[b].op /\ req'[b].set = req[b].set
  PROVE  Plainly'
BY DEF Plainly, Has, Parsed

LEMMA SeeingStays ==
  ASSUME Seeing, UNCHANGED <<work, blind>>
  PROVE  Seeing'
BY PremiseStays DEF Seeing, Has

(* A file that is there can be read by who was idle, or reads it.          *)
LEMMA NobodyWrites ==
  ASSUME Intact, DeskTyped, Locked, NEW a \in Admins, a \in work.admins, pc[a] \notin {"lock", "made", "fill", "write"},
         exists
  PROVE  CanRead /\ (Alone => writer = None)
<1>1. ASSUME Alone PROVE writer = None
  <2>1. SUFFICES ASSUME writer # None PROVE FALSE
    OBVIOUS
  <2>2. writer \in Admins /\ pc[writer] \in {"lock", "made", "fill", "write"}
    BY <2>1 DEF Locked
  <2>3. writer \in work.admins
    BY <2>2 DEF DeskTyped
  <2>4. writer = a
    BY <1>1, <2>3 DEF Alone, One
  <2>5. QED
    BY <2>2, <2>4
<1>2. work.db = "gdbm" => Alone
  BY DEF Intact
<1>3. QED
  BY <1>1, <1>2 DEF CanRead

(* Nobody but the writer has anything in hand.                             *)
LEMMA AllInStep ==
  ASSUME Locked, InStep, writer = None
  PROVE  \A k \in Keys : cfg[k] = Str(meant[k])
<1>1. \A a \in Admins : pc[a] # "write"
  BY KeysAre DEF Locked
<1>2. QED
  BY <1>1 DEF InStep, Writing

LEMMA RestInStep ==
  ASSUME Locked, InStep, NEW a \in Admins, pc[a] \in {"made", "fill"}
  PROVE  \A k \in Keys : cfg[k] = Str(meant[k])
<1>1. \A b \in Admins : pc[b] # "write"
  BY DEF Locked
<1>2. QED
  BY <1>1 DEF InStep, Writing

(* From one place to another without anything written.                     *)
LEMMA Walks ==
  ASSUME Intact, Keeping, NEW a \in Admins, NEW l \in Stages, Moved(a, l),
         pc[a] \notin {"idle", "show", "made", "fill", "write"},
         l \notin {"make", "lock", "write", "written", "reread"},
         UNCHANGED <<work, exists, cfg, req, shown, meant, blind>>,
         \A b \in Admins : b # a => (b \in reads' <=> b \in reads),
         ~exists => l = "idle",
         l = "made" <=> pc[a] = "lock",
         IF l \in {"made", "fill"} THEN writer' = a /\ writer \in {None, a} ELSE writer' = writer,
         pc[a] = "written" => l = "show" /\ a \in reads'
  PROVE  Keeping'
<1>0. DeskTyped /\ FileTyped /\ Locked /\ Fresh /\ InStep /\ Pending /\ DefaultFirst /\ Ordered /\ UpToDate /\ Leading /\ Plainly /\ Seeing
  BY DEF Keeping
<1>1. DeskTyped'
  BY <1>0 DEF DeskTyped, Moved
<1>2. FileTyped'
  BY <1>0 DEF FileTyped
<1>3. Locked'
  <2>1. ASSUME NEW b \in Admins, pc'[b] \in {"made", "fill", "write"} PROVE writer' = b
    BY <1>0, <2>1, KeysAre DEF Locked, Moved
  <2>2. ASSUME writer' # None PROVE writer' \in Admins /\ pc'[writer'] \in {"lock", "made", "fill", "write"}
    BY <1>0, <2>2, KeysAre DEF Locked, Moved
  <2>3. QED
    BY <2>1, <2>2 DEF Locked
<1>4. Fresh'
  BY <1>0 DEF Fresh, Moved, Nothing, Has
<1>5. InStep'
  <2>1. \A b \in Admins : pc'[b] = "write" <=> pc[b] = "write"
    BY DEF Moved
  <2>2. \A k : Writing(k)' <=> Writing(k)
    BY <2>1 DEF Writing
  <2>3. QED
    BY <1>0, <2>2 DEF InStep
<1>6. Pending'
  BY <1>0 DEF Pending, Moved
<1>7. DefaultFirst'
  <2>1. (\A b \in Admins : pc'[b] \notin {"lock", "made"}) => \A b \in Admins : pc[b] \notin {"lock", "made"}
    BY DEF Moved
  <2>2. QED
    BY <1>0, <2>1 DEF DefaultFirst, Leads, Has
<1>8. Ordered'
  BY <1>0 DEF Ordered, Moved, Leads, Has
<1>9. UpToDate'
  <2>1. \A b : Current(b)' <=> Current(b)
    BY DEF Current
  <2>2. QED
    BY <1>0, <2>1, PremiseStays DEF UpToDate, Moved
<1>10. Plainly'
  BY <1>0, PlainlyKept DEF Moved
<1>11. QED
  BY <1>0, <1>1, <1>2, <1>3, <1>4, <1>5, <1>6, <1>7, <1>8, <1>9, <1>10, LeadingKept, SeeingStays DEF Keeping

LEMMA MadeExists ==
  ASSUME Intact, Keeping, NEW a \in Admins, pc[a] \notin {"idle", "make"}
  PROVE  exists /\ a \in work.admins /\ req[a] \in Orders
BY DEF Keeping, Fresh, DeskTyped

LEMMA LockKeeps ==
  ASSUME Intact, Keeping, NEW a \in Admins, Lock(a)
  PROVE  Keeping'
<1>1. Moved(a, "made")
  BY GotoMoves DEF Lock, Keeping, Stages
<1>2. exists
  BY MadeExists DEF Lock
<1>3. QED
  BY <1>1, <1>2, Walks DEF Lock, Stages, history

LEMMA RereadKeeps ==
  ASSUME Intact, Keeping, NEW a \in Admins, Reread(a)
  PROVE  Keeping'
<1>1. PICK l \in {"file", "idle"} : Goto(a, l)
  BY DEF Reread
<1>2. Moved(a, l)
  BY <1>1, GotoMoves DEF Keeping, Stages
<1>3. exists
  BY MadeExists DEF Reread
<1>4. /\ pc[a] = "reread" /\ writer' = writer /\ \A b \in Admins : b # a => (b \in reads' <=> b \in reads)
      /\ UNCHANGED <<work, exists, cfg, req, shown, meant, blind>>
  BY DEF Reread, OpenToRead, history
<1>5. QED
  BY <1>1, <1>2, <1>3, <1>4, Walks DEF Stages

LEMMA AddFileKeeps ==
  ASSUME Intact, Keeping, NEW a \in Admins, AddFile(a)
  PROVE  Keeping'
<1>1. PICK l \in {"change", "open"} :
        Goto(a, l) /\ \A b \in Admins : b # a => (b \in reads' <=> b \in reads)
  BY DEF AddFile
<1>2. Moved(a, l)
  BY <1>1, GotoMoves DEF Keeping, Stages
<1>3. exists
  BY MadeExists DEF AddFile
<1>4. pc[a] = "file" /\ UNCHANGED <<work, exists, cfg, writer, req, shown, meant, blind>>
  BY DEF AddFile, history
<1>5. QED
  BY <1>1, <1>2, <1>3, <1>4, Walks DEF Stages

LEMMA AddFileOpenKeeps ==
  ASSUME Intact, Keeping, NEW a \in Admins, AddFileOpen(a)
  PROVE  Keeping'
<1>1. PICK l \in {"change", "fill"} :
        /\ Goto(a, l) /\ \A b \in Admins : b # a => (b \in reads' <=> b \in reads)
        /\ IF l = "fill" THEN writer' = a /\ writer = None ELSE writer' = writer
  BY DEF AddFileOpen, Reopened, CanWrite, Refused
<1>2. Moved(a, l)
  BY <1>1, GotoMoves DEF Keeping, Stages
<1>3. exists
  BY MadeExists DEF AddFileOpen
<1>4. pc[a] = "open" /\ UNCHANGED <<work, exists, cfg, req, shown, meant, blind>>
  BY DEF AddFileOpen, history
<1>5. QED
  BY <1>1, <1>2, <1>3, <1>4, Walks DEF Stages

LEMMA AddFileEndKeeps ==
  ASSUME Intact, Keeping, NEW a \in Admins, AddFileEnd(a)
  PROVE  Keeping'
<1>2. Moved(a, "change")
  BY GotoMoves DEF AddFileEnd, Keeping, Stages
<1>3. exists
  BY MadeExists DEF AddFileEnd
<1>4. /\ pc[a] = "filled" /\ writer' = writer /\ \A b \in Admins : b # a => (b \in reads' <=> b \in reads)
      /\ UNCHANGED <<work, exists, cfg, req, shown, meant, blind>>
  BY DEF AddFileEnd, OpenToRead, history
<1>5. QED
  BY <1>2, <1>3, <1>4, Walks DEF Stages

LEMMA ChangeEndKeeps ==
  ASSUME Intact, Keeping, NEW a \in Admins, ChangeEnd(a)
  PROVE  Keeping'
<1>2. Moved(a, "show")
  BY GotoMoves DEF ChangeEnd, Keeping, Stages
<1>3. exists /\ a \in work.admins /\ pc[a] = "written"
  BY MadeExists DEF ChangeEnd
<1>4. CanRead
  BY <1>3, NobodyWrites DEF Keeping
<1>5. /\ writer' = writer /\ a \in reads' /\ \A b \in Admins : b # a => (b \in reads' <=> b \in reads)
      /\ UNCHANGED <<work, exists, cfg, req, shown, meant, blind>>
  BY <1>4 DEF ChangeEnd, OpenToRead, history
<1>6. QED
  BY <1>2, <1>3, <1>5, Walks DEF Stages

(* A request that changes nothing, or may not.                             *)
LEMMA PassedKeeps ==
  ASSUME Intact, Keeping, NEW a \in Admins, pc[a] = "change", Goto(a, "show"), writer' = writer,
         \A b \in Admins : b # a => (b \in reads' <=> b \in reads),
         UNCHANGED <<work, exists, cfg, req, shown, meant, blind>>
  PROVE  Keeping'
<1>2. Moved(a, "show")
  BY GotoMoves DEF Keeping, Stages
<1>3. exists
  BY MadeExists
<1>4. QED
  BY <1>2, <1>3, Walks DEF Stages

(* What an administrator may ask for.                                      *)
Order(op, k, set, base, str) == [op |-> op, key |-> k, set |-> set, base |-> base, str |-> str]

LEMMA OrderIs ==
  ASSUME NEW op, NEW k, NEW set, NEW base, NEW str, NEW r, r = Order(op, k, set, base, str)
  PROVE  r.op = op /\ r.key = k /\ r.set = set /\ r.base = base /\ r.str = str
BY DEF Order

LEMMA OrderTyped ==
  ASSUME NEW op \in {"view", "add", "save"}, NEW k \in Keys, NEW set \in Sets, NEW base \in Sets,
         NEW str \in Strings \union {None}
  PROVE  Order(op, k, set, base, str) \in Orders
BY DEF Order, Orders

LEMMA RequestIs ==
  ASSUME Intact, Keeping, NEW a \in Admins, a \in work.admins, pc[a] = "idle", NEW r \in Requests(a)
  PROVE  /\ r \in Orders
         /\ r.op = "add" => Has("adds") /\ (Alone => meant[r.key] # None)
         /\ r.op = "save" =>
              /\ Has("saves") /\ r.set # None /\ (r.key = Default => Leads(r.set))
              /\ Alone => r.base = meant[r.key] /\ r.base # None
              /\ ~Has("slashes") => r.set \in PlainSets
<1>0. None \in Sets /\ None \in Strings \union {None} /\ Default \in Keys
  BY DEF Sets, Keys
<1>1. CASE r = Order("view", Default, None, None, None)
  BY <1>0, <1>1, OrderIs, OrderTyped
<1>2. CASE \E k \in Keys : Has("adds") /\ shown[a][k] # None /\ r = Order("add", k, None, None, None)
  <2>1. PICK k \in Keys : Has("adds") /\ shown[a][k] # None /\ r = Order("add", k, None, None, None)
    BY <1>2
  <2>2. Alone => meant[k] # None
    BY <2>1 DEF Keeping, UpToDate, Current
  <2>3. QED
    BY <1>0, <2>1, <2>2, OrderIs, OrderTyped
<1>3. CASE \E k \in Keys : /\ Has("saves") /\ shown[a][k] # None
                           /\ \E s \in Edits(shown[a][k], k) : r = Order("save", k, s, shown[a][k], None)
  <2>1. PICK k \in Keys : /\ Has("saves") /\ shown[a][k] # None
                          /\ \E s \in Edits(shown[a][k], k) : r = Order("save", k, s, shown[a][k], None)
    BY <1>3
  <2>2. PICK form \in RuleSets : form = shown[a][k]
    BY <2>1 DEF Keeping, DeskTyped, Sets
  <2>3. PICK s \in Edits(form, k) : r = Order("save", k, s, form, None)
    BY <2>1, <2>2
  <2>5. Alone => form = meant[k]
    BY <2>1, <2>2 DEF Keeping, UpToDate, Current
  <2>6. k = Default => Leads(form)
    BY <2>2, NotNone DEF Keeping, Leading
  <2>7. s \in RuleSets /\ (k = Default => Leads(s)) /\ (~Has("slashes") => s \in PlainSets)
    BY <2>2, <2>6, EditIs DEF Keeping, Plainly
  <2>8. r.op = "save" /\ r.key = k /\ r.set = s /\ r.base = form
    BY <2>3, OrderIs
  <2>9. r \in Orders
    BY <1>0, <2>3, <2>7, OrderTyped DEF Sets
  <2>10. s # None /\ form # None
    BY <2>7, NotNone
  <2>11. QED
    BY <2>1, <2>5, <2>7, <2>8, <2>9, <2>10
<1> DEFINE A == {Order("view", Default, None, None, None)}
           B == {Order("add", k, None, None, None) : k \in {j \in Keys : Has("adds") /\ shown[a][j] # None}}
           C == UNION {{Order("save", k, s, shown[a][k], None) : s \in Edits(shown[a][k], k)} :
                         k \in {j \in Keys : Has("saves") /\ shown[a][j] # None /\ Postable(shown[a][j])}}
<1>4. Requests(a) = A \union B \union C
  BY DEF Requests, Order
<1>5. CASE r \in A
  BY <1>1, <1>5
<1>6. CASE r \in B
  BY <1>2, <1>6
<1>7. CASE r \in C
  <2>1. PICK k \in {j \in Keys : Has("saves") /\ shown[a][j] # None /\ Postable(shown[a][j])} :
          r \in {Order("save", k, s, shown[a][k], None) : s \in Edits(shown[a][k], k)}
    BY <1>7
  <2>2. QED
    BY <1>3, <2>1
<1> HIDE DEF A, B, C
<1>8. QED
  BY <1>4, <1>5, <1>6, <1>7

LEMMA ConfigurationKeeps ==
  ASSUME Intact, Keeping, NEW a \in Admins, Configuration(a)
  PROVE  Keeping'
<1>0. DeskTyped /\ FileTyped /\ Locked /\ Fresh /\ InStep /\ Pending /\ DefaultFirst /\ Ordered /\ UpToDate /\ Leading /\ Plainly /\ Seeing
  BY DEF Keeping
<1>1. a \in work.admins /\ pc[a] = "idle" /\ writer' = writer /\ (\A b \in Admins : b # a => (b \in reads' <=> b \in reads))
      /\ UNCHANGED <<work, exists, cfg, shown, meant, blind>>
  BY DEF Configuration, OpenToRead, history
<1>2. PICK r \in Requests(a) : req' = [req EXCEPT ![a] = r]
  BY DEF Configuration
<1>3. /\ r \in Orders
      /\ r.op = "add" => Has("adds") /\ (Alone => meant[r.key] # None)
      /\ r.op = "save" =>
           /\ Has("saves") /\ r.set # None /\ (r.key = Default => Leads(r.set))
           /\ Alone => r.base = meant[r.key] /\ r.base # None
           /\ ~Has("slashes") => r.set \in PlainSets
  BY <1>1, RequestIs
<1>4. req' \in [Admins -> Orders \union {None}] /\ req'[a] = r /\ \A b \in Admins : b # a => req'[b] = req[b]
  BY <1>0, <1>2, <1>3 DEF DeskTyped
<1>5. PICK l \in {"file", "make"} : Goto(a, l) /\ (l = "file" <=> CanRead)
  BY DEF Configuration
<1>6. Moved(a, l)
  BY <1>0, <1>5, GotoMoves DEF Stages
<1>7. IF exists THEN l = "file" ELSE l = "make"
  <2>1. exists => CanRead
    BY <1>0, <1>1, NobodyWrites
  <2>2. QED
    BY <1>5, <2>1 DEF CanRead
<1>8. DeskTyped'
  BY <1>0, <1>1, <1>3, <1>4, <1>6 DEF DeskTyped, Moved
<1>9. FileTyped'
  BY <1>0, <1>1 DEF FileTyped
<1>10. Locked'
  BY <1>0, <1>1, <1>6, KeysAre DEF Locked, Moved
<1>11. Fresh'
  BY <1>0, <1>1, <1>6, <1>7 DEF Fresh, Moved, Nothing, Has
<1>12. InStep' /\ Pending'
  <2>1. \A b \in Admins : (pc'[b] = "write" <=> pc[b] = "write") /\ (pc[b] = "write" => req'[b] = req[b])
    BY <1>1, <1>4, <1>6 DEF Moved
  <2>2. \A k : Writing(k)' <=> Writing(k)
    BY <2>1 DEF Writing
  <2>3. InStep'
    BY <1>0, <1>1, <2>2 DEF InStep
  <2>4. Pending'
    BY <1>0, <1>1, <2>1 DEF Pending
  <2>5. QED
    BY <2>3, <2>4
<1>13. DefaultFirst'
  <2>1. (\A b \in Admins : pc'[b] \notin {"lock", "made"}) => \A b \in Admins : pc[b] \notin {"lock", "made"}
    BY <1>1, <1>6 DEF Moved
  <2>2. QED
    BY <1>0, <1>1, <2>1 DEF DefaultFirst, Leads, Has
<1>14. Ordered'
  BY <1>0, <1>1, <1>3, <1>4, <1>6 DEF Ordered, Moved, Leads, Has
<1>15. UpToDate'
  <2>1. \A b : Current(b)' <=> Current(b)
    BY <1>1 DEF Current
  <2>2. QED
    BY <1>0, <1>1, <1>3, <1>4, <1>6, <2>1, PremiseStays DEF UpToDate, Moved
<1>16. Plainly'
  <2>1. ASSUME NEW b \in Admins, b # a PROVE req'[b] = req[b] /\ pc'[b] = pc[b]
    BY <1>4, <1>6, <2>1 DEF Moved
  <2>2. UNCHANGED <<work, cfg, shown, meant>>
    BY <1>1
  <2>3. QED
    BY <1>0, <1>3, <1>4, <2>1, <2>2 DEF Plainly, Has, Parsed
<1>17. QED
  BY <1>0, <1>1, <1>8, <1>9, <1>10, <1>11, <1>12, <1>13, <1>14, <1>15, <1>16, LeadingKept, SeeingStays DEF Keeping

LEMMA MakeKeeps ==
  ASSUME Intact, Keeping, NEW a \in Admins, Make(a)
  PROVE  Keeping'
<1>0. DeskTyped /\ FileTyped /\ Locked /\ Fresh /\ InStep /\ Pending /\ DefaultFirst /\ Ordered /\ UpToDate /\ Leading /\ Plainly /\ Seeing
  BY DEF Keeping
<1>1. pc[a] = "make" /\ ~exists /\ a \in work.admins /\ UNCHANGED <<work, req, shown, meant, blind>> /\ Has("fresh")
      /\ \A b \in Admins : b # a => pc[b] = "idle"
  <2>1. pc[a] = "make" /\ ~exists /\ a \in work.admins /\ UNCHANGED <<work, req, shown, meant, blind>> /\ Has("fresh")
    BY <1>0 DEF Make, Fresh, DeskTyped, history
  <2>2. ASSUME NEW b \in Admins, pc[b] # "idle" PROVE b = a
    BY <1>0, <2>1, <2>2, OnlyOne
  <2>3. QED
    BY <2>1, <2>2
<1>2. CASE Goto(a, "idle") /\ UNCHANGED file
  <2>1. Moved(a, "idle")
    BY <1>0, <1>2, GotoMoves DEF Stages
  <2>2. QED
    BY <1>1, <1>2, <2>1, Walks DEF Stages, file
<1>3. CASE /\ exists' = TRUE /\ cfg' = Empty /\ Goto(a, "lock") /\ reads' = reads
           /\ writer' = IF work.db = "gdbm" THEN a ELSE writer
  <2>1. Moved(a, "lock")
    BY <1>0, <1>3, GotoMoves DEF Stages
  <2>2. Nothing' /\ Nothing
    BY <1>0, <1>1, <1>3 DEF Nothing, Empty, Fresh
  <2>3. writer = None
    BY <1>0, <1>1, KeysAre DEF Locked
  <2>4. DeskTyped'
    BY <1>0, <1>1, <2>1 DEF DeskTyped, Moved
  <2>5. FileTyped'
    BY <1>0, <1>1, <1>3 DEF FileTyped, Empty, Readable
  <2>6. Locked'
    BY <1>1, <1>3, <2>1, <2>3, KeysAre DEF Locked, Moved
  <2>7. Fresh'
    BY <1>1, <1>3, <2>1, <2>2 DEF Fresh, Moved, Has
  <2>8. InStep'
    BY <2>2 DEF InStep, Nothing, Str
  <2>9. Pending'
    BY <1>1, <2>1 DEF Pending, Moved
  <2>10. DefaultFirst'
    BY <2>1 DEF DefaultFirst, Moved
  <2>11. Ordered'
    BY <1>0, <1>1, <2>1 DEF Ordered, Moved, Leads, Has
  <2>12. UpToDate'
    <3>1. \A b : Current(b)' <=> Current(b)
      BY <1>1 DEF Current
    <3>2. QED
      BY <1>0, <1>1, <1>3, <2>1, <3>1, PremiseStays DEF UpToDate, Moved
  <2>13. Leading'
    BY <1>0, <1>1, <2>2, LeadingStays, KeysAre DEF Leading, Nothing
  <2>14. Plainly'
    <3>1. \A k \in Keys : meant'[k] \in PlainSets /\ Parsed(cfg'[k]) \in PlainSets
      BY <2>2 DEF Nothing, PlainSets, Parsed
    <3>2. QED
      BY <1>0, <1>1, <2>1, <3>1, PlainlyStays DEF Moved
  <2>15. QED
    BY <1>0, <1>1, <2>4, <2>5, <2>6, <2>7, <2>8, <2>9, <2>10, <2>11, <2>12, <2>13, <2>14, SeeingStays DEF Keeping
<1>4. QED
  BY <1>2, <1>3 DEF Make

LEMMA MadeKeeps ==
  ASSUME Intact, Keeping, NEW a \in Admins, Made(a)
  PROVE  Keeping'
<1>0. DeskTyped /\ FileTyped /\ Locked /\ Fresh /\ InStep /\ Pending /\ DefaultFirst /\ Ordered /\ UpToDate /\ Leading /\ Plainly /\ Seeing
  BY DEF Keeping
<1>1. /\ pc[a] = "made" /\ exists /\ a \in work.admins /\ Has("fresh") /\ Nothing
      /\ UNCHANGED <<work, exists, reads, req, shown, blind>>
      /\ writer' = None /\ Goto(a, "reread")
      /\ \A b \in Admins : b # a => pc[b] = "idle"
  <2>1. pc[a] = "made" /\ exists /\ a \in work.admins /\ Has("fresh") /\ Nothing
    BY <1>0, MadeExists DEF Made, Fresh
  <2>2. ASSUME NEW b \in Admins, pc[b] # "idle" PROVE b = a
    BY <1>0, <2>1, <2>2, OnlyOne
  <2>3. QED
    BY <2>1, <2>2 DEF Made
<1>2. Moved(a, "reread")
  BY <1>0, <1>1, GotoMoves DEF Stages
<1>3. /\ DOMAIN cfg' = Keys /\ cfg'[Default] = Initial /\ cfg'[Page] = None
      /\ meant' \in [Keys -> Sets] /\ meant'[Default] = InitialSet /\ meant'[Page] = None
  <2>1. cfg' = [cfg EXCEPT ![Default] = Initial]
        /\ meant' = [meant EXCEPT ![Default] = IF @ = None THEN StrtoAccess(Initial) ELSE @]
    BY DEF Made
  <2>2. InitialSet \in Sets /\ StrtoAccess(Initial) = InitialSet
    BY InitialIs DEF Sets
  <2>3. QED
    BY <1>0, <1>1, <2>1, <2>2, KeysAre DEF FileTyped, Nothing
<1>4. \A k \in Keys : cfg'[k] = Str(meant'[k]) /\ Readable(cfg'[k])
  <2>1. Str(InitialSet) = Initial /\ Str(None) = None
    BY InitialIs, NotNone DEF Str
  <2>2. Readable(Initial) /\ Readable(None)
    BY InitialIs DEF Readable
  <2>3. QED
    BY <1>3, <2>1, <2>2, KeysAre
<1>5. DeskTyped'
  BY <1>0, <1>1, <1>2 DEF DeskTyped, Moved
<1>6. FileTyped'
  BY <1>3, <1>4 DEF FileTyped
<1>7. Locked'
  BY <1>1, <1>2 DEF Locked, Moved
<1>8. Fresh'
  BY <1>1, <1>2 DEF Fresh, Moved
<1>9. InStep'
  BY <1>4 DEF InStep, Str
<1>10. Pending'
  BY <1>1, <1>2 DEF Pending, Moved
<1>11. DefaultFirst'
  BY <1>3, InitialIs, NotNone DEF DefaultFirst, Leads
<1>12. Ordered'
  BY <1>0, <1>1, <1>2 DEF Ordered, Moved, Leads, Has
<1>13. UpToDate'
  <2>1. ASSUME Alone, NEW b \in Admins, b \in work.admins
        PROVE  b = a /\ Current(b)' /\ pc'[b] = "reread" /\ req'[b].op \notin {"save", "add"}
    <3>1. b = a
      BY <1>1, <2>1 DEF Alone, One
    <3>2. (\A k \in Keys : shown[b][k] = None) /\ req[b].op \notin {"save", "add"}
      <4>1. /\ Current(b) /\ (req[b].op = "save" => req[b].base = meant[req[b].key] /\ req[b].base # None)
            /\ req[b].op = "add" => meant[req[b].key] # None
        BY <1>0, <1>1, <2>1, <3>1 DEF UpToDate
      <4>2. req[b].key \in Keys
        BY <1>0, <1>1, <3>1 DEF DeskTyped, Orders
      <4>3. QED
        BY <1>1, <4>1, <4>2 DEF Current, Nothing
    <3>3. QED
      BY <1>1, <1>2, <3>1, <3>2 DEF Current, Moved
  <2>2. QED
    BY <1>1, <2>1, PremiseStays DEF UpToDate
<1>14. Leading'
  <2>1. \A k \in Keys : meant'[k] # None => meant'[k].rules # <<>>
    BY <1>3, InitialIs, KeysAre
  <2>2. Leads(Parsed(cfg'[Default]))
    BY <1>3, InitialIs DEF Parsed, Leads
  <2>3. QED
    BY <1>0, <1>1, <2>1, <2>2, LeadingStays
<1>15. Plainly'
  <2>1. \A k \in Keys : meant'[k] \in PlainSets /\ Parsed(cfg'[k]) \in PlainSets
    <3>1. InitialSet \in PlainSets /\ None \in PlainSets /\ Parsed(None) = None /\ Parsed(Initial) = InitialSet
      BY InitialIs DEF PlainSets, Parsed
    <3>2. QED
      BY <1>3, <3>1, KeysAre
  <2>2. QED
    BY <1>0, <1>1, <1>2, <2>1, PlainlyStays DEF Moved
<1>16. QED
  BY <1>0, <1>1, <1>5, <1>6, <1>7, <1>8, <1>9, <1>10, <1>11, <1>12, <1>13, <1>14, <1>15, SeeingStays DEF Keeping

LEMMA NobodyMakes ==
  ASSUME Intact, DeskTyped, Fresh, NEW a \in Admins, pc[a] \notin {"idle", "lock", "made"}
  PROVE  \A b \in Admins : pc[b] \notin {"lock", "made"}
<1>1. SUFFICES ASSUME NEW b \in Admins, pc[b] \in {"lock", "made"} PROVE FALSE
  OBVIOUS
<1>2. a = b
  BY <1>1, OnlyOne DEF Fresh
<1>3. QED
  BY <1>1, <1>2

LEMMA NoString ==
  ASSUME NEW set \in Sets
  PROVE  Str(set) = None <=> set = None
BY NotNone DEF Sets, Str

(* The password is always there.                                           *)
LEMMA NobodyAsks ==
  ASSUME Intact, Keeping, NEW a \in Admins
  PROVE  ~AskPassword(a)
<1>0. DeskTyped /\ FileTyped /\ Locked /\ Fresh /\ InStep /\ DefaultFirst
  BY DEF Keeping
<1>1. SUFFICES ASSUME pc[a] = "file", work.db = "gdbm", cfg[Default] = None PROVE FALSE
  BY DEF AskPassword, NoPassword
<1>2. exists /\ a \in work.admins
  BY <1>1, MadeExists
<1>3. writer = None
  BY <1>0, <1>1, <1>2, NobodyWrites DEF Intact
<1>4. cfg[Default] = Str(meant[Default]) /\ meant[Default] \in Sets
  BY <1>0, <1>3, AllInStep, KeysAre DEF FileTyped
<1>5. meant[Default] # None
  BY <1>0, <1>1, <1>2, NobodyMakes DEF DefaultFirst
<1>6. QED
  BY <1>1, <1>4, <1>5, NoString

(* The page is given the default set, where it has none yet.               *)
LEMMA AddFileInsertKeeps ==
  ASSUME Intact, Keeping, NEW a \in Admins, AddFileInsert(a)
  PROVE  Keeping'
<1>0. DeskTyped /\ FileTyped /\ Locked /\ Fresh /\ InStep /\ Pending /\ DefaultFirst /\ Ordered /\ UpToDate /\ Leading /\ Plainly /\ Seeing
  BY DEF Keeping
<1>1. /\ pc[a] = "fill" /\ exists /\ a \in work.admins /\ UNCHANGED <<work, exists, reads, req, shown, blind>>
      /\ writer' = None /\ Goto(a, "filled")
  BY MadeExists DEF AddFileInsert
<1>2. \A b \in Admins : pc[b] \notin {"lock", "made", "write"}
  <2>1. SUFFICES ASSUME NEW b \in Admins, pc[b] \in {"lock", "made", "write"} PROVE FALSE
    OBVIOUS
  <2>2. writer = a
    BY <1>0, <1>1 DEF Locked
  <2>3. pc[b] = "lock"
    BY <1>0, <1>1, <2>1, <2>2 DEF Locked
  <2>4. a = b
    BY <1>0, <1>1, <2>3, OnlyOne DEF Fresh
  <2>5. QED
    BY <1>1, <2>3, <2>4
<1>3. Moved(a, "filled")
  BY <1>0, <1>1, GotoMoves DEF Stages
<1>4. \A k \in Keys : meant[k] \in Sets /\ cfg[k] = Str(meant[k]) /\ (cfg[k] = None <=> meant[k] = None)
  <2>1. \A k \in Keys : meant[k] \in Sets /\ cfg[k] = Str(meant[k])
    BY <1>0, <1>1, RestInStep DEF FileTyped
  <2>2. QED
    BY <2>1, NoString
<1>5. PICK all, set : all = cfg[Default] /\ set = meant[Default]
  OBVIOUS
<1>6. Readable(all) /\ set \in Sets /\ all = Str(set) /\ set # None /\ set.rules # <<>>
  BY <1>0, <1>1, <1>2, <1>4, <1>5, KeysAre DEF FileTyped, DefaultFirst, Leads
<1>7. /\ cfg' = [cfg EXCEPT ![Page] = IF @ = None THEN all ELSE @]
      /\ meant' = [meant EXCEPT ![Page] = IF @ = None THEN set ELSE @]
  BY <1>5, Zenon DEF AddFileInsert
<1>8. /\ DOMAIN cfg' = Keys /\ meant' \in [Keys -> Sets]
      /\ \A k \in Keys : (k # Page \/ meant[k] # None) => cfg'[k] = cfg[k] /\ meant'[k] = meant[k]
      /\ meant[Page] = None => cfg'[Page] = all /\ meant'[Page] = set
  BY <1>0, <1>4, <1>6, <1>7, KeysAre DEF FileTyped
<1>9. \A k \in Keys : cfg'[k] = Str(meant'[k]) /\ Readable(cfg'[k])
  <2>1. ASSUME NEW k \in Keys, k # Page \/ meant[k] # None PROVE cfg'[k] = Str(meant'[k]) /\ Readable(cfg'[k])
    BY <1>0, <1>4, <1>8, <2>1 DEF FileTyped
  <2>2. ASSUME meant[Page] = None PROVE cfg'[Page] = Str(meant'[Page]) /\ Readable(cfg'[Page])
    BY <1>6, <1>8, <2>2
  <2>3. QED
    BY <2>1, <2>2
<1>10. DeskTyped'
  BY <1>0, <1>1, <1>3 DEF DeskTyped, Moved
<1>11. FileTyped'
  BY <1>8, <1>9 DEF FileTyped
<1>12. Locked'
  BY <1>0, <1>1, <1>3 DEF Locked, Moved
<1>13. Fresh'
  BY <1>0, <1>1, <1>2, <1>3 DEF Fresh, Moved
<1>14. InStep'
  BY <1>9 DEF InStep, Str
<1>15. Pending'
  BY <1>2, <1>3 DEF Pending, Moved
<1>16. DefaultFirst'
  BY <1>0, <1>1, <1>2, <1>8, KeysAre DEF DefaultFirst, Leads, Has
<1>17. Ordered'
  BY <1>0, <1>1, <1>3 DEF Ordered, Moved, Leads, Has
<1>18. UpToDate'
  <2>1. ASSUME NEW b, Current(b) PROVE Current(b)'
    BY <1>1, <1>8, <2>1 DEF Current
  <2>2. ASSUME Alone, NEW b \in Admins, b \in work.admins
        PROVE  /\ b = a /\ Current(b)' /\ pc'[b] = "filled"
               /\ req'[b].op = "save" => req'[b].base = meant'[req'[b].key] /\ req'[b].base # None
               /\ req'[b].op = "add" => meant'[req'[b].key] # None
    <3>1. b = a
      BY <1>1, <2>2 DEF Alone, One
    <3>2. /\ Current(b) /\ (req[b].op = "save" => req[b].base = meant[req[b].key] /\ req[b].base # None)
          /\ req[b].op = "add" => meant[req[b].key] # None
      BY <1>0, <1>1, <2>2, <3>1 DEF UpToDate
    <3>3. req[b].key \in Keys
      BY <1>0, <1>1, <3>1 DEF DeskTyped, Orders
    <3>4. QED
      BY <1>1, <1>3, <1>8, <2>1, <3>1, <3>2, <3>3 DEF Moved
  <2>3. QED
    BY <1>1, <2>2, PremiseStays DEF UpToDate
<1>19. Leading'
  <2>2. \A k \in Keys : meant'[k] # None => meant'[k].rules # <<>>
    BY <1>0, <1>6, <1>8 DEF Leading
  <2>3. cfg'[Default] = cfg[Default]
    BY <1>8, KeysAre
  <2>4. QED
    BY <1>0, <1>1, <2>2, <2>3, LeadingStays DEF Leading
<1>20. Plainly'
  <2>1. \A k \in Keys : Parsed(cfg'[k]) = meant'[k] /\ meant'[k] \in {meant[k], set}
    BY <1>4, <1>6, <1>8, <1>9, StrRead
  <2>2. ~Has("slashes") => \A k \in Keys : meant'[k] \in PlainSets /\ Parsed(cfg'[k]) \in PlainSets
    BY <1>0, <1>5, <2>1, KeysAre DEF Plainly
  <2>3. QED
    BY <1>0, <1>1, <1>3, <2>2, PlainlyStays DEF Moved
<1>21. QED
  BY <1>0, <1>1, <1>10, <1>11, <1>12, <1>13, <1>14, <1>15, <1>16, <1>17, <1>18, <1>19, <1>20, SeeingStays DEF Keeping

LEMMA ChangeWriteKeeps ==
  ASSUME Intact, Keeping, NEW a \in Admins, ChangeWrite(a)
  PROVE  Keeping'
<1>0. DeskTyped /\ FileTyped /\ Locked /\ Fresh /\ InStep /\ Pending /\ DefaultFirst /\ Ordered /\ UpToDate /\ Leading /\ Plainly /\ Seeing
  BY DEF Keeping
<1>1. /\ pc[a] = "write" /\ exists /\ a \in work.admins /\ UNCHANGED <<work, exists, reads, req, shown, meant, blind>>
      /\ writer' = None /\ Goto(a, "written") /\ req[a].key \in Keys
      /\ cfg' = [cfg EXCEPT ![req[a].key] = req[a].str]
  BY MadeExists DEF ChangeWrite, Orders, history
<1>2. /\ \A b \in Admins : pc[b] = "write" => b = a
      /\ \A b \in Admins : pc[b] \notin {"made", "fill"}
  BY <1>0, <1>1 DEF Locked
<1>3. Moved(a, "written")
  BY <1>0, <1>1, GotoMoves DEF Stages
<1>4. \A k \in Keys : meant[k] \in Sets /\ cfg'[k] = Str(meant[k])
  <2>1. req[a].str = Str(meant[req[a].key])
    BY <1>0, <1>1 DEF Pending
  <2>2. ASSUME NEW k \in Keys, k # req[a].key PROVE cfg[k] = Str(meant[k])
    BY <1>0, <1>2, <2>2 DEF InStep, Writing
  <2>3. QED
    BY <1>0, <1>1, <2>1, <2>2 DEF FileTyped
<1>5. DeskTyped'
  BY <1>0, <1>1, <1>3 DEF DeskTyped, Moved
<1>6. FileTyped'
  <2>1. \A k \in Keys : Readable(cfg'[k])
    BY <1>4, StrRead
  <2>2. QED
    BY <1>0, <1>1, <2>1 DEF FileTyped
<1>7. Locked'
  BY <1>1, <1>2, <1>3 DEF Locked, Moved
<1>8. Fresh'
  <2>1. \A b \in Admins : pc[b] # "lock"
    <3>1. SUFFICES ASSUME NEW b \in Admins, pc[b] = "lock" PROVE FALSE
      OBVIOUS
    <3>2. a = b
      BY <1>0, <1>1, <3>1, OnlyOne DEF Fresh
    <3>3. QED
      BY <1>1, <3>1, <3>2
  <2>2. QED
    BY <1>0, <1>1, <1>2, <1>3, <2>1 DEF Fresh, Moved
<1>9. InStep'
  BY <1>1, <1>4 DEF InStep, Str
<1>10. Pending'
  BY <1>2, <1>3 DEF Pending, Moved
<1>11. DefaultFirst'
  <2>1. (\A b \in Admins : pc'[b] \notin {"lock", "made"}) => \A b \in Admins : pc[b] \notin {"lock", "made"}
    BY <1>1, <1>3 DEF Moved
  <2>2. QED
    BY <1>0, <1>1, <2>1 DEF DefaultFirst, Leads, Has
<1>12. Ordered'
  BY <1>0, <1>1, <1>3 DEF Ordered, Moved, Leads, Has
<1>13. UpToDate'
  <2>1. \A b : Current(b)' <=> Current(b)
    BY <1>1 DEF Current
  <2>2. QED
    BY <1>0, <1>1, <1>3, <2>1, PremiseStays DEF UpToDate, Moved
<1>14. Leading'
  <2>1. meant[Default] # None /\ Leads(meant[Default])
    BY <1>0, <1>1, NobodyMakes DEF DefaultFirst
  <2>2. Parsed(cfg'[Default]) = meant[Default]
    BY <1>4, KeysAre, StrRead
  <2>3. QED
    BY <1>0, <1>1, <2>1, <2>2, LeadingStays DEF Leading
<1>15. Plainly'
  <2>1. \A k \in Keys : Parsed(cfg'[k]) = meant[k]
    BY <1>4, StrRead
  <2>2. ~Has("slashes") => \A k \in Keys : meant'[k] \in PlainSets /\ Parsed(cfg'[k]) \in PlainSets
    BY <1>0, <1>1, <2>1 DEF Plainly
  <2>3. QED
    BY <1>0, <1>1, <1>3, <2>2, PlainlyStays DEF Moved
<1>16. QED
  BY <1>0, <1>1, <1>5, <1>6, <1>7, <1>8, <1>9, <1>10, <1>11, <1>12, <1>13, <1>14, <1>15, SeeingStays DEF Keeping

LEMMA InHand ==
  ASSUME NEW r \in Orders, NEW s \in Strings \union {None}, NEW q, q = [r EXCEPT !.str = s]
  PROVE  q \in Orders /\ q.str = s /\ q.op = r.op /\ q.key = r.key /\ q.set = r.set /\ q.base = r.base
<1>1. r = Order(r.op, r.key, r.set, r.base, r.str) /\ r.op \in {"view", "add", "save"} /\ r.key \in Keys
      /\ r.set \in Sets /\ r.base \in Sets
  BY DEF Orders, Order
<1>2. q = Order(r.op, r.key, r.set, r.base, s)
  BY <1>1 DEF Order
<1>3. QED
  BY <1>1, <1>2, OrderIs, OrderTyped

(* What is put together for the file is the rule-set that is meant.        *)
Meant(r) ==
  IF r.op = "save" THEN IF r.set.rules = <<>> THEN None ELSE r.set
  ELSE [def   |-> IF meant[r.key] = None THEN "pub" ELSE meant[r.key].def,
        rules |-> Append(IF meant[r.key] = None THEN <<>> ELSE meant[r.key].rules, meant[Default].rules[1])]

LEMMA NewStringIs ==
  ASSUME Intact, FileTyped, NEW r \in Orders, r.op \in {"add", "save"},
         \A k \in Keys : cfg[k] = Str(meant[k]),
         r.op = "add" => Has("adds") /\ meant[Default] # None /\ Leads(meant[Default]),
         r.op = "add" /\ meant[r.key] = None => work.db # "gdbm",
         r.op = "save" => r.set # None /\ (r.key = Default => Leads(r.set)),
         ~Has("slashes") => (\A k \in Keys : meant[k] \in PlainSets) /\ (r.op = "save" => r.set \in PlainSets)
  PROVE  /\ Meant(r) \in Sets /\ NewString(r) = Str(Meant(r))
         /\ r.key = Default => Meant(r) # None /\ Leads(Meant(r))
         /\ Meant(r) # None => Meant(r).rules # <<>>
         /\ ~Has("slashes") => Meant(r) \in PlainSets
<1>1. CASE r.op = "save"
  <2>1. r.set \in RuleSets
    BY <1>1 DEF Orders, Sets
  <2>2. Meant(r) = IF r.set.rules = <<>> THEN None ELSE r.set
    BY <1>1 DEF Meant
  <2>3. NewString(r) = IF r.set.rules = <<>> THEN None ELSE Write(r.set)
    BY <1>1 DEF NewString
  <2>4. r.set # None /\ (r.key = Default => Leads(r.set))
    BY <1>1
  <2>5. ~Has("slashes") => Meant(r) \in PlainSets
    BY <1>1, <2>2 DEF PlainSets
  <2>6. QED
    BY <2>1, <2>2, <2>3, <2>4, <2>5 DEF Str, Sets, Leads
<1>2. CASE r.op = "add"
  <2>1. r.key \in Keys /\ Default \in Keys /\ meant[r.key] \in Sets /\ ~Has("passfirst") /\ ~Has("slashes")
    BY <1>2 DEF Orders, FileTyped, Keys, Intact
  <2>2. PICK dft \in RuleSets : dft = meant[Default] /\ dft \in PlainSets /\ dft # None
    BY <1>2, <2>1 DEF FileTyped, Sets
  <2>3. dft.rules # <<>> /\ dft.rules[1].mode # "P" /\ cfg[Default] = Write(dft) /\ cfg[Default] # None
    BY <1>2, <2>1, <2>2, NotNone DEF Leads, Str
  <2>4. CASE meant[r.key] = None
    <3>1. PICK new : new = [def |-> "pub", rules |-> <<dft.rules[1]>>]
      OBVIOUS
    <3>2. Append(<<>>, dft.rules[1]) = <<dft.rules[1]>>
      OBVIOUS
    <3>3. Meant(r) = new
      BY <1>2, <2>2, <2>4, <3>1, <3>2 DEF Meant
    <3>4. cfg[r.key] = None
      BY <2>1, <2>4 DEF Str
    <3>5. NewString(r) = Added(<<Field("def", "pub")>>, Write(dft))
      BY <1>2, <2>3, <2>4, <3>4 DEF NewString
    <3>6. Added(<<Field("def", "pub")>>, Write(dft)) = Write(new) /\ new \in RuleSets /\ new \in PlainSets
      BY <2>2, <2>3, <3>1, AddedToNone
    <3>7. r.key # Default
      BY <1>2, <2>4
    <3>8. new.rules # <<>>
      BY <3>1
    <3>9. QED
      BY <3>3, <3>5, <3>6, <3>7, <3>8, NotNone DEF Str, Sets
  <2>5. CASE meant[r.key] # None
    <3>1. PICK set \in RuleSets : set = meant[r.key] /\ set \in PlainSets /\ set # None
      BY <2>1, <2>5 DEF Sets
    <3>2. Meant(r) = WithRule(set, dft.rules[1])
      BY <1>2, <2>2, <2>5, <3>1 DEF Meant, WithRule
    <3>3. cfg[r.key] = Write(set) /\ cfg[r.key] # None
      BY <2>1, <2>5, <3>1, NotNone DEF Str
    <3>4. NewString(r) = Added(Write(set), Write(dft))
      BY <1>2, <2>3, <3>3 DEF NewString
    <3>5. /\ Added(Write(set), Write(dft)) = Write(WithRule(set, dft.rules[1]))
          /\ WithRule(set, dft.rules[1]) \in RuleSets /\ WithRule(set, dft.rules[1]) \in PlainSets
      BY <2>2, <2>3, <3>1, AddedIs
    <3>6. Meant(r) \in RuleSets /\ Meant(r) \in PlainSets /\ Meant(r) # None /\ NewString(r) = Str(Meant(r))
      BY <3>2, <3>4, <3>5, NotNone DEF Str
    <3>7. r.key = Default => Leads(Meant(r))
      <4>1. SUFFICES ASSUME r.key = Default PROVE Leads(WithRule(set, dft.rules[1]))
        BY <3>2
      <4>2. PICK d \in {"pub", "pri"}, rs \in Seq(AllRules) : set.def = d /\ set.rules = rs
        BY WriteIs
      <4>3. rs # <<>> /\ rs[1].mode # "P" /\ dft.rules[1] \in AllRules
        BY <2>2, <2>3, <3>1, <4>1, <4>2, WriteIs
      <4>4. WithRule(set, dft.rules[1]).rules = Append(rs, dft.rules[1])
        BY <4>2 DEF WithRule
      <4>5. Append(rs, dft.rules[1]) # <<>> /\ Append(rs, dft.rules[1])[1] = rs[1]
        BY <4>2, <4>3
      <4>6. QED
        BY <4>3, <4>4, <4>5 DEF Leads
    <3>8. Meant(r).rules # <<>>
      <4>1. PICK d \in {"pub", "pri"}, rs \in Seq(AllRules) : set.def = d /\ set.rules = rs
        BY WriteIs
      <4>2. Append(rs, dft.rules[1]) # <<>>
        BY <4>1
      <4>3. QED
        BY <3>2, <4>1, <4>2 DEF WithRule
    <3>9. QED
      BY <3>6, <3>7, <3>8 DEF Sets
  <2>6. QED
    BY <2>4, <2>5
<1>3. QED
  BY <1>1, <1>2

(* The file is locked, and the old string perhaps taken out already.       *)
LEMMA ReopenedKeeps ==
  ASSUME Intact, Keeping, NEW a \in Admins, Change(a), Reopened(a), req[a].op # "view", Goto(a, "write"),
         req' = [req EXCEPT ![a].str = NewString(req[a])],
         cfg' = IF work.db = "flat" THEN [cfg EXCEPT ![req[a].key] = None] ELSE cfg,
         blind' = (blind \/ (req[a].op = "save" /\ Parsed(cfg[req[a].key]) # req[a].base)),
         meant' = [meant EXCEPT ![req[a].key] = Meant(req[a])],
         exists' = exists
  PROVE  Keeping'
<1>0. DeskTyped /\ FileTyped /\ Locked /\ Fresh /\ InStep /\ Pending /\ DefaultFirst /\ Ordered /\ UpToDate /\ Leading /\ Plainly /\ Seeing
  BY DEF Keeping
<1>1. pc[a] = "change" /\ exists /\ a \in work.admins /\ req[a] \in Orders /\ UNCHANGED <<work, shown>>
  BY MadeExists DEF Change
<1>2. writer = None /\ writer' = a /\ \A b \in Admins : pc[b] \notin {"made", "fill", "write", "lock"}
  BY <1>0, <1>1, KeysAre, NobodyMakes DEF Reopened, CanWrite, Locked
<1>3. Moved(a, "write")
  BY <1>0, GotoMoves DEF Stages
<1>4. PICK r \in Orders : r = req[a]
  BY <1>1
<1>5. r.op \in {"add", "save"} /\ r.key \in Keys
  BY <1>4 DEF Orders
<1>6. \A k \in Keys : meant[k] \in Sets /\ cfg[k] = Str(meant[k])
  BY <1>0, <1>2, AllInStep DEF FileTyped
<1>7. meant[Default] # None /\ Leads(meant[Default])
  BY <1>0, <1>1, <1>2 DEF DefaultFirst
<1>8. /\ r.op = "add" => Has("adds") /\ (meant[r.key] = None => work.db # "gdbm")
      /\ r.op = "save" => Has("saves") /\ r.set # None /\ (r.key = Default => Leads(r.set))
      /\ ~Has("slashes") => (\A k \in Keys : meant[k] \in PlainSets) /\ (r.op = "save" => r.set \in PlainSets)
  BY <1>0, <1>1, <1>4 DEF Ordered, Plainly, UpToDate, Intact
<1>9. PICK set, str : set = Meant(r) /\ str = NewString(r)
  OBVIOUS
<1>10. /\ set \in Sets /\ str = Str(set) /\ (r.key = Default => set # None /\ Leads(set)) /\ str \in Strings \union {None}
       /\ set # None => set.rules # <<>>
       /\ ~Has("slashes") => set \in PlainSets
  BY <1>0, <1>5, <1>6, <1>7, <1>8, <1>9, NewStringIs, StrRead
<1>11. PICK q : q = [r EXCEPT !.str = str]
  OBVIOUS
<1>12. q \in Orders /\ q.str = str /\ q.op = r.op /\ q.key = r.key /\ q.set = r.set /\ q.base = r.base
  BY <1>10, <1>11, InHand
<1>13. /\ req' \in [Admins -> Orders \union {None}] /\ req'[a] = q
       /\ \A b \in Admins : b # a => req'[b] = req[b]
  BY <1>0, <1>4, <1>9, <1>11, <1>12 DEF DeskTyped
<1>14. /\ meant' \in [Keys -> Sets] /\ meant'[r.key] = set
       /\ \A k \in Keys : k # r.key => meant'[k] = meant[k] /\ cfg'[k] = cfg[k]
       /\ DOMAIN cfg' = Keys /\ cfg'[r.key] \in {cfg[r.key], None}
  <2>1. meant' = [meant EXCEPT ![r.key] = set]
    BY <1>4, <1>9
  <2>2. cfg' = [cfg EXCEPT ![r.key] = None] \/ cfg' = cfg
    BY <1>4
  <2>3. QED
    BY <1>0, <1>5, <1>10, <2>1, <2>2 DEF FileTyped
<1>15. Seeing'
  <2>1. ASSUME r.op = "save", Alone PROVE Parsed(cfg[r.key]) = r.base
    <3>1. r.base = meant[r.key]
      BY <1>0, <1>1, <1>4, <2>1 DEF UpToDate
    <3>2. QED
      BY <1>5, <1>6, <3>1, StrRead
  <2>2. ASSUME Alone \/ ~Has("saves") PROVE ~blind'
    BY <1>0, <1>4, <1>8, <2>1, <2>2 DEF Seeing
  <2>3. QED
    BY <1>1, <2>2, PremiseStays DEF Seeing, Has
<1>16. DeskTyped'
  BY <1>0, <1>1, <1>3, <1>12, <1>13 DEF DeskTyped, Moved
<1>17. FileTyped'
  <2>1. Readable(None)
    BY DEF Readable
  <2>2. QED
    BY <1>0, <1>5, <1>14, <2>1 DEF FileTyped
<1>18. Locked'
  BY <1>2, <1>3, KeysAre DEF Locked, Moved
<1>19. Fresh'
  BY <1>0, <1>1, <1>2, <1>3 DEF Fresh, Moved
<1>20. InStep'
  <2>1. Writing(r.key)'
    BY <1>3, <1>12, <1>13 DEF Writing, Moved
  <2>2. ASSUME NEW k \in Keys, k # r.key PROVE cfg'[k] = Str(meant'[k])
    BY <1>6, <1>14, <2>2
  <2>3. QED
    BY <2>1, <2>2 DEF InStep, Str
<1>21. Pending'
  <2>1. req'[a].str = Str(meant'[req'[a].key])
    BY <1>10, <1>12, <1>13, <1>14
  <2>2. QED
    BY <1>2, <1>3, <2>1 DEF Pending, Moved, Str
<1>22. DefaultFirst'
  <2>1. meant'[Default] # None /\ Leads(meant'[Default])
    BY <1>7, <1>10, <1>14, KeysAre
  <2>2. QED
    BY <1>1, <2>1 DEF DefaultFirst, Leads, Has
<1>23. Ordered'
  <2>1. ASSUME NEW b \in Admins, b # a PROVE req'[b] = req[b] /\ pc'[b] = pc[b]
    BY <1>3, <1>13, <2>1 DEF Moved
  <2>2. /\ req'[a].op = r.op /\ req'[a].key = r.key /\ req'[a].set = r.set
        /\ UNCHANGED work
    BY <1>1, <1>12, <1>13
  <2>3. QED
    BY <1>0, <1>8, <2>1, <2>2 DEF Ordered, Leads, Has
<1>24. UpToDate'
  <2>1. ASSUME Alone, NEW b \in Admins, b \in work.admins PROVE pc'[b] = "write"
    BY <1>1, <1>3, <2>1 DEF Alone, One, Moved
  <2>2. QED
    BY <1>1, <2>1, PremiseStays DEF UpToDate
<1>25. Leading'
  <2>1. \A k \in Keys : meant'[k] # None => meant'[k].rules # <<>>
    BY <1>0, <1>10, <1>14 DEF Leading
  <2>2. cfg'[Default] \in {cfg[Default], None}
    BY <1>14, KeysAre
  <2>3. QED
    BY <1>0, <1>1, <2>1, <2>2, LeadingStays DEF Leading
<1>26. Plainly'
  <2>1. ~Has("slashes") => \A k \in Keys : meant'[k] \in PlainSets
    BY <1>0, <1>10, <1>14 DEF Plainly
  <2>2. ASSUME ~Has("slashes"), NEW k \in Keys PROVE Parsed(cfg'[k]) \in PlainSets
    <3>1. cfg'[k] = cfg[k] \/ cfg'[k] = None
      BY <1>5, <1>14
    <3>2. Parsed(None) \in PlainSets
      BY DEF Parsed, PlainSets
    <3>3. QED
      BY <1>0, <2>2, <3>1, <3>2 DEF Plainly
  <2>3. \A b \in Admins : pc'[b] # "idle" => pc[b] # "idle" /\ req'[b].op = req[b].op /\ req'[b].set = req[b].set
    BY <1>1, <1>3, <1>4, <1>12, <1>13 DEF Moved
  <2>4. QED
    BY <1>0, <1>1, <2>1, <2>2, <2>3, PlainlyStays
<1>27. QED
  BY <1>15, <1>16, <1>17, <1>18, <1>19, <1>20, <1>21, <1>22, <1>23, <1>24, <1>25, <1>26 DEF Keeping

LEMMA ChangeKeeps ==
  ASSUME Intact, Keeping, NEW a \in Admins, Change(a)
  PROVE  Keeping'
<1>1. pc[a] = "change" /\ UNCHANGED <<work, shown, left>>
  BY DEF Change
<1>2. CASE Goto(a, "show") /\ UNCHANGED <<file, req, history>>
  BY <1>1, <1>2, PassedKeeps DEF file, history
<1>3. CASE Refused(a) /\ Goto(a, "show") /\ UNCHANGED <<exists, cfg, req, history>>
  BY <1>1, <1>3, PassedKeeps DEF Refused, history
<1>4. CASE /\ req[a].op # "view"
           /\ Reopened(a)
           /\ Goto(a, "write")
           /\ req' = [req EXCEPT ![a].str = NewString(req[a])]
           /\ cfg' = IF work.db = "flat" THEN [cfg EXCEPT ![req[a].key] = None] ELSE cfg
           /\ blind' = (blind \/ (req[a].op = "save" /\ Parsed(cfg[req[a].key]) # req[a].base))
           /\ meant' = [meant EXCEPT ![req[a].key] = Meant(req[a])]
           /\ exists' = exists
  BY <1>4, ReopenedKeeps
<1>5. QED
  <2>1. [meant EXCEPT ![req[a].key] =
           IF req[a].op = "save" THEN IF req[a].set.rules = <<>> THEN None ELSE req[a].set
           ELSE [def   |-> IF @ = None THEN "pub" ELSE @.def,
                 rules |-> Append(IF @ = None THEN <<>> ELSE @.rules, meant[Default].rules[1])]]
        = [meant EXCEPT ![req[a].key] = Meant(req[a])]
    BY Zenon DEF Meant
  <2>2. QED
    BY <1>2, <1>3, <1>4, <2>1, Zenon DEF Change

(* The forms that come back show what is meant.                            *)
LEMMA ShowKeeps ==
  ASSUME Intact, Keeping, NEW a \in Admins, Show(a)
  PROVE  Keeping'
<1>0. DeskTyped /\ FileTyped /\ Locked /\ Fresh /\ InStep /\ Pending /\ DefaultFirst /\ Ordered /\ UpToDate /\ Leading /\ Plainly /\ Seeing
  BY DEF Keeping
<1>1. /\ pc[a] = "show" /\ exists /\ a \in work.admins /\ Goto(a, "idle")
      /\ UNCHANGED <<work, exists, cfg, writer, meant, blind>> /\ req' = [req EXCEPT ![a] = None]
  BY MadeExists DEF Show, history
<1>2. Moved(a, "idle")
  BY <1>0, <1>1, GotoMoves DEF Stages
<1>3. PICK forms : forms = [k \in Keys |-> Parsed(cfg[k])]
  OBVIOUS
<1>4. forms \in [Keys -> Sets]
  BY <1>0, <1>3, ReadableIs DEF FileTyped
<1>5. shown' = IF a \in reads /\ cfg[Default] # None THEN [shown EXCEPT ![a] = forms] ELSE shown
  BY <1>3 DEF Show
<1>6. /\ req' \in [Admins -> Orders \union {None}] /\ \A b \in Admins : b # a => req'[b] = req[b]
  BY <1>0, <1>1 DEF DeskTyped
<1>7. DeskTyped'
  <2>1. shown' \in [Admins -> [Keys -> Sets]]
    BY <1>0, <1>4, <1>5 DEF DeskTyped
  <2>2. QED
    BY <1>0, <1>1, <1>2, <1>6, <2>1 DEF DeskTyped, Moved
<1>8. FileTyped'
  BY <1>0, <1>1 DEF FileTyped
<1>9. Locked'
  BY <1>0, <1>1, <1>2 DEF Locked, Moved
<1>10. Fresh'
  BY <1>0, <1>1, <1>2 DEF Fresh, Moved, Nothing, Has
<1>11. InStep' /\ Pending'
  <2>1. \A b \in Admins : (pc'[b] = "write" <=> pc[b] = "write") /\ (pc[b] = "write" => req'[b] = req[b])
    BY <1>1, <1>2, <1>6 DEF Moved
  <2>2. \A k : Writing(k)' <=> Writing(k)
    BY <2>1 DEF Writing
  <2>3. InStep'
    BY <1>0, <1>1, <2>2 DEF InStep
  <2>4. Pending'
    BY <1>0, <1>1, <2>1 DEF Pending
  <2>5. QED
    BY <2>3, <2>4
<1>12. DefaultFirst'
  <2>1. (\A b \in Admins : pc'[b] \notin {"lock", "made"}) => \A b \in Admins : pc[b] \notin {"lock", "made"}
    BY <1>1, <1>2 DEF Moved
  <2>2. QED
    BY <1>0, <1>1, <2>1 DEF DefaultFirst, Leads, Has
<1>13. Ordered'
  <2>1. ASSUME NEW b \in Admins, pc'[b] # "idle" PROVE req'[b] = req[b] /\ pc'[b] = pc[b]
    BY <1>2, <1>6, <2>1 DEF Moved
  <2>2. QED
    BY <1>0, <1>1, <2>1 DEF Ordered, Leads, Has
<1>14. UpToDate'
  <2>1. ASSUME Alone, a \in reads PROVE \A k \in Keys : shown'[a][k] = meant[k]
    <3>1. \A k \in Keys : cfg[k] = Str(meant[k]) /\ meant[k] \in Sets
      BY <1>0, <1>1, <2>1, NobodyWrites, AllInStep DEF FileTyped
    <3>2. meant[Default] # None
      BY <1>0, <1>1, NobodyMakes DEF DefaultFirst
    <3>3. cfg[Default] # None
      BY <3>1, <3>2, KeysAre, NoString
    <3>4. shown'[a] = forms
      BY <1>0, <1>5, <2>1, <3>3 DEF DeskTyped
    <3>5. \A k \in Keys : Parsed(cfg[k]) = meant[k]
      BY <3>1, StrRead
    <3>6. QED
      BY <1>3, <3>4, <3>5
  <2>2. ASSUME Alone, NEW b \in Admins, b \in work.admins PROVE pc'[b] = "idle" /\ Current(b)'
    <3>1. b = a
      BY <1>1, <2>2 DEF Alone, One
    <3>2. a \in reads \/ Current(a)
      BY <1>0, <1>1, <2>2 DEF UpToDate
    <3>3. CASE a \in reads
      BY <1>1, <1>2, <2>1, <2>2, <3>1, <3>3 DEF Current, Moved
    <3>4. CASE a \notin reads
      BY <1>1, <1>2, <1>5, <3>1, <3>2, <3>4 DEF Current, Moved
    <3>5. QED
      BY <3>3, <3>4
  <2>3. QED
    BY <1>1, <2>2, PremiseStays DEF UpToDate
<1>15. Leading'
  <2>1. cfg[Default] # None => Leads(forms[Default])
    BY <1>0, <1>3, KeysAre DEF Leading
  <2>2. ASSUME NEW b \in Admins, shown'[b][Default] # None PROVE Leads(shown'[b][Default])
    BY <1>0, <1>5, <2>1, <2>2 DEF Leading, DeskTyped
  <2>3. QED
    BY <1>0, <1>1, <2>2 DEF Leading, Leads, Has, Parsed
<1>16. Plainly'
  <2>1. ~Has("slashes") => \A k \in Keys : forms[k] \in PlainSets
    BY <1>0, <1>3 DEF Plainly
  <2>2. ASSUME NEW b \in Admins PROVE shown'[b] = shown[b] \/ shown'[b] = forms
    BY <1>0, <1>5, <2>2 DEF DeskTyped
  <2>3. ASSUME NEW b \in Admins, pc'[b] # "idle" PROVE req'[b] = req[b] /\ pc'[b] = pc[b]
    BY <1>2, <1>6, <2>3 DEF Moved
  <2>4. UNCHANGED <<work, cfg, meant>>
    BY <1>1
  <2>5. QED
    BY <1>0, <2>1, <2>2, <2>3, <2>4 DEF Plainly, Has, Parsed
<1>17. QED
  BY <1>0, <1>1, <1>7, <1>8, <1>9, <1>10, <1>11, <1>12, <1>13, <1>14, <1>15, <1>16, SeeingStays DEF Keeping

-----------------------------------------------------------------------------
(* All steps: those for a page change nothing of this but who reads. *)

Aside ==
  /\ UNCHANGED <<work, exists, cfg, writer, pc, req, shown, meant, blind>>
  /\ \A b \in Admins : b \in reads' <=> b \in reads

LEMMA AsideKeeps ==
  ASSUME Keeping, Aside
  PROVE  Keeping'
<1>0. DeskTyped /\ FileTyped /\ Locked /\ Fresh /\ InStep /\ Pending /\ DefaultFirst /\ Ordered /\ UpToDate /\ Leading /\ Plainly /\ Seeing
  BY DEF Keeping
<1>1. DeskTyped' /\ FileTyped' /\ Locked'
  BY <1>0 DEF Aside, DeskTyped, FileTyped, Locked
<1>2. Fresh'
  BY <1>0 DEF Aside, Fresh, Nothing, Has
<1>3. InStep' /\ Pending'
  BY <1>0 DEF Aside, InStep, Pending, Writing
<1>4. DefaultFirst' /\ Ordered'
  BY <1>0 DEF Aside, DefaultFirst, Ordered, Leads, Has
<1>5. UpToDate'
  BY <1>0 DEF Aside, UpToDate, Current, Alone, One
<1>6. Plainly'
  BY <1>0, PlainlyKept DEF Aside
<1>7. QED
  BY <1>0, <1>1, <1>2, <1>3, <1>4, <1>5, <1>6, LeadingKept, SeeingStays DEF Aside, Keeping

LEMMA ServeAside ==
  ASSUME Begin \/ Serve \/ UNCHANGED vars
  PROVE  Aside
<1>1. ASSUME UNCHANGED <<work, exists, cfg, writer, desk, history>>, reads' \in {reads, reads \ {Server}, reads \union {Server}}
      PROVE Aside
  BY <1>1, KeysAre DEF Aside, desk, history
<1>2. ASSUME UNCHANGED access PROVE Aside
  BY <1>2 DEF Aside, access, file, desk, history
<1>3. ASSUME NEW o, Exit(o) PROVE reads' \in {reads, reads \ {Server}, reads \union {Server}}
  BY <1>3 DEF Exit
<1>4. CASE Begin
  BY <1>2, <1>4 DEF Begin
<1>5. CASE TreatData
  BY <1>2, <1>5 DEF TreatData
<1>6. CASE OpenPage
  BY <1>2, <1>6 DEF OpenPage
<1>7. CASE CheckAccess
  BY <1>1, <1>7 DEF CheckAccess
<1>8. CASE CheckRule
  BY <1>1, <1>3, <1>8 DEF CheckRule, ShowPage
<1>9. CASE Verdict
  BY <1>1, <1>3, <1>9 DEF Verdict, ShowPage
<1>10. CASE ParserInit
  BY <1>2, <1>10 DEF ParserInit
<1>11. CASE Echo \/ PageError \/ SetErrorReporting \/ PageHeader
  BY <1>1, <1>11 DEF Echo, PageError, SetErrorReporting, PageHeader, OfPage
<1>12. CASE Include
  BY <1>1, <1>3, <1>12 DEF Include, OfPage
<1>13. CASE ExitPage
  BY <1>1, <1>3, <1>13 DEF ExitPage, OfPage
<1>14. CASE EndOfFile
  BY <1>1, <1>14 DEF EndOfFile, OfPage
<1>15. CASE End
  BY <1>1, <1>3, <1>15 DEF End
<1>16. CASE Done
  BY <1>2, <1>16 DEF Done
<1>17. CASE UNCHANGED vars
  BY <1>2, <1>17 DEF vars
<1>18. QED
  BY <1>4, <1>5, <1>6, <1>7, <1>8, <1>9, <1>10, <1>11, <1>12, <1>13, <1>14, <1>15, <1>16, <1>17 DEF Serve

LEMMA AdministerKeeps ==
  ASSUME Intact, Keeping, Administer
  PROVE  Keeping'
<1>1. PICK a \in Admins :
        \/ Configuration(a) \/ Make(a) \/ Lock(a) \/ Made(a) \/ Reread(a)
        \/ AskPassword(a) \/ AddFile(a) \/ AddFileOpen(a) \/ AddFileInsert(a) \/ AddFileEnd(a)
        \/ Change(a) \/ ChangeWrite(a) \/ ChangeEnd(a) \/ Show(a) \/ Killed(a)
  BY DEF Administer
<1>2. ~Killed(a)
  BY DEF Killed, Intact
<1>3. QED
  BY <1>1, <1>2, NobodyAsks, ConfigurationKeeps, MakeKeeps, LockKeeps, MadeKeeps, RereadKeeps, AddFileKeeps,
     AddFileOpenKeeps, AddFileInsertKeeps, AddFileEndKeeps, ChangeKeeps, ChangeWriteKeeps, ChangeEndKeeps, ShowKeeps

LEMMA AdministerWork ==
  ASSUME Administer
  PROVE  work' = work
BY DEF Administer, Configuration, Make, Lock, Made, Reread, AskPassword, AddFile, AddFileOpen, AddFileInsert,
       AddFileEnd, Change, ChangeWrite, ChangeEnd, Show, Killed

LEMMA KeptStep ==
  ASSUME KeptInv, [Next]_vars
  PROVE  KeptInv'
<1>1. SUFFICES ASSUME Intact' PROVE Keeping'
  BY DEF KeptInv
<1>2. CASE Administer
  <2>1. Intact
    BY <1>1, <1>2, AdministerWork, PremiseStays
  <2>2. QED
    BY <1>2, <2>1, AdministerKeeps DEF KeptInv
<1>3. CASE Begin \/ Serve \/ UNCHANGED vars
  <2>1. Aside
    BY <1>3, ServeAside
  <2>2. Intact
    BY <1>1, <2>1, PremiseStays DEF Aside
  <2>3. QED
    BY <2>1, <2>2, AsideKeeps DEF KeptInv
<1>4. QED
  BY <1>2, <1>3 DEF Next

LEMMA KeptInit ==
  ASSUME Init
  PROVE  KeptInv
<1>1. /\ writer = None /\ pc = [a \in Admins |-> "idle"] /\ req = [a \in Admins |-> None] /\ blind = FALSE
      /\ shown = [a \in Admins |-> meant]
  BY DEF Init, AccessInit
<1>2. \/ Has("fresh") /\ exists = FALSE /\ cfg = Empty /\ meant = Empty
      \/ /\ exists = TRUE /\ \E c \in Configs : c.habits \subseteq work.habits /\ meant = c.sets
         /\ cfg = [k \in Keys |-> Str(meant[k])]
  BY DEF Init, AccessInit
<1>3. ASSUME NEW c \in Configs
      PROVE  /\ c.sets \in [Keys -> Sets] /\ c.sets[Default] # None
             /\ \A k \in Keys : c.sets[k] # None => c.sets[k].rules # <<>>
             /\ "passfirst" \notin c.habits => c.sets[Default].rules[1].mode # "P"
             /\ "slashes" \notin c.habits => \A k \in Keys : c.sets[k] \in PlainSets
  <2>1. /\ c.sets \in [Keys -> Sets] /\ c.sets[Default] # None
        /\ \A k \in Keys : c.sets[k] # None => c.sets[k].rules # <<>>
        /\ "passfirst" \notin c.habits => c.sets[Default].rules[1].mode # "P"
    BY ConfigsAssumption DEF Sets
  <2>2. ASSUME "slashes" \notin c.habits, NEW k \in Keys, c.sets[k] # None PROVE c.sets[k] \in PlainSets
    <3>1. \A i \in DOMAIN c.sets[k].rules : Plain(c.sets[k].rules[i])
      BY <2>2, ConfigsAssumption
    <3>2. PICK set \in RuleSets : set = c.sets[k]
      BY <2>1, <2>2 DEF Sets
    <3>3. PICK rs \in Seq(AllRules) : rs = set.rules
      BY WriteIs
    <3>4. \A i \in 1..Len(rs) : rs[i] \in PlainRules
      BY <3>1, <3>2, <3>3 DEF PlainRules
    <3>5. rs \in Seq(PlainRules)
      <4>1. rs = [i \in 1..Len(rs) |-> rs[i]] /\ Len(rs) \in Nat
        BY LenProperties
      <4>2. QED
        BY <3>4, <4>1
    <3>6. QED
      BY <3>2, <3>3, <3>5 DEF PlainSets
  <2>3. QED
    BY <2>1, <2>2 DEF PlainSets
<1>4. meant \in [Keys -> Sets] /\ DOMAIN cfg = Keys /\ \A k \in Keys : cfg[k] = Str(meant[k])
  <2>1. Empty \in [Keys -> Sets] /\ DOMAIN Empty = Keys /\ \A k \in Keys : Empty[k] = Str(Empty[k])
    BY DEF Empty, Sets, Str
  <2>2. QED
    BY <1>2, <1>3, <2>1
<1>5. \A k \in Keys : Parsed(cfg[k]) = meant[k] /\ Readable(cfg[k])
  BY <1>4, StrRead
<1>6. DeskTyped /\ FileTyped
  <2>1. DeskTyped
    BY <1>1, <1>4 DEF DeskTyped, Stages
  <2>2. FileTyped
    BY <1>4, <1>5 DEF FileTyped
  <2>3. QED
    BY <2>1, <2>2
<1>7. Locked /\ Pending /\ Ordered
  BY <1>1 DEF Locked, Pending, Ordered
<1>8. Fresh
  <2>1. ~exists => Has("fresh") /\ Nothing
    BY <1>2 DEF Nothing, Empty
  <2>2. QED
    BY <1>1, <2>1 DEF Fresh
<1>9. InStep
  BY <1>4 DEF InStep
<1>10. meant[Default] # None => meant[Default].rules # <<>> /\ Leads(meant[Default])
  <2>1. SUFFICES ASSUME meant[Default] # None PROVE meant[Default].rules # <<>> /\ Leads(meant[Default])
    OBVIOUS
  <2>2. PICK c \in Configs : c.habits \subseteq work.habits /\ meant = c.sets
    BY <1>2, <2>1, KeysAre DEF Empty
  <2>3. QED
    BY <1>3, <2>1, <2>2, KeysAre DEF Leads, Has
<1>11. DefaultFirst
  <2>1. exists => meant[Default] # None
    BY <1>2, <1>3
  <2>2. QED
    BY <1>10, <2>1 DEF DefaultFirst
<1>12. UpToDate
  BY <1>1 DEF UpToDate, Current
<1>13. Leading
  <2>1. \A k \in Keys : meant[k] # None => meant[k].rules # <<>>
    BY <1>2, <1>3 DEF Empty
  <2>2. cfg[Default] # None => Leads(Parsed(cfg[Default]))
    BY <1>4, <1>5, <1>10, KeysAre, NoString
  <2>3. QED
    BY <1>1, <1>10, <2>1, <2>2 DEF Leading
<1>14. Plainly
  <2>1. ~Has("slashes") => \A k \in Keys : meant[k] \in PlainSets
    BY <1>2, <1>3 DEF Empty, Has, PlainSets
  <2>2. QED
    BY <1>1, <1>5, <2>1 DEF Plainly
<1>15. Seeing
  BY <1>1 DEF Seeing
<1>16. QED
  BY <1>6, <1>7, <1>8, <1>9, <1>11, <1>12, <1>13, <1>14, <1>15 DEF KeptInv, Keeping

(* What the administrators have in hand, what the file holds and what is   *)
(* in the forms, as KeptInv says, holds in every state.                    *)
THEOREM SessionKeptInv == Spec => []KeptInv
<1>1. Init => KeptInv
  BY KeptInit
<1>2. KeptInv /\ [Next]_vars => KeptInv'
  BY KeptStep
<1>3. QED
  BY <1>1, <1>2, PTL DEF Spec

(* Whenever nobody is writing, the file holds the rule-sets that the       *)
(* administrators have made, as CheckAccess and the next form will read    *)
(* them, and no form replaces a set that it did not show                   *)
(* (PostToAccessStr, AddRule, StrtoAccess): for any number of rules, texts *)
(* of patterns and passwords, and any number of administrators.            *)
THEOREM RulesAreKept == Spec => []RulesKept
<1>1. KeptInv => RulesKept
  <2>1. SUFFICES ASSUME Intact, Keeping
                 PROVE  /\ writer = None => \A k \in Keys : Parsed(cfg[k]) = meant[k]
                        /\ Alone \/ ~Has("saves") => ~blind
    BY DEF KeptInv, RulesKept
  <2>2. writer = None => \A k \in Keys : cfg[k] = Str(meant[k]) /\ meant[k] \in Sets
    BY <2>1, AllInStep DEF Keeping, FileTyped
  <2>3. QED
    BY <2>1, <2>2, StrRead DEF Keeping, Seeing
<1>2. QED
  BY <1>1, SessionKeptInv, PTL

-----------------------------------------------------------------------------
(* RulesApplied.  What CheckRule makes of the rules up to the n-th is what *)
(* Meaning makes of all.                                                   *)

Matching(set, v, n) == {i \in 1..n : set.rules[i].patt \in v.match}
Of(modes, set, v, n) == {i \in Matching(set, v, n) : set.rules[i].mode \in modes}
Unanswered(set, v, n) ==
  {i \in Of({"P"}, set, v, n) : set.rules[i].password # v.password}
    \union (IF v.email THEN {} ELSE Of({"E"}, set, v, n))
FormOf(rule) == IF rule.mode = "E" THEN "email" ELSE "password"
FormsOf(set, v, n) == {FormOf(set.rules[i]) : i \in Unanswered(set, v, n)}

(* The last of those that turn something on or off turns it on.            *)
LastIn(on, off) == \A i \in off : \E j \in on : j > i

(* The rule after the n-th.                                                *)
Hits(set, v, n) == set.rules[n + 1].patt \in v.match

LEMMA Members ==
  ASSUME NEW set, NEW v, NEW n \in Nat
  PROVE  /\ Unanswered(set, v, n) \subseteq 1..n
         /\ \A modes : Of(modes, set, v, n) \subseteq 1..n
BY DEF Unanswered, Of, Matching

LEMMA MatchingNext ==
  ASSUME NEW set, NEW v, NEW n \in Nat
  PROVE  Matching(set, v, n + 1) = Matching(set, v, n) \union (IF Hits(set, v, n) THEN {n + 1} ELSE {})
<1>1. 1 .. n + 1 = (1..n) \union {n + 1}
  OBVIOUS
<1>2. QED
  BY <1>1 DEF Matching, Hits

(* What becomes of the rules of some modes, as long or with one more.       *)
Grown(A, B, modes, set, v, n) ==
  /\ Hits(set, v, n) /\ set.rules[n + 1].mode \in modes => B = A \union {n + 1}
  /\ ~(Hits(set, v, n) /\ set.rules[n + 1].mode \in modes) => B = A

LEMMA OfNext ==
  ASSUME NEW set, NEW v, NEW n \in Nat, NEW modes
  PROVE  Grown(Of(modes, set, v, n), Of(modes, set, v, n + 1), modes, set, v, n)
BY MatchingNext DEF Of, Grown

(* A rule that asks for something the visitor has not given.               *)
Asks(set, v, n) ==
  /\ Hits(set, v, n)
  /\ \/ set.rules[n + 1].mode = "P" /\ set.rules[n + 1].password # v.password
     \/ set.rules[n + 1].mode = "E" /\ ~v.email

LEMMA UnansweredNext ==
  ASSUME NEW set, NEW v, NEW n \in Nat
  PROVE  /\ Unanswered(set, v, n + 1) =
              IF Asks(set, v, n) THEN Unanswered(set, v, n) \union {n + 1} ELSE Unanswered(set, v, n)
         /\ FormsOf(set, v, n + 1) =
              IF Asks(set, v, n) THEN FormsOf(set, v, n) \union {FormOf(set.rules[n + 1])} ELSE FormsOf(set, v, n)
<1>1. PICK p, e : p = {"P"} /\ e = {"E"}
  OBVIOUS
<1>2. Grown(Of(p, set, v, n), Of(p, set, v, n + 1), p, set, v, n) /\ Grown(Of(e, set, v, n), Of(e, set, v, n + 1), e, set, v, n)
  BY OfNext, Zenon
<1>3. /\ Unanswered(set, v, n) =
           {i \in Of(p, set, v, n) : set.rules[i].password # v.password} \union (IF v.email THEN {} ELSE Of(e, set, v, n))
      /\ Unanswered(set, v, n + 1) =
           {i \in Of(p, set, v, n + 1) : set.rules[i].password # v.password} \union (IF v.email THEN {} ELSE Of(e, set, v, n + 1))
  BY <1>1 DEF Unanswered
<1>4. (set.rules[n + 1].mode \in p <=> set.rules[n + 1].mode = "P") /\ (set.rules[n + 1].mode \in e <=> set.rules[n + 1].mode = "E")
  BY <1>1
<1>5. Unanswered(set, v, n + 1) =
        IF Asks(set, v, n) THEN Unanswered(set, v, n) \union {n + 1} ELSE Unanswered(set, v, n)
  BY <1>2, <1>3, <1>4 DEF Asks, Grown
<1>6. QED
  BY <1>5 DEF FormsOf

LEMMA LastNext ==
  ASSUME NEW n \in Nat, NEW on \in SUBSET (1..n), NEW off \in SUBSET (1..n)
  PROVE  LastIn(on \union {n + 1}, off) /\ ~LastIn(on, off \union {n + 1})
<1>1. \A i \in 1..n : n + 1 > i /\ ~(i > n + 1)
  OBVIOUS
<1>2. QED
  BY <1>1 DEF LastIn

LEMMA OneMore ==
  ASSUME NEW n \in Nat, NEW s \in SUBSET (1..n)
  PROVE  Cardinality(s \union {n + 1}) = Cardinality(s) + 1 /\ Cardinality(s) \in Nat
<1>1. IsFiniteSet(1..n)
  BY FS_Interval
<1>2. IsFiniteSet(s)
  BY <1>1, FS_Subset
<1>3. n + 1 \notin s
  OBVIOUS
<1>4. QED
  BY <1>2, <1>3, FS_AddElement, FS_CardinalityType

(* What is made of the rules up to the n-th.                               *)
Allowed(set, v, n) == Cardinality(Of({"A"}, set, v, n)) - Cardinality(Of({"B"}, set, v, n))
Logged(set, v, n)  == LastIn(Of({"L"}, set, v, n), Of({"N"}, set, v, n))
Counted(set, v, n) == LastIn(Of({"S"}, set, v, n), Of({"H"}, set, v, n) \union Unanswered(set, v, n))

LEMMA AllowedNext ==
  ASSUME NEW set, NEW v, NEW n \in Nat, NEW m, m = set.rules[n + 1].mode
  PROVE  /\ Allowed(set, v, n) \in Int
         /\ Allowed(set, v, n + 1) =
              IF Hits(set, v, n) /\ m = "A" THEN Allowed(set, v, n) + 1
              ELSE IF Hits(set, v, n) /\ m = "B" THEN Allowed(set, v, n) - 1 ELSE Allowed(set, v, n)
<1>1. PICK a, b : a = {"A"} /\ b = {"B"}
  OBVIOUS
<1>2. PICK A, B, A1, B1 : /\ A = Of(a, set, v, n) /\ A1 = Of(a, set, v, n + 1)
                          /\ B = Of(b, set, v, n) /\ B1 = Of(b, set, v, n + 1)
  OBVIOUS
<1>12. Grown(A, A1, a, set, v, n) /\ Grown(B, B1, b, set, v, n)
  BY <1>2, OfNext, Zenon
<1>3. /\ Hits(set, v, n) /\ m \in a => A1 = A \union {n + 1}
      /\ ~(Hits(set, v, n) /\ m \in a) => A1 = A
      /\ Hits(set, v, n) /\ m \in b => B1 = B \union {n + 1}
      /\ ~(Hits(set, v, n) /\ m \in b) => B1 = B
  BY <1>12, Zenon DEF Grown
<1>4. A \in SUBSET (1..n) /\ B \in SUBSET (1..n)
  BY <1>2, Members, Zenon
<1>5. /\ Cardinality(A \union {n + 1}) = Cardinality(A) + 1 /\ Cardinality(A) \in Nat
      /\ Cardinality(B \union {n + 1}) = Cardinality(B) + 1 /\ Cardinality(B) \in Nat
  BY <1>4, OneMore, Zenon
<1>6. /\ Allowed(set, v, n) = Cardinality(A) - Cardinality(B)
      /\ Allowed(set, v, n + 1) = Cardinality(A1) - Cardinality(B1)
  BY <1>1, <1>2 DEF Allowed
<1>7. (m \in a <=> m = "A") /\ (m \in b <=> m = "B") /\ ~(m \in a /\ m \in b)
  BY <1>1
<1>8. CASE Hits(set, v, n) /\ m = "A"
  <2>1. A1 = A \union {n + 1} /\ B1 = B
    BY <1>3, <1>7, <1>8, Zenon
  <2>2. QED
    BY <1>5, <1>6, <1>8, <2>1
<1>9. CASE Hits(set, v, n) /\ m = "B"
  <2>1. A1 = A /\ B1 = B \union {n + 1}
    BY <1>3, <1>7, <1>9, Zenon
  <2>2. QED
    BY <1>5, <1>6, <1>9, <2>1
<1>10. CASE ~(Hits(set, v, n) /\ m \in {"A", "B"})
  <2>1. A1 = A /\ B1 = B
    BY <1>3, <1>7, <1>10
  <2>2. QED
    BY <1>5, <1>6, <1>10, <2>1
<1>11. QED
  BY <1>8, <1>9, <1>10

LEMMA LoggedNext ==
  ASSUME NEW set, NEW v, NEW n \in Nat, NEW m, m = set.rules[n + 1].mode
  PROVE  Logged(set, v, n + 1) <=>
           IF Hits(set, v, n) /\ m = "L" THEN TRUE
           ELSE IF Hits(set, v, n) /\ m = "N" THEN FALSE ELSE Logged(set, v, n)
<1>1. PICK a, b : a = {"L"} /\ b = {"N"}
  OBVIOUS
<1>2. PICK A, B, A1, B1 : /\ A = Of(a, set, v, n) /\ A1 = Of(a, set, v, n + 1)
                          /\ B = Of(b, set, v, n) /\ B1 = Of(b, set, v, n + 1)
  OBVIOUS
<1>12. Grown(A, A1, a, set, v, n) /\ Grown(B, B1, b, set, v, n)
  BY <1>2, OfNext, Zenon
<1>3. /\ Hits(set, v, n) /\ m \in a => A1 = A \union {n + 1}
      /\ ~(Hits(set, v, n) /\ m \in a) => A1 = A
      /\ Hits(set, v, n) /\ m \in b => B1 = B \union {n + 1}
      /\ ~(Hits(set, v, n) /\ m \in b) => B1 = B
  BY <1>12, Zenon DEF Grown
<1>4. A \in SUBSET (1..n) /\ B \in SUBSET (1..n)
  BY <1>2, Members, Zenon
<1>5. LastIn(A \union {n + 1}, B) /\ ~LastIn(A, B \union {n + 1})
  BY <1>4, LastNext, Zenon
<1>6. (Logged(set, v, n) <=> LastIn(A, B)) /\ (Logged(set, v, n + 1) <=> LastIn(A1, B1))
  BY <1>1, <1>2 DEF Logged
<1>7. (m \in a <=> m = "L") /\ (m \in b <=> m = "N") /\ ~(m \in a /\ m \in b)
  BY <1>1
<1>8. QED
  BY <1>3, <1>5, <1>6, <1>7, Zenon

LEMMA CountedNext ==
  ASSUME NEW set, NEW v, NEW n \in Nat, NEW m, m = set.rules[n + 1].mode
  PROVE  Counted(set, v, n + 1) <=>
           IF Hits(set, v, n) /\ m = "S" THEN TRUE
           ELSE IF (Hits(set, v, n) /\ m = "H") \/ Asks(set, v, n) THEN FALSE ELSE Counted(set, v, n)
<1>1. PICK a, b : a = {"S"} /\ b = {"H"}
  OBVIOUS
<1>2. PICK A, B, A1, B1 : /\ A = Of(a, set, v, n) /\ A1 = Of(a, set, v, n + 1)
                          /\ B = Of(b, set, v, n) /\ B1 = Of(b, set, v, n + 1)
  OBVIOUS
<1>12. Grown(A, A1, a, set, v, n) /\ Grown(B, B1, b, set, v, n)
  BY <1>2, OfNext, Zenon
<1>3. /\ Hits(set, v, n) /\ m \in a => A1 = A \union {n + 1}
      /\ ~(Hits(set, v, n) /\ m \in a) => A1 = A
      /\ Hits(set, v, n) /\ m \in b => B1 = B \union {n + 1}
      /\ ~(Hits(set, v, n) /\ m \in b) => B1 = B
  BY <1>12, Zenon DEF Grown
<1>9. PICK U, U1 : U = Unanswered(set, v, n) /\ U1 = Unanswered(set, v, n + 1)
  OBVIOUS
<1>10. U1 = IF Asks(set, v, n) THEN U \union {n + 1} ELSE U
  BY <1>9, UnansweredNext, Zenon
<1>4. A \in SUBSET (1..n) /\ B \union U \in SUBSET (1..n)
  BY <1>2, <1>9, Members, Zenon
<1>5. LastIn(A \union {n + 1}, B \union U) /\ ~LastIn(A, (B \union U) \union {n + 1})
  BY <1>4, LastNext, Zenon
<1>6. (Counted(set, v, n) <=> LastIn(A, B \union U)) /\ (Counted(set, v, n + 1) <=> LastIn(A1, B1 \union U1))
  BY <1>1, <1>2, <1>9 DEF Counted
<1>7. /\ (m \in a <=> m = "S") /\ (m \in b <=> m = "H") /\ ~(m \in a /\ m \in b)
      /\ Asks(set, v, n) => m \notin a /\ m \notin b
  BY <1>1 DEF Asks
<1>8. B1 \union U1 = IF (Hits(set, v, n) /\ m \in b) \/ Asks(set, v, n) THEN (B \union U) \union {n + 1} ELSE B \union U
  BY <1>3, <1>10
<1>11. QED
  BY <1>3, <1>5, <1>6, <1>7, <1>8, Zenon

(* The judge's record.                                                     *)
Answers == {"email", "password", "ban"}

Judges == [set : Sets, at : Nat, allow : Int, forms : SUBSET Answers, logging : BOOLEAN, info : BOOLEAN]

(* What CheckRule may do to it.                                            *)
GoesOn(j)      == [j EXCEPT !.at = @ + 1]
AsksFor(j, f)  == [j EXCEPT !.forms = @ \union {f}, !.info = FALSE]
Allowing(j, a) == [j EXCEPT !.allow = a]
Logging(j, b)  == [j EXCEPT !.logging = b]
Showing(j, b)  == [j EXCEPT !.info = b]

FieldsAre(j, set, at, allow, forms, logging, info) ==
  /\ j \in Judges /\ j.set = set /\ j.at = at /\ j.allow = allow /\ j.forms = forms
  /\ j.logging = logging /\ j.info = info

LEMMA JudgeFields ==
  ASSUME NEW j \in Judges
  PROVE  /\ j.at \in Nat /\ j.allow \in Int /\ j.logging \in BOOLEAN /\ j.info \in BOOLEAN
         /\ FieldsAre(GoesOn(j), j.set, j.at + 1, j.allow, j.forms, j.logging, j.info)
         /\ \A f \in Answers : FieldsAre(AsksFor(j, f), j.set, j.at, j.allow, j.forms \union {f}, j.logging, FALSE)
         /\ \A a \in Int : FieldsAre(Allowing(j, a), j.set, j.at, a, j.forms, j.logging, j.info)
         /\ \A b \in BOOLEAN : FieldsAre(Logging(j, b), j.set, j.at, j.allow, j.forms, b, j.info)
         /\ \A b \in BOOLEAN : FieldsAre(Showing(j, b), j.set, j.at, j.allow, j.forms, j.logging, b)
<1>1. j.at \in Nat /\ j.allow \in Int /\ j.logging \in BOOLEAN /\ j.info \in BOOLEAN
  BY DEF Judges
<1>2. FieldsAre(GoesOn(j), j.set, j.at + 1, j.allow, j.forms, j.logging, j.info)
  BY DEF Judges, FieldsAre, GoesOn
<1>3. ASSUME NEW f \in Answers
      PROVE  FieldsAre(AsksFor(j, f), j.set, j.at, j.allow, j.forms \union {f}, j.logging, FALSE)
  BY DEF Judges, FieldsAre, AsksFor
<1>4. ASSUME NEW a \in Int PROVE FieldsAre(Allowing(j, a), j.set, j.at, a, j.forms, j.logging, j.info)
  BY DEF Judges, FieldsAre, Allowing
<1>5. ASSUME NEW b \in BOOLEAN PROVE FieldsAre(Logging(j, b), j.set, j.at, j.allow, j.forms, b, j.info)
  BY DEF Judges, FieldsAre, Logging
<1>6. ASSUME NEW b \in BOOLEAN PROVE FieldsAre(Showing(j, b), j.set, j.at, j.allow, j.forms, j.logging, b)
  BY DEF Judges, FieldsAre, Showing
<1>7. QED
  BY <1>1, <1>2, <1>3, <1>4, <1>5, <1>6

LEMMA JudgeBans ==
  ASSUME NEW j \in Judges, NEW k, k = [j EXCEPT !.forms = @ \union {"ban"}, !.info = FALSE]
  PROVE  k.forms = j.forms \union {"ban"} /\ k.logging = j.logging /\ k.info = FALSE
BY DEF Judges

LEMMA JudgeBegins ==
  ASSUME NEW set \in Sets, NEW k, k = [Nobody EXCEPT !.set = set, !.at = 1]
  PROVE  /\ k \in Judges /\ k.set = set /\ k.at = 1 /\ k.allow = 0 /\ k.forms = {}
         /\ k.logging = TRUE /\ k.info = TRUE
<1>1. /\ Nobody \in Judges /\ Nobody.allow = 0 /\ Nobody.forms = {}
      /\ Nobody.logging = TRUE /\ Nobody.info = TRUE
  BY DEF Nobody, Judges, Sets
<1>2. QED
  BY <1>1 DEF Judges

JudgedTo(j, v, n) ==
  /\ j.forms = FormsOf(j.set, v, n)
  /\ j.allow = Allowed(j.set, v, n)
  /\ j.logging <=> Logged(j.set, v, n)
  /\ j.info <=> Counted(j.set, v, n)

(* What the next rule does to the answers, by what it is.                  *)
Heard(j, k, set, v, n) ==
  LET mode == set.rules[n + 1].mode
      asks == Asks(set, v, n)
      hits == Hits(set, v, n)
  IN  /\ k.forms = IF asks THEN j.forms \union {FormOf(set.rules[n + 1])} ELSE j.forms
      /\ k.allow = IF hits /\ mode = "A" THEN j.allow + 1 ELSE IF hits /\ mode = "B" THEN j.allow - 1 ELSE j.allow
      /\ k.logging <=> (IF hits /\ mode = "L" THEN TRUE ELSE IF hits /\ mode = "N" THEN FALSE ELSE j.logging)
      /\ k.info <=> (IF hits /\ mode = "S" THEN TRUE ELSE IF (hits /\ mode = "H") \/ asks THEN FALSE ELSE j.info)

LEMMA RuleNext ==
  ASSUME NEW set, NEW v, NEW n \in Nat, NEW j, NEW k, j.set = set, k.set = set, JudgedTo(j, v, n), j.allow \in Int,
         Heard(j, k, set, v, n)
  PROVE  JudgedTo(k, v, n + 1)
<1> DEFINE r == set.rules[n + 1]
<1>1. k.forms = FormsOf(set, v, n + 1)
  <2>1. j.forms = FormsOf(set, v, n)
    BY DEF JudgedTo
  <2>2. CASE Asks(set, v, n)
    <3>1. FormsOf(set, v, n + 1) = FormsOf(set, v, n) \union {FormOf(r)}
      BY <2>2, UnansweredNext
    <3>2. k.forms = j.forms \union {FormOf(r)}
      BY <2>2 DEF Heard
    <3>3. QED
      BY <2>1, <3>1, <3>2
  <2>3. CASE ~Asks(set, v, n)
    <3>1. FormsOf(set, v, n + 1) = FormsOf(set, v, n)
      BY <2>3, UnansweredNext
    <3>2. k.forms = j.forms
      BY <2>3 DEF Heard
    <3>3. QED
      BY <2>1, <3>1, <3>2
  <2>4. QED
    BY <2>2, <2>3
<1>2. k.allow = Allowed(set, v, n + 1)
  BY AllowedNext DEF JudgedTo, Heard
<1>3. k.logging <=> Logged(set, v, n + 1)
  BY LoggedNext DEF JudgedTo, Heard
<1>4. k.info <=> Counted(set, v, n + 1)
  BY CountedNext DEF JudgedTo, Heard
<1>5. QED
  BY <1>1, <1>2, <1>3, <1>4 DEF JudgedTo

LEMMA RuleJudged ==
  ASSUME CheckRule, judge \in Judges, NEW v, v = asked.visitor, v.password \in Texts, NEW n \in Nat, judge.at = n + 1,
         JudgedTo(judge, v, n)
  PROVE  \/ judge' = judge
         \/ /\ judge' \in Judges /\ judge'.set = judge.set /\ judge'.at = n + 2 /\ n + 1 <= Len(judge.set.rules)
            /\ JudgedTo(judge', v, n + 1)
<1>1. PICK set, r : set = judge.set /\ r = set.rules[n + 1]
  OBVIOUS
<1>2. judge.allow \in Int /\ judge.at \in Nat /\ judge.logging \in BOOLEAN /\ judge.info \in BOOLEAN
  BY JudgeFields
<1>3. n + 1 <= Len(judge.set.rules) /\ r \in AllRules
  <2>1. n + 1 <= Len(judge.set.rules) /\ judge.set # None
    BY DEF CheckRule, Left
  <2>2. set.rules \in Seq(AllRules)
    BY <1>1, <2>1 DEF Judges, Sets, RuleSets
  <2>3. n + 1 \in 1..Len(set.rules)
    BY <1>1, <2>1, <2>2, LenProperties
  <2>4. QED
    BY <1>1, <2>1, <2>2, <2>3
<1>4. /\ Hits(set, v, n) <=> r.patt \in v.match
      /\ Asks(set, v, n) <=>
           (Hits(set, v, n) /\ ((r.mode = "P" /\ AddSlashes(v.password) # r.password) \/ (r.mode = "E" /\ ~v.email)))
      /\ FormOf(r) = IF r.mode = "E" THEN "email" ELSE "password"
  <2>1. r.password \in Texts /\ AddSlashes(r.password) = r.password
    BY <1>3, RuleIs
  <2>2. StripSlashes(AddSlashes(v.password)) = v.password /\ StripSlashes(AddSlashes(r.password)) = r.password
    BY <2>1, TextsAssumption
  <2>3. AddSlashes(v.password) = r.password <=> v.password = r.password
    BY <2>1, <2>2
  <2>4. QED
    BY <1>1, <2>3 DEF Hits, Asks, FormOf
<1>5. \/ judge' = judge
      \/ /\ ~Hits(set, v, n) \/ (r.mode \in {"E", "P"} /\ ~Asks(set, v, n))
         /\ judge' = GoesOn(judge)
      \/ Asks(set, v, n) /\ judge' = GoesOn(AsksFor(judge, FormOf(r)))
      \/ Hits(set, v, n) /\ r.mode = "A" /\ judge' = GoesOn(Allowing(judge, judge.allow + 1))
      \/ Hits(set, v, n) /\ r.mode = "B" /\ judge' = GoesOn(Allowing(judge, judge.allow - 1))
      \/ Hits(set, v, n) /\ r.mode = "L" /\ judge' = GoesOn(Logging(judge, TRUE))
      \/ Hits(set, v, n) /\ r.mode = "N" /\ judge' = GoesOn(Logging(judge, FALSE))
      \/ Hits(set, v, n) /\ r.mode = "S" /\ judge' = GoesOn(Showing(judge, TRUE))
      \/ Hits(set, v, n) /\ r.mode = "H" /\ judge' = GoesOn(Showing(judge, FALSE))
  <2>1. \/ judge' = judge
        \/ r.patt \notin v.match /\ judge' = GoesOn(judge)
        \/ /\ r.patt \in v.match
           /\ \/ r.mode = "E" /\ judge' = IF v.email THEN GoesOn(judge) ELSE GoesOn(AsksFor(judge, "email"))
              \/ /\ r.mode = "P"
                 /\ judge' = IF AddSlashes(v.password) = r.password THEN GoesOn(judge) ELSE GoesOn(AsksFor(judge, "password"))
              \/ r.mode \in {"A", "B"} /\ judge' = GoesOn(Allowing(judge, IF r.mode = "A" THEN judge.allow + 1 ELSE judge.allow - 1))
              \/ r.mode \in {"L", "N"} /\ judge' = GoesOn(Logging(judge, r.mode = "L"))
              \/ r.mode \in {"S", "H"} /\ judge' = GoesOn(Showing(judge, r.mode = "S"))
              \/ r.mode \notin Letters
    <3>1. judge.set.rules[judge.at] = r
      BY <1>1
    <3>2. QED
      BY <3>1 DEF CheckRule, GoesOn, AsksFor, Allowing, Logging, Showing
  <2>2. r.mode \in Letters
    BY <1>3, RuleIs
  <2>3. QED
    BY <1>4, <2>1, <2>2
<1>6. ASSUME NEW j \in Judges, j.set = set, j.at = n + 1, judge' = GoesOn(j), Heard(judge, j, set, v, n)
      PROVE  judge' \in Judges /\ judge'.set = set /\ judge'.at = n + 2 /\ JudgedTo(judge', v, n + 1)
  <2>1. FieldsAre(judge', set, n + 2, j.allow, j.forms, j.logging, j.info)
    <3>1. j.at + 1 = n + 2
      BY <1>6
    <3>2. FieldsAre(GoesOn(j), j.set, j.at + 1, j.allow, j.forms, j.logging, j.info)
      BY JudgeFields
    <3>3. QED
      BY <1>6, <3>1, <3>2, Zenon
  <2>2. /\ judge' \in Judges /\ judge'.set = set /\ judge'.at = n + 2
        /\ judge'.allow = j.allow /\ judge'.forms = j.forms /\ judge'.logging = j.logging /\ judge'.info = j.info
    BY <2>1 DEF FieldsAre
  <2>3. Heard(judge, judge', set, v, n)
    BY <1>6, <2>2 DEF Heard
  <2>4. JudgedTo(judge', v, n + 1)
    BY <1>1, <1>2, <2>2, <2>3, RuleNext
  <2>5. QED
    BY <2>2, <2>4
<1>7. CASE judge' = judge
  BY <1>7
<1>8. ASSUME judge' # judge
      PROVE  \E j \in Judges : j.set = set /\ j.at = n + 1 /\ judge' = GoesOn(j) /\ Heard(judge, j, set, v, n)
  <2>1. CASE (~Hits(set, v, n) \/ (r.mode \in {"E", "P"} /\ ~Asks(set, v, n))) /\ judge' = GoesOn(judge)
    <3>1. ~Asks(set, v, n) /\ (Hits(set, v, n) => r.mode \in {"E", "P"})
      BY <1>4, <2>1
    <3>2. Heard(judge, judge, set, v, n)
      BY <1>1, <3>1 DEF Heard
    <3>3. QED
      BY <1>1, <2>1, <3>2
  <2>2. CASE Asks(set, v, n) /\ judge' = GoesOn(AsksFor(judge, FormOf(r)))
    <3>1. Hits(set, v, n) /\ r.mode \in {"E", "P"} /\ FormOf(r) \in Answers
      BY <1>4, <2>2 DEF Answers
    <3>2. PICK j : j = AsksFor(judge, FormOf(r))
      OBVIOUS
    <3>3. FieldsAre(j, set, n + 1, judge.allow, judge.forms \union {FormOf(r)}, judge.logging, FALSE)
      BY <1>1, <3>1, <3>2, JudgeFields
    <3>4. Heard(judge, j, set, v, n) /\ j \in Judges /\ j.set = set /\ j.at = n + 1
      BY <1>1, <2>2, <3>1, <3>3 DEF Heard, FieldsAre
    <3>5. QED
      BY <2>2, <3>2, <3>4
  <2>3. CASE Hits(set, v, n) /\ r.mode = "A" /\ judge' = GoesOn(Allowing(judge, judge.allow + 1))
    <3>1. ~Asks(set, v, n) /\ judge.allow + 1 \in Int
      BY <1>2, <1>4, <2>3
    <3>2. PICK j : j = Allowing(judge, judge.allow + 1)
      OBVIOUS
    <3>3. FieldsAre(j, set, n + 1, judge.allow + 1, judge.forms, judge.logging, judge.info)
      BY <1>1, <3>1, <3>2, JudgeFields
    <3>4. Heard(judge, j, set, v, n) /\ j \in Judges /\ j.set = set /\ j.at = n + 1
      BY <1>1, <2>3, <3>1, <3>3 DEF Heard, FieldsAre
    <3>5. QED
      BY <2>3, <3>2, <3>4
  <2>4. CASE Hits(set, v, n) /\ r.mode = "B" /\ judge' = GoesOn(Allowing(judge, judge.allow - 1))
    <3>1. ~Asks(set, v, n) /\ judge.allow - 1 \in Int
      BY <1>2, <1>4, <2>4
    <3>2. PICK j : j = Allowing(judge, judge.allow - 1)
      OBVIOUS
    <3>3. FieldsAre(j, set, n + 1, judge.allow - 1, judge.forms, judge.logging, judge.info)
      BY <1>1, <3>1, <3>2, JudgeFields
    <3>4. Heard(judge, j, set, v, n) /\ j \in Judges /\ j.set = set /\ j.at = n + 1
      BY <1>1, <2>4, <3>1, <3>3 DEF Heard, FieldsAre
    <3>5. QED
      BY <2>4, <3>2, <3>4
  <2>5. ASSUME NEW b \in BOOLEAN, Hits(set, v, n), b => r.mode = "L", ~b => r.mode = "N", judge' = GoesOn(Logging(judge, b))
        PROVE  \E j \in Judges : j.set = set /\ j.at = n + 1 /\ judge' = GoesOn(j) /\ Heard(judge, j, set, v, n)
    <3>1. ~Asks(set, v, n)
      BY <1>4, <2>5
    <3>2. PICK j : j = Logging(judge, b)
      OBVIOUS
    <3>3. FieldsAre(j, set, n + 1, judge.allow, judge.forms, b, judge.info)
      BY <1>1, <3>2, JudgeFields
    <3>4. Heard(judge, j, set, v, n) /\ j \in Judges /\ j.set = set /\ j.at = n + 1
      BY <1>1, <2>5, <3>1, <3>3 DEF Heard, FieldsAre
    <3>5. QED
      BY <2>5, <3>2, <3>4
  <2>6. ASSUME NEW b \in BOOLEAN, Hits(set, v, n), b => r.mode = "S", ~b => r.mode = "H", judge' = GoesOn(Showing(judge, b))
        PROVE  \E j \in Judges : j.set = set /\ j.at = n + 1 /\ judge' = GoesOn(j) /\ Heard(judge, j, set, v, n)
    <3>1. ~Asks(set, v, n)
      BY <1>4, <2>6
    <3>2. PICK j : j = Showing(judge, b)
      OBVIOUS
    <3>3. FieldsAre(j, set, n + 1, judge.allow, judge.forms, judge.logging, b)
      BY <1>1, <3>2, JudgeFields
    <3>4. Heard(judge, j, set, v, n) /\ j \in Judges /\ j.set = set /\ j.at = n + 1
      BY <1>1, <2>6, <3>1, <3>3 DEF Heard, FieldsAre
    <3>5. QED
      BY <2>6, <3>2, <3>4
  <2>7. QED
    BY <1>5, <1>8, <2>1, <2>2, <2>3, <2>4, <2>5, <2>6
<1>9. QED
  BY <1>1, <1>3, <1>6, <1>7, <1>8

(* Meaning, from the rules that match.                                     *)
MeaningOf(all, set, v) ==
  LET For(modes) == {i \in all : set.rules[i].mode \in modes}
      Unknown == {i \in For({"P"}) : set.rules[i].password # v.password}
                   \union (IF v.email THEN {} ELSE For({"E"}))
      Ends(on, off) == \A i \in off : \E j \in on : j > i
      private == IF set # None /\ set.def = "pri" THEN 1 ELSE 0
      banned == Cardinality(For({"A"})) < Cardinality(For({"B"})) + private
  IN  [forms   |-> {IF set.rules[i].mode = "E" THEN "email" ELSE "password" : i \in Unknown}
                     \union (IF banned THEN {"ban"} ELSE {}),
       logging |-> Ends(For({"L"}), For({"N"})),
       info    |-> ~banned /\ Ends(For({"S"}), For({"H"}) \union Unknown)]

Rules(set) == IF set = None THEN 0 ELSE Len(set.rules)
Private(set) == IF set # None /\ set.def = "pri" THEN 1 ELSE 0
Banned(set, v, n) == Allowed(set, v, n) < Private(set)

MeaningBy(A, B, L, N, S, H, U, set) ==
  LET banned == Cardinality(A) < Cardinality(B) + Private(set)
  IN  [forms   |-> {IF set.rules[i].mode = "E" THEN "email" ELSE "password" : i \in U}
                     \union (IF banned THEN {"ban"} ELSE {}),
       logging |-> \A i \in N : \E j \in L : j > i,
       info    |-> ~banned /\ \A i \in (H \union U) : \E j \in S : j > i]

LEMMA MeaningIs ==
  ASSUME NEW set \in Sets, NEW v, NEW n \in Nat, n = Rules(set), NEW m, m = Meaning(set, v)
  PROVE  /\ m.forms = FormsOf(set, v, n) \union (IF Banned(set, v, n) THEN {"ban"} ELSE {})
         /\ m.logging \in BOOLEAN /\ (m.logging <=> Logged(set, v, n))
         /\ m.info \in BOOLEAN /\ (m.info <=> ~Banned(set, v, n) /\ Counted(set, v, n))
<1>1. PICK all : all = IF set = None THEN {} ELSE {i \in DOMAIN set.rules : set.rules[i].patt \in v.match}
  OBVIOUS
<1>2. Meaning(set, v) = MeaningOf(all, set, v)
  BY <1>1 DEF Meaning, MeaningOf
<1>3. all = Matching(set, v, n)
  <2>1. CASE set = None
    <3>1. 1..n = {}
      BY <2>1 DEF Rules
    <3>2. QED
      BY <1>1, <2>1, <3>1 DEF Matching
  <2>2. CASE set # None
    <3>1. DOMAIN set.rules = 1..n
      BY <2>2 DEF Rules, Sets, RuleSets
    <3>2. QED
      BY <1>1, <2>2, <3>1 DEF Matching
  <2>3. QED
    BY <2>1, <2>2
<1>4. Meaning(set, v) = MeaningOf(Matching(set, v, n), set, v)
  BY <1>2, <1>3
<1>5. PICK A, B, L, N, S, H, U :
        /\ A = Of({"A"}, set, v, n) /\ B = Of({"B"}, set, v, n) /\ L = Of({"L"}, set, v, n) /\ N = Of({"N"}, set, v, n)
        /\ S = Of({"S"}, set, v, n) /\ H = Of({"H"}, set, v, n) /\ U = Unanswered(set, v, n)
  OBVIOUS
<1>6. m = MeaningBy(A, B, L, N, S, H, U, set)
  <2>1. MeaningOf(Matching(set, v, n), set, v) =
          MeaningBy(Of({"A"}, set, v, n), Of({"B"}, set, v, n), Of({"L"}, set, v, n), Of({"N"}, set, v, n),
                    Of({"S"}, set, v, n), Of({"H"}, set, v, n), Unanswered(set, v, n), set)
    BY Zenon DEF MeaningOf, MeaningBy, Of, Unanswered, Private
  <2>2. QED
    BY <1>4, <1>5, <2>1
<1>7. Banned(set, v, n) <=> Cardinality(A) < Cardinality(B) + Private(set)
  <2>1. A \in SUBSET (1..n) /\ B \in SUBSET (1..n)
    BY <1>5, Members
  <2>2. Cardinality(A) \in Nat /\ Cardinality(B) \in Nat /\ Private(set) \in Nat
    BY <2>1, OneMore DEF Private
  <2>3. QED
    BY <1>5, <2>2 DEF Banned, Allowed
<1>8. m.forms = FormsOf(set, v, n) \union (IF Banned(set, v, n) THEN {"ban"} ELSE {})
  <2>1. m.forms = {FormOf(set.rules[i]) : i \in U}
                    \union (IF Cardinality(A) < Cardinality(B) + Private(set) THEN {"ban"} ELSE {})
    BY <1>6 DEF MeaningBy, FormOf
  <2>2. QED
    BY <1>5, <1>7, <2>1 DEF FormsOf
<1>9. m.logging \in BOOLEAN /\ (m.logging <=> Logged(set, v, n))
  BY <1>5, <1>6 DEF MeaningBy, Logged, LastIn
<1>10. m.info \in BOOLEAN /\ (m.info <=> ~Banned(set, v, n) /\ Counted(set, v, n))
  <2>1. Counted(set, v, n) <=> LastIn(S, H \union U)
    BY <1>5 DEF Counted
  <2>2. PICK off : off = H \union U
    OBVIOUS
  <2>3. LastIn(S, off) <=> \A i \in off : \E j \in S : j > i
    BY DEF LastIn
  <2>4. m.info = (~(Cardinality(A) < Cardinality(B) + Private(set)) /\ \A i \in off : \E j \in S : j > i)
    BY <1>6, <2>2 DEF MeaningBy
  <2>5. CASE Banned(set, v, n)
    BY <1>7, <2>4, <2>5
  <2>6. CASE ~Banned(set, v, n)
    BY <1>7, <2>1, <2>2, <2>3, <2>4, <2>6
  <2>7. QED
    BY <2>5, <2>6
<1>11. QED
  BY <1>8, <1>9, <1>10

-----------------------------------------------------------------------------
(* The inductive invariant: until the last rule the judge has what Meaning *)
(* makes of those before it, and from the verdict on what it makes of all; *)
(* and nobody changes a rule-set in between.                               *)

(* The premise of RulesApplied, of which the second part is about what a   *)
(* process has fetched before.                                             *)
Undisturbed == Intact /\ ~Has("together")
Told        == Resident /\ asked.stale => due = meant[Page]

Judged(j, set, v) ==
  LET m == Meaning(set, v) IN j.forms = m.forms /\ j.logging = m.logging /\ j.info = m.info

Judging ==
  /\ phase # "idle" => Quiet /\ asked.visitor.password \in Texts
  /\ phase \in {"data", "open", "access"} => judge = Nobody /\ due = None
  /\ phase = "rule" /\ Told =>
       /\ judge \in Judges /\ judge.set = due /\ (due # None => due.rules # <<>>)
       /\ judge.at \in 1 .. Rules(due) + 1
       /\ JudgedTo(judge, asked.visitor, judge.at - 1)
  /\ phase \in {"parse", "page", "done", "dead"} /\ Told => Judged(judge, due, asked.visitor)

JudgeInv == Undisturbed => Judging

LEMMA PremiseAsWell ==
  work' = work => (Undisturbed' <=> Undisturbed)
BY PremiseStays DEF Undisturbed, Has

LEMMA VerdictJudges ==
  ASSUME Verdict, judge \in Judges, judge.set = due, due # None => due.rules # <<>>,
         judge.at \in 1 .. Rules(due) + 1, NEW v, JudgedTo(judge, v, judge.at - 1)
  PROVE  Judged(judge', due, v)
<1>1. due \in Sets /\ judge.at \in Nat /\ judge.allow \in Int /\ judge.logging \in BOOLEAN /\ judge.info \in BOOLEAN
  BY JudgeFields DEF Judges
<1>2. PICK n : n = Rules(due)
  OBVIOUS
<1>3. n \in Nat
  <2>1. due # None => due.rules \in Seq(AllRules)
    BY <1>1 DEF Sets, RuleSets
  <2>2. QED
    BY <1>2, <2>1, LenProperties DEF Rules
<1>4. judge.at - 1 = n
  <2>1. ~(due # None /\ judge.at <= Len(due.rules))
    BY DEF Verdict, Left
  <2>2. QED
    BY <1>1, <1>2, <1>3, <2>1 DEF Rules
<1>5. /\ judge.forms = FormsOf(due, v, n) /\ judge.allow = Allowed(due, v, n)
      /\ (judge.logging <=> Logged(due, v, n)) /\ (judge.info <=> Counted(due, v, n))
  BY <1>4 DEF JudgedTo
<1>6. PICK m : m = Meaning(due, v)
  OBVIOUS
<1>7. /\ m.forms = FormsOf(due, v, n) \union (IF Banned(due, v, n) THEN {"ban"} ELSE {})
      /\ m.logging \in BOOLEAN /\ (m.logging <=> Logged(due, v, n))
      /\ m.info \in BOOLEAN /\ (m.info <=> ~Banned(due, v, n) /\ Counted(due, v, n))
  BY <1>1, <1>2, <1>3, <1>6, MeaningIs
<1>8. IF Banned(due, v, n) THEN judge' = [judge EXCEPT !.forms = @ \union {"ban"}, !.info = FALSE] ELSE judge' = judge
  <2>1. PICK allow : allow = IF judge.set # None /\ judge.set.rules # <<>> /\ judge.set.def = "pri"
                               THEN judge.allow - 1 ELSE judge.allow
    OBVIOUS
  <2>2. IF allow < 0 THEN judge' = [judge EXCEPT !.forms = @ \union {"ban"}, !.info = FALSE] ELSE judge' = judge
    BY <2>1 DEF Verdict
  <2>3. allow < 0 <=> Banned(due, v, n)
    BY <1>1, <1>5, <2>1 DEF Banned, Private
  <2>4. QED
    BY <2>2, <2>3
<1>9. CASE Banned(due, v, n)
  <2>1. judge'.forms = judge.forms \union {"ban"} /\ judge'.logging = judge.logging /\ judge'.info = FALSE
    BY <1>8, <1>9, JudgeBans
  <2>2. judge'.forms = m.forms /\ judge'.logging = m.logging /\ judge'.info = m.info
    BY <1>1, <1>5, <1>7, <1>9, <2>1
  <2>3. QED
    BY <1>6, <2>2 DEF Judged
<1>10. CASE ~Banned(due, v, n)
  <2>1. judge.forms = m.forms /\ judge.logging = m.logging /\ judge.info = m.info
    BY <1>1, <1>5, <1>7, <1>10
  <2>2. QED
    BY <1>6, <1>8, <1>10, <2>1 DEF Judged
<1>11. QED
  BY <1>9, <1>10

(* Nobody writes, and the set that is read is the one that is meant.       *)
LEMMA AccessBegins ==
  ASSUME Keeping, Quiet, CheckAccess, Told', judge = Nobody, NEW v
  PROVE  /\ judge' \in Judges /\ judge'.set = due' /\ (due' # None => due'.rules # <<>>)
         /\ judge'.at \in 1 .. Rules(due') + 1
         /\ JudgedTo(judge', v, judge'.at - 1)
<1>1. writer = None
  BY DEF Keeping, Locked, Quiet
<1>2. \A k \in Keys : cfg[k] = Str(meant[k]) /\ meant[k] \in Sets
  BY <1>1, AllInStep DEF Keeping, FileTyped
<1>3. \A k \in Keys : Parsed(cfg[k]) = meant[k] /\ (cfg[k] = None <=> meant[k] = None)
  BY <1>2, StrRead, ReadableIs
<1>4. Parsed(Applies(cfg)) = Applies(meant)
  BY <1>3, KeysAre DEF Applies
<1>5. ~exists => Applies(meant) = None
  BY KeysAre DEF Keeping, Fresh, Nothing, Applies
<1>6. CanRead <=> exists
  BY <1>1 DEF CanRead
<1>7. PICK set : set = Applies(meant)
  OBVIOUS
<1>8. set \in Sets /\ (set # None => set.rules # <<>>)
  BY <1>2, <1>7, KeysAre DEF Applies, Keeping, Leading
<1>9. ~(CanRead /\ Resident /\ asked.stale /\ cfg[Page] = None)
  <2>1. SUFFICES ASSUME CanRead, Resident, asked.stale, cfg[Page] = None PROVE FALSE
    OBVIOUS
  <2>2. due' = Applies(meant) /\ UNCHANGED <<work, asked, meant>>
    BY DEF CheckAccess, history
  <2>3. Applies(meant) = meant[Page]
    BY <2>1, <2>2 DEF Told, Resident
  <2>4. meant[Page] = None
    BY <1>3, <2>1, KeysAre
  <2>5. meant[Default] = None
    BY <2>3, <2>4 DEF Applies
  <2>6. meant[Default] # None
    BY <1>6, <2>1 DEF Keeping, DefaultFirst, Quiet
  <2>7. QED
    BY <2>5, <2>6
<1>10. due' = set /\ judge' = [Nobody EXCEPT !.set = set, !.at = 1]
  <2>1. FetchedSets = {set}
    BY <1>4, <1>5, <1>6, <1>7, <1>9 DEF FetchedSets
  <2>2. QED
    BY <1>7, <2>1 DEF CheckAccess
<1>11. /\ judge' \in Judges /\ judge'.set = set /\ judge'.at = 1 /\ judge'.allow = 0 /\ judge'.forms = {}
       /\ judge'.logging = TRUE /\ judge'.info = TRUE
  BY <1>8, <1>10, JudgeBegins
<1>12. Rules(set) \in Nat
  <2>1. set # None => set.rules \in Seq(AllRules)
    BY <1>8 DEF Sets, RuleSets
  <2>2. QED
    BY <2>1, LenProperties DEF Rules
<1>13. JudgedTo(judge', v, 0)
  <2>1. Unanswered(set, v, 0) = {} /\ \A modes : Of(modes, set, v, 0) = {}
    <3>1. 1..0 = {}
      OBVIOUS
    <3>2. 0 \in Nat
      OBVIOUS
    <3>3. QED
      BY <3>1, <3>2, Members
  <2>2. FormsOf(set, v, 0) = {}
    BY <2>1 DEF FormsOf
  <2>3. Allowed(set, v, 0) = 0
    BY <2>1, FS_EmptySet DEF Allowed
  <2>4. Logged(set, v, 0) /\ Counted(set, v, 0)
    BY <2>1 DEF Logged, Counted, LastIn
  <2>5. QED
    BY <1>11, <2>2, <2>3, <2>4 DEF JudgedTo
<1>14. judge'.at - 1 = 0 /\ judge'.at \in 1 .. Rules(set) + 1
  BY <1>11, <1>12
<1>15. QED
  BY <1>8, <1>10, <1>11, <1>13, <1>14

(* All that is done with an answer.                                        *)
Before == {"data", "open", "access"}
After  == {"parse", "page", "done", "dead"}

LEMMA NobodyIsJudged ==
  ASSUME NEW v
  PROVE  Judged(Nobody, None, v)
<1>1. PICK m : m = Meaning(None, v)
  OBVIOUS
<1>2. None \in Sets /\ 0 = Rules(None) /\ 0 \in Nat
  BY DEF Sets, Rules
<1>3. /\ m.forms = FormsOf(None, v, 0) \union (IF Banned(None, v, 0) THEN {"ban"} ELSE {})
      /\ m.logging \in BOOLEAN /\ (m.logging <=> Logged(None, v, 0))
      /\ m.info \in BOOLEAN /\ (m.info <=> ~Banned(None, v, 0) /\ Counted(None, v, 0))
  BY <1>1, <1>2, MeaningIs
<1>4. Unanswered(None, v, 0) = {} /\ \A modes : Of(modes, None, v, 0) = {}
  <2>1. 1..0 = {}
    OBVIOUS
  <2>2. QED
    BY <1>2, <2>1, Members
<1>5. FormsOf(None, v, 0) = {} /\ Logged(None, v, 0) /\ Counted(None, v, 0)
  BY <1>4 DEF FormsOf, Logged, Counted, LastIn
<1>6. ~Banned(None, v, 0)
  <2>1. Allowed(None, v, 0) = 0
    BY <1>4, FS_EmptySet DEF Allowed
  <2>2. QED
    BY <2>1 DEF Banned, Private
<1>7. m.forms = {} /\ m.logging = TRUE /\ m.info = TRUE
  BY <1>3, <1>5, <1>6
<1>8. QED
  BY <1>1, <1>7 DEF Judged, Nobody

LEMMA QuietStays ==
  ASSUME pc' = pc
  PROVE  Quiet => Quiet'
BY DEF Quiet

LEMMA ToldStays ==
  ASSUME UNCHANGED <<work, asked, due, meant>>
  PROVE  Told' <=> Told
BY DEF Told, Resident

LEMMA AnswerStays ==
  ASSUME Judging, Aside, UNCHANGED <<judge, due, asked>>,
         \/ phase' = phase \/ phase' = "idle"
         \/ phase \in Before /\ phase' \in Before
         \/ phase \in After /\ phase' \in After
  PROVE  Judging'
<1>1. pc' = pc /\ (Told' <=> Told)
  BY ToldStays DEF Aside
<1>2. QED
  BY <1>1, QuietStays DEF Judging, Before, After

LEMMA BeginJudges ==
  ASSUME Undisturbed, Begin
  PROVE  Judging'
<1>1. Quiet /\ pc' = pc
  BY DEF Undisturbed, Begin, access, desk
<1>2. Quiet'
  BY <1>1, QuietStays
<1>3. phase' = "data" /\ judge' = Nobody /\ due' = None
  BY DEF Begin
<1>4. asked'.visitor.password \in Texts
  <2>1. \E v \in Visitors : \E r, stale : asked' = [request |-> r, visitor |-> v, stale |-> stale]
    BY Zenon DEF Begin
  <2>2. asked'.visitor \in Visitors
    BY <2>1
  <2>3. QED
    BY <2>2, SessionAssumption
<1>5. QED
  BY <1>2, <1>3, <1>4 DEF Judging

LEMMA OpenPageJudges ==
  ASSUME Judging, OpenPage
  PROVE  Judging'
<1>1. /\ phase = "open" /\ phase' \in {"dead", "done", "parse", "access"}
      /\ pc' = pc /\ UNCHANGED <<judge, due, asked>>
  BY DEF OpenPage, GiveUp, access, desk
<1>2. judge' = Nobody /\ due' = None /\ Quiet' /\ asked'.visitor.password \in Texts
  BY <1>1, QuietStays DEF Judging
<1>3. Judged(judge', due', asked'.visitor)
  BY <1>2, NobodyIsJudged
<1>4. QED
  BY <1>1, <1>2, <1>3 DEF Judging

LEMMA CheckAccessJudges ==
  ASSUME Keeping, Judging, CheckAccess
  PROVE  Judging'
<1>1. phase = "access" /\ phase' = "rule" /\ pc' = pc /\ asked' = asked
  BY DEF CheckAccess, desk
<1>2. Quiet /\ judge = Nobody /\ asked'.visitor.password \in Texts
  BY <1>1 DEF Judging
<1>3. PICK v : v = asked'.visitor
  OBVIOUS
<1>4. Told' => /\ judge' \in Judges /\ judge'.set = due' /\ (due' # None => due'.rules # <<>>)
               /\ judge'.at \in 1 .. Rules(due') + 1
               /\ JudgedTo(judge', v, judge'.at - 1)
  BY <1>2, AccessBegins
<1>5. Quiet'
  BY <1>1, <1>2, QuietStays
<1>6. QED
  BY <1>1, <1>2, <1>3, <1>4, <1>5 DEF Judging

LEMMA CheckRuleJudges ==
  ASSUME Judging, CheckRule
  PROVE  Judging'
<1>0. Aside /\ phase = "rule" /\ phase' = phase /\ pc' = pc /\ due' = due /\ asked' = asked /\ (Told' <=> Told)
      /\ Quiet' /\ asked.visitor.password \in Texts
  <2>1. Aside
    BY ServeAside DEF Serve
  <2>2. phase = "rule" /\ phase' = phase /\ pc' = pc /\ due' = due /\ asked' = asked
    BY DEF CheckRule, desk
  <2>3. QED
    BY <2>1, <2>2, ToldStays, QuietStays DEF Judging, Aside
<1>1. SUFFICES ASSUME Told PROVE Judging'
  BY <1>0 DEF Judging
<1>2. /\ judge \in Judges /\ judge.set = due /\ (due # None => due.rules # <<>>)
      /\ judge.at \in 1 .. Rules(due) + 1 /\ JudgedTo(judge, asked.visitor, judge.at - 1) /\ Quiet
  BY <1>0, <1>1 DEF Judging
<1>3. due # None
  BY <1>2 DEF CheckRule, Left
<1>4. PICK n, v : n = judge.at - 1 /\ v = asked.visitor
  OBVIOUS
<1>5. n \in Nat /\ judge.at = n + 1 /\ JudgedTo(judge, v, n)
  BY <1>2, <1>4, JudgeFields
<1>6. CASE judge' = judge
  BY <1>0, <1>6, AnswerStays
<1>7. CASE /\ judge' \in Judges /\ judge'.set = judge.set /\ judge'.at = n + 2 /\ n + 1 <= Len(judge.set.rules)
           /\ JudgedTo(judge', v, n + 1)
  <2>1. n + 1 <= Rules(due)
    BY <1>2, <1>3, <1>7 DEF Rules
  <2>2. Rules(due) \in Nat
    <3>1. due.rules \in Seq(AllRules)
      BY <1>2, <1>3 DEF Judges, Sets, RuleSets
    <3>2. QED
      BY <1>3, <3>1, LenProperties DEF Rules
  <2>3. judge'.at \in 1 .. Rules(due) + 1 /\ judge'.at - 1 = n + 1
    BY <1>5, <1>7, <2>1, <2>2
  <2>4. JudgedTo(judge', asked'.visitor, judge'.at - 1)
    BY <1>0, <1>4, <1>7, <2>3
  <2>5. judge' \in Judges /\ judge'.set = due' /\ (due' # None => due'.rules # <<>>) /\ judge'.at \in 1 .. Rules(due') + 1
    BY <1>0, <1>2, <1>7, <2>3
  <2>6. QED
    BY <1>0, <2>4, <2>5 DEF Judging
<1>8. QED
  BY <1>0, <1>2, <1>4, <1>5, <1>6, <1>7, RuleJudged

LEMMA VerdictKeeps ==
  ASSUME Judging, Verdict
  PROVE  Judging'
<1>1. Aside /\ phase = "rule" /\ pc' = pc /\ due' = due /\ asked' = asked /\ (Told' <=> Told)
  <2>1. Aside
    BY ServeAside DEF Serve
  <2>2. phase = "rule" /\ pc' = pc /\ due' = due /\ asked' = asked
    BY DEF Verdict, desk
  <2>3. QED
    BY <2>1, <2>2, ToldStays DEF Aside
<1>2. phase' \in After /\ Quiet' /\ asked'.visitor.password \in Texts
  <2>1. phase' \in After
    BY DEF Verdict, GiveUp, After
  <2>2. QED
    BY <1>1, <2>1, QuietStays DEF Judging
<1>3. ASSUME Told PROVE Judged(judge', due', asked'.visitor)
  <2>1. /\ judge \in Judges /\ judge.set = due /\ (due # None => due.rules # <<>>)
        /\ judge.at \in 1 .. Rules(due) + 1 /\ JudgedTo(judge, asked.visitor, judge.at - 1)
    BY <1>1, <1>3 DEF Judging
  <2>2. PICK v : v = asked.visitor
    OBVIOUS
  <2>3. Judged(judge', due, v)
    BY <2>1, <2>2, VerdictJudges
  <2>4. QED
    BY <1>1, <2>2, <2>3
<1>4. QED
  BY <1>1, <1>2, <1>3 DEF Judging, After

LEMMA ServeJudges ==
  ASSUME Keeping, Judging, Serve \/ UNCHANGED vars
  PROVE  Judging'
<1>1. Aside
  BY ServeAside
<1>2. CASE TreatData
  <2>1. phase \in Before /\ phase' \in Before /\ UNCHANGED <<judge, due, asked>>
    BY <1>2 DEF TreatData, Before
  <2>2. QED
    BY <1>1, <2>1, AnswerStays
<1>3. CASE ParserInit \/ End \/ Done
  <2>1. /\ phase \in After /\ (phase' \in After \/ phase' = "idle")
        /\ UNCHANGED <<judge, due, asked>>
    BY <1>3 DEF ParserInit, End, Done, After, page
  <2>2. QED
    BY <1>1, <2>1, AnswerStays
<1>4. CASE Echo \/ PageError \/ SetErrorReporting \/ PageHeader \/ Include \/ ExitPage \/ EndOfFile \/ UNCHANGED vars
  <2>1. UNCHANGED <<phase, judge, due, asked>>
    BY <1>4 DEF Echo, PageError, SetErrorReporting, PageHeader, Include, ExitPage, EndOfFile, OfPage, vars, page
  <2>2. QED
    BY <1>1, <2>1, AnswerStays
<1>5. QED
  BY <1>2, <1>3, <1>4, OpenPageJudges, CheckAccessJudges, CheckRuleJudges, VerdictKeeps DEF Serve

LEMMA JudgeStep ==
  ASSUME KeptInv, JudgeInv, [Next]_vars
  PROVE  JudgeInv'
<1>1. SUFFICES ASSUME Undisturbed' PROVE Judging'
  BY DEF JudgeInv
<1>2. CASE Administer /\ (phase = "idle" \/ Has("together")) /\ UNCHANGED <<phase, asked, page>>
  <2>1. Undisturbed
    BY <1>1, <1>2, AdministerWork, PremiseAsWell
  <2>2. phase' = "idle"
    BY <1>2, <2>1 DEF Undisturbed
  <2>3. QED
    BY <2>2 DEF Judging
<1>3. CASE Begin \/ Serve \/ UNCHANGED vars
  <2>1. work' = work
    BY <1>3, ServeAside DEF Aside
  <2>2. Undisturbed /\ Judging /\ Keeping
    BY <1>1, <2>1, PremiseAsWell DEF JudgeInv, KeptInv, Undisturbed
  <2>3. QED
    BY <1>3, <2>2, BeginJudges, ServeJudges
<1>4. QED
  BY <1>2, <1>3 DEF Next

LEMMA JudgeInit ==
  ASSUME Init
  PROVE  JudgeInv
BY DEF Init, JudgeInv, Judging

(* What the judge has made of the rules so far is what they mean for the   *)
(* visitor, and nobody changes them meanwhile, in every state; but for the *)
(* pages for which a process answers with what it has fetched before.      *)
THEOREM SessionJudgeInv == Spec => []JudgeInv
<1>1. Init => JudgeInv
  BY JudgeInit
<1>2. KeptInv /\ JudgeInv /\ [Next]_vars => JudgeInv'
  BY JudgeStep
<1>3. QED
  BY <1>1, <1>2, SessionKeptInv, PTL DEF Spec

(* A visitor is judged by the rule-set that the administrators made for    *)
(* the page, all of its rules and no others (CheckAccess): for any number  *)
(* of rules, any patterns, passwords and visitors, and any number of       *)
(* administrators.                                                         *)
THEOREM RulesAreApplied == Spec => []RulesApplied
<1>1. JudgeInv => RulesApplied
  BY DEF JudgeInv, Undisturbed, Told, Judging, Judged, RulesApplied
<1>2. QED
  BY <1>1, SessionJudgeInv, PTL
=============================================================================
