------------------------------ MODULE Control ------------------------------
(***************************************************************************)
(* The control-flow stacks of the interpreter: cond.c, while.c, switch.c,  *)
(* the guards of the grammar (parse.raw) and the '}' token (lex.c).        *)
(*                                                                         *)
(* The parser has no syntax tree.  It executes a page token by token, also *)
(* the tokens of code that is skipped, and keeps five stacks that say      *)
(* whether the current token is live and what the next closing token ends. *)
(*                                                                         *)
(* The environment is the author of the page: it emits, one token at a     *)
(* time, a page whose constructs are properly nested.  nest is a history   *)
(* variable: the constructs open at this point and what C, which the       *)
(* manual says they behave like, makes of each of them.  The other         *)
(* variables are the program's.  The constants say which pages the author  *)
(* may write.                                                              *)
(***************************************************************************)
EXTENDS Integers, SequencesExt

CONSTANTS
  MaxDepth,    \* bound: constructs open at once
  MaxHeight,   \* bound: entries on a stack of the program
  Vals,        \* the values of switch and case expressions
  NoVal,       \* the val of a construct that is no switch
  Nestable,    \* <<outer, inner>>: inner may occur in a skipped outer
  FallThrough, \* may a case body end without break?
  BreakIn,     \* the constructs whose body may hold a break
  ReturnFrom,  \* the constructs a return inside a function may abandon
  Closers      \* how constructs are closed: "word" (endif;) or "brace" (})

Kinds == {"if", "switch", "while", "func", "call"}
Inner == {"if", "switch", "while"}

ASSUME ControlAssumption ==
  /\ MaxDepth \in Nat /\ MaxHeight \in Nat
  /\ NoVal \notin Vals
  /\ Nestable \subseteq (Kinds \X Kinds)
  /\ FallThrough \in BOOLEAN
  /\ BreakIn \subseteq Inner
  /\ ReturnFrom \subseteq Inner
  /\ Closers \subseteq {"word", "brace"}

(* The pages the stacks are made for: a skipped if, switch, while or       *)
(* function body holds only the constructs whose handlers know about being *)
(* skipped there, every case ends with break, break occurs nowhere else    *)
(* and a function returns with nothing open.                               *)
PlainPages ==
  /\ \A p \in Nestable : \/ p[2] = "if"
                         \/ p = <<"switch", "switch">>
                         \/ p = <<"while", "while">>
  /\ ~FallThrough
  /\ BreakIn \subseteq {"switch"}
  /\ ReturnFrom = {}

VARIABLES
  cond,      \* CondStack: state (is this code live) and active (in what)
  match,     \* MatchStack: has a branch of the if been taken?
  brace,     \* EndBraceStack: the token a '}' stands for
  loops,     \* WhileStack: the depth at which the loop was opened
  switches,  \* SwitchStack: the value switched on, has a case matched?
  marks,     \* CondMark and MatchMark: stack heights saved by a call
  err,       \* the last thing that went wrong, "none" before that
  nest       \* history: the constructs open in the page

code == <<cond, match, brace, loops, switches, marks>>
vars == <<cond, match, brace, loops, switches, marks, err, nest>>

EndToken == [if |-> "ENDIF", switch |-> "ENDSWITCH", while |-> "ENDWHILE"]

Pop(s) == IF s = <<>> THEN s ELSE Front(s)

-----------------------------------------------------------------------------
(* Reading the stacks: GetCurrentState and GetCurrentActive of cond.c.     *)

State  == IF cond = <<>> THEN TRUE ELSE Last(cond).state
Active == IF cond = <<>> THEN -1 ELSE Last(cond).active
GetCurrentActive == IF cond = <<>> THEN 0 ELSE Last(cond).active

Entry(state, active) == [state |-> state, active |-> active]

(* CondChange replaces the top entry, if there is one.                     *)
CondChange(state, active) ==
  IF cond = <<>> THEN cond ELSE Append(Front(cond), Entry(state, active))

Report(what) == err' = what /\ UNCHANGED code

(* The handlers, one per grammar action.                                   *)

(* Mutants: a skipped if is treated as live; an if leaves nothing for '}'. *)
IfIgnoresSkipping(c) ==
  /\ cond' = Append(cond, Entry(c, 1))
  /\ match' = Append(match, c)
  /\ brace' = Append(brace, "ENDIF")
  /\ UNCHANGED <<loops, switches, marks, err>>

IfWithoutBrace(c) ==
  /\ cond' = Append(cond, Entry(State /\ c, IF State THEN 1 ELSE 0))
  /\ match' = Append(match, State /\ c)
  /\ UNCHANGED <<brace, loops, switches, marks, err>>

If(c) ==
  /\ cond' = Append(cond, Entry(State /\ c, IF State THEN 1 ELSE 0))
  /\ match' = Append(match, State /\ c)
  /\ brace' = Append(brace, "ENDIF")
  /\ UNCHANGED <<loops, switches, marks, err>>

(* Mutant: the branch taken is forgotten.                                  *)
NeverMatched == FALSE

(* MatchPop reports an empty stack and returns 1.                          *)
Matched == IF match = <<>> THEN TRUE ELSE Last(match)

(* A new branch of the innermost if: (state, active) replaces the top of   *)
(* cond, m the top of match.                                               *)
NewBranch(state, active, m) ==
  /\ cond' = Append(Pop(cond), Entry(state, active))
  /\ match' = Append(Pop(match), m)
  /\ err' = IF match = <<>> THEN "reported" ELSE err
  /\ UNCHANGED <<brace, loops, switches, marks>>

Else ==
  \/ Active < 0 /\ Report("reported")
  \/ Active = 0 /\ UNCHANGED <<code, err>>
  \/ Active > 0 /\ NewBranch(~Matched, -1, ~Matched)

ElseIf(c) ==
  \/ Active < 0 /\ Report("reported")
  \/ Active = 0 /\ UNCHANGED <<code, err>>
  \/ Active > 0 /\ NewBranch(~Matched /\ c, 1, Matched \/ c)

(* Mutant: endif leaves an entry on the match stack.                       *)
EndIfKeepsMatch ==
  /\ cond' = Pop(cond) /\ brace' = Pop(brace)
  /\ UNCHANGED <<match, loops, switches, marks, err>>

EndIf ==
  /\ cond' = Pop(cond)
  /\ match' = Pop(match)
  /\ brace' = Pop(brace)
  /\ err' = IF match = <<>> \/ brace = <<>> THEN "reported" ELSE err
  /\ UNCHANGED <<loops, switches, marks>>

Switch(v) ==
  /\ IF State
       THEN /\ switches' = Append(switches, [val |-> v, matched |-> FALSE])
            /\ cond' = Append(cond, Entry(TRUE, 1))
       ELSE /\ cond' = IF GetCurrentActive \in {-2, -3}
                         THEN Append(cond, Entry(FALSE, -3))
                         ELSE cond
            /\ UNCHANGED switches
  /\ brace' = Append(brace, "ENDSWITCH")
  /\ UNCHANGED <<match, loops, marks, err>>

EndSwitch ==
  IF State \/ GetCurrentActive \in {-2, -3}
    THEN /\ cond' = Pop(cond)
         /\ brace' = Pop(brace)
         /\ switches' = IF Active = -3 THEN switches ELSE Pop(switches)
         /\ err' = IF brace = <<>> THEN "reported" ELSE err
         /\ UNCHANGED <<match, loops, marks>>
    ELSE UNCHANGED <<code, err>>

Case(v) ==
  IF ~(GetCurrentActive = -2 \/ State) \/ (State /\ Active = -2 /\ switches # <<>>)
    THEN UNCHANGED <<code, err>>
    ELSE \/ switches = <<>> /\ Report("reported")
         \/ /\ switches # <<>>
            /\ cond' = Append(cond, Entry(v = Last(switches).val, -2))
            /\ UNCHANGED <<match, brace, loops, switches, marks, err>>

(* Default dereferences the top of the switch stack without a check.       *)
Default ==
  IF ~(GetCurrentActive = -2 \/ State)
    THEN UNCHANGED <<code, err>>
    ELSE \/ switches = <<>> /\ Report("crash")
         \/ /\ switches # <<>>
            /\ cond' = Append(cond, Entry(~Last(switches).matched, -2))
            /\ UNCHANGED <<match, brace, loops, switches, marks, err>>

Break ==
  CASE ~(GetCurrentActive = -2 \/ State) -> UNCHANGED <<code, err>>
    [] State /\ GetCurrentActive > -2 -> Report("reported")
    [] OTHER ->
         /\ cond' = Pop(cond)
         /\ IF switches = <<>>
              THEN err' = "crash" /\ UNCHANGED switches
              ELSE /\ switches' = [switches EXCEPT ![Len(switches)].matched = @ \/ State]
                   /\ UNCHANGED err
         /\ UNCHANGED <<match, brace, loops, marks>>

(* Mutant: a loop that has ended leaves its position on the while stack.   *)
WhileKeepsPosition(c, new) ==
  LET pushed == IF new /\ State THEN Append(loops, Len(nest) + 1) ELSE loops IN
  /\ cond' = CASE State -> IF new THEN Append(cond, Entry(c, -4)) ELSE CondChange(c, -4)
               [] ~State /\ GetCurrentActive = -4 -> Append(cond, Entry(FALSE, -4))
               [] OTHER -> cond
  /\ brace' = IF new THEN Append(brace, "ENDWHILE") ELSE brace
  /\ loops' = pushed
  /\ UNCHANGED <<match, switches, marks, err>>

(* The while token and its action.  new: the lexer has not just jumped     *)
(* back here, so it pushes the position of the loop (NewWhileIteration).   *)
While(c, new) ==
  LET pushed == IF new /\ State THEN Append(loops, Len(nest) + 1) ELSE loops IN
  CASE State /\ pushed = <<>> -> Report("crash")
    [] State /\ pushed # <<>> ->
         /\ cond' = IF new THEN Append(cond, Entry(c, -4)) ELSE CondChange(c, -4)
         /\ brace' = IF new THEN Append(brace, "ENDWHILE") ELSE brace
         /\ loops' = IF c THEN pushed ELSE Pop(pushed)
         /\ UNCHANGED <<match, switches, marks, err>>
    [] OTHER ->
         /\ cond' = IF GetCurrentActive = -4 THEN Append(cond, Entry(FALSE, -4)) ELSE cond
         /\ brace' = Append(brace, "ENDWHILE")
         /\ UNCHANGED <<match, loops, switches, marks, err>>

(* EndWhile jumps back if the loop is live and a position is saved.        *)
JumpsBack == State /\ Active = -4 /\ loops # <<>>

(* With cond empty CondPeek leaves the caller's active uninitialised.      *)
EndWhile ==
  CASE ~(State \/ GetCurrentActive = -4) -> UNCHANGED <<code, err>>
    [] cond = <<>> -> \/ Report("reported")
                      \/ /\ brace' = Pop(brace)
                         /\ err' = IF brace = <<>> THEN "reported" ELSE err
                         /\ UNCHANGED <<cond, match, loops, switches, marks>>
    [] cond # <<>> /\ State /\ Active # -4 -> Report("reported")
    [] JumpsBack -> UNCHANGED <<code, err>>
    [] OTHER -> /\ cond' = Pop(cond)
                /\ brace' = Pop(brace)
                /\ err' = IF brace = <<>> THEN "reported" ELSE err
                /\ UNCHANGED <<match, loops, switches, marks>>

(* Mutant: the function name does not turn -5 into -6.                     *)
InitFuncUnnamed ==
  /\ cond' = Append(cond, Entry(FALSE, -5))
  /\ UNCHANGED <<match, brace, loops, switches, marks, err>>

(* Function f ( ... ): the body is parsed with active -6 and not executed. *)
InitFunc ==
  /\ cond' = Append(cond, Entry(FALSE, -6))
  /\ UNCHANGED <<match, brace, loops, switches, marks, err>>

(* The closing parenthesis defines the function only if -6 is on top.      *)
DefineFunc ==
  IF GetCurrentActive = -6
    THEN /\ cond' = Pop(cond)
         /\ UNCHANGED <<match, brace, loops, switches, marks, err>>
    ELSE Report("undefined")

(* RunFunc saves the heights of cond and match; the end of the function    *)
(* (FilePop) unwinds those two and nothing else.                           *)
PushCondMatchMarks ==
  /\ marks' = Append(marks, [cond |-> Len(cond), match |-> Len(match)])
  /\ UNCHANGED <<cond, match, brace, loops, switches, err>>

Unwind(s, height) == IF Len(s) < height THEN <<>> ELSE SubSeq(s, 1, height)

PopCondMatchMarks ==
  /\ marks # <<>>
  /\ cond' = Unwind(cond, Last(marks).cond)
  /\ match' = Unwind(match, Last(marks).match)
  /\ marks' = Pop(marks)
  /\ UNCHANGED <<brace, loops, switches, err>>

(* The handler of a closing token, and '}': BraceCheck turns it into the   *)
(* token on top of the brace stack, an empty stack is a parse error.       *)
End(token) == CASE token = "ENDIF" -> EndIf
                [] token = "ENDSWITCH" -> EndSwitch
                [] token = "ENDWHILE" -> EndWhile

BraceToken == IF brace = <<>> THEN "}" ELSE Last(brace)

-----------------------------------------------------------------------------
(* The page: what C makes of the constructs that are open.                 *)
(*   live  statements here are executed        done  a branch was taken    *)
(*   last  else or default was seen            open  statements may follow *)
(*   val   the value switched on               seen  the cases seen        *)
(*   at    the heights of the stacks before the construct                  *)

Heights == [cond |-> Len(cond), match |-> Len(match), brace |-> Len(brace),
            loops |-> Len(loops), switches |-> Len(switches), marks |-> Len(marks)]

Frame(kind, live, done, open, val) ==
  [kind |-> kind, live |-> live, done |-> done, last |-> FALSE, open |-> open,
   val |-> val, seen |-> {}, at |-> Heights]

Top       == Last(nest)
Live      == IF nest = <<>> THEN TRUE ELSE Top.live
OuterLive == IF Len(nest) < 2 THEN TRUE ELSE nest[Len(nest) - 1].live
NoError   == err = "none"
Running   == err \notin {"crash", "parse error", "wrong jump"}
InBody    == Running /\ (nest # <<>> => Top.open)
In(kind)  == Running /\ nest # <<>> /\ Top.kind = kind

SetTop(f) == nest' = [nest EXCEPT ![Len(nest)] = f]
Leave     == nest' = Front(nest)

(* A construct may begin here.                                             *)
MayOpen(kind) ==
  /\ InBody
  /\ Len(nest) < MaxDepth
  /\ \A h \in {Len(cond), Len(brace), Len(loops), Len(switches)} : h < MaxHeight
  /\ ~Live => <<Top.kind, kind>> \in Nestable

Enter(kind, live, done, open, val) ==
  /\ MayOpen(kind)
  /\ nest' = Append(nest, Frame(kind, live, done, open, val))

(* Where a closing token leads: 0 is the text after it, n the while token  *)
(* of the loop opened at depth n.                                          *)
JumpTarget(token) == IF token = "ENDWHILE" /\ JumpsBack THEN Last(loops) ELSE 0
PageTarget(kind)  == IF kind = "while" /\ Live THEN Len(nest) ELSE 0

(* The closing token of the innermost construct, in either syntax.         *)
Tokens(kind) == (IF "word" \in Closers THEN {EndToken[kind]} ELSE {})
                \union (IF "brace" \in Closers THEN {BraceToken} ELSE {})

Close(kind) ==
  \E token \in Tokens(kind) :
    CASE JumpTarget(token) # PageTarget(kind) -> Report("wrong jump")
      [] JumpTarget(token) = PageTarget(kind) /\ token = "}" -> Report("parse error")
      [] OTHER -> End(token)

DoIf(c) == (c => Live) /\ Enter("if", Live /\ c, c, TRUE, NoVal) /\ If(c)

DoElseIf(c) ==
  /\ In("if") /\ ~Top.last
  /\ SetTop([Top EXCEPT !.live = OuterLive /\ ~Top.done /\ c, !.done = @ \/ c])
  /\ ElseIf(c)

DoElse ==
  /\ In("if") /\ ~Top.last
  /\ SetTop([Top EXCEPT !.live = OuterLive /\ ~Top.done, !.done = TRUE, !.last = TRUE])
  /\ Else

DoEndIf == In("if") /\ Leave /\ Close("if")

DoSwitch(v) == Enter("switch", Live, FALSE, FALSE, v) /\ Switch(v)

DoCase(v) ==
  /\ In("switch") /\ ~Top.last /\ v \notin Top.seen
  /\ Top.open => FallThrough
  /\ SetTop([Top EXCEPT
       !.live = OuterLive /\ ((Top.open /\ Top.live) \/ (~Top.done /\ v = Top.val)),
       !.done = @ \/ v = Top.val, !.seen = @ \union {v}, !.open = TRUE])
  /\ Case(v)

DoDefault ==
  /\ In("switch") /\ ~Top.last
  /\ Top.open => FallThrough
  /\ SetTop([Top EXCEPT !.live = OuterLive /\ ((Top.open /\ Top.live) \/ ~Top.done),
                        !.done = TRUE, !.last = TRUE, !.open = TRUE])
  /\ Default

(* Between break and the next case a page holds no statement.              *)
DoBreak ==
  /\ In("switch") /\ Top.open /\ "switch" \in BreakIn
  /\ SetTop([Top EXCEPT !.open = FALSE, !.live = OuterLive])
  /\ Break

(* break further inside: C leaves the switch or loop around it.            *)
DoBreakInside ==
  /\ InBody /\ nest # <<>> /\ Top.kind \in BreakIn \ {"switch"}
  /\ \E i \in DOMAIN nest :
       /\ nest[i].kind \in {"switch", "while"} \intersect BreakIn
       /\ \A j \in (i + 1)..Len(nest) : nest[j].kind = "if"
       /\ nest' = [j \in DOMAIN nest |->
            IF j >= i /\ Top.live THEN [nest[j] EXCEPT !.live = FALSE, !.done = TRUE] ELSE nest[j]]
  /\ Break

DoEndSwitch ==
  /\ In("switch")
  /\ Top.open => FallThrough
  /\ Leave
  /\ Close("switch")

DoWhile(c) ==
  (c => Live) /\ Enter("while", Live /\ c, FALSE, TRUE, NoVal) /\ While(c, TRUE)

DoWhileAgain(c) ==
  /\ In("while") /\ ~Top.open
  /\ SetTop([Top EXCEPT !.live = c, !.open = TRUE])
  /\ While(c, FALSE)

(* endwhile of a live loop leads back to its while.                        *)
DoEndWhile ==
  /\ In("while") /\ Top.open
  /\ IF Top.live THEN SetTop([Top EXCEPT !.open = FALSE]) ELSE Leave
  /\ Close("while")

DoFunc == Enter("func", FALSE, FALSE, TRUE, NoVal) /\ Live /\ InitFunc

DoEndFunc == In("func") /\ Leave /\ DefineFunc

DoCall == Enter("call", TRUE, FALSE, TRUE, NoVal) /\ Live /\ PushCondMatchMarks

(* The end of the function body, or a return further inside.               *)
DoReturn ==
  /\ InBody /\ Live
  /\ \E i \in DOMAIN nest :
       /\ nest[i].kind = "call"
       /\ \A j \in (i + 1)..Len(nest) : nest[j].kind \in ReturnFrom
       /\ nest' = SubSeq(nest, 1, i - 1)
  /\ PopCondMatchMarks

Init ==
  /\ cond = <<>> /\ match = <<>> /\ brace = <<>>
  /\ loops = <<>> /\ switches = <<>> /\ marks = <<>>
  /\ err = "none"
  /\ nest = <<>>

Next ==
  \/ \E c \in BOOLEAN : DoIf(c) \/ DoElseIf(c) \/ DoWhile(c) \/ DoWhileAgain(c)
  \/ \E v \in Vals : DoSwitch(v) \/ DoCase(v)
  \/ DoElse \/ DoEndIf \/ DoDefault \/ DoBreak \/ DoBreakInside
  \/ DoEndSwitch \/ DoEndWhile
  \/ DoFunc \/ DoEndFunc \/ DoCall \/ DoReturn

Spec == Init /\ [][Next]_vars

-----------------------------------------------------------------------------

Entries == [state : BOOLEAN, active : {-6, -4, -3, -2, -1, 0, 1}]

Frames ==
  [kind : Kinds, live : BOOLEAN, done : BOOLEAN, last : BOOLEAN, open : BOOLEAN,
   val : Vals \union {NoVal}, seen : SUBSET Vals,
   at : [cond : Nat, match : Nat, brace : Nat, loops : Nat, switches : Nat, marks : Nat]]

TypeOK ==
  /\ cond \in Seq(Entries)
  /\ match \in Seq(BOOLEAN)
  /\ brace \in Seq({"ENDIF", "ENDSWITCH", "ENDWHILE"})
  /\ loops \in Seq(1..MaxDepth)
  /\ switches \in Seq([val : Vals, matched : BOOLEAN])
  /\ marks \in Seq([cond : Nat, match : Nat])
  /\ err \in {"none", "reported", "crash", "undefined", "parse error", "wrong jump"}
  /\ nest \in Seq(Frames) /\ Len(nest) <= MaxDepth

(* The program executes a statement exactly when C would: GetCurrentState  *)
(* is the liveness of all the constructs around it.                        *)
StateFaithful == NoError /\ InBody => State = Live

(* A '}' ends the innermost open construct (BraceCheck).                   *)
BraceFaithful ==
  NoError /\ nest # <<>> /\ Top.kind \in Inner => BraceToken = EndToken[Top.kind]

(* endwhile leads back to the while of the innermost loop if that loop is  *)
(* live, and on to the next statement if it is not.                        *)
JumpFaithful ==
  NoError /\ nest # <<>> /\ Top.kind = "while" /\ Top.open
    => JumpTarget("ENDWHILE") = PageTarget("while")

(* case compares with the value of the innermost switch, and default knows *)
(* whether one of its cases was executed.                                  *)
SwitchFaithful ==
  NoError /\ nest # <<>> /\ Top.kind = "switch" /\ OuterLive /\ ~Top.open
    => /\ switches # <<>>
       /\ Last(switches) = [val |-> Top.val, matched |-> Top.done]

(* The brace, loop and switch stacks lead where the page says, though they *)
(* are pushed, popped and skipped by different guards.                     *)
StacksFaithful == BraceFaithful /\ JumpFaithful /\ SwitchFaithful

(* Whatever the page, no code inside a skipped if, loop, switch or function *)
(* body is executed: above an entry of cond that is off every entry is off. *)
(* Only a case entry may turn on above another case entry.                  *)
SkippedStaysSkipped ==
  \A i, j \in DOMAIN cond :
    i < j /\ ~cond[i].state /\ cond[i].active # -2 => ~cond[j].state

(* A properly nested page is executed without an error message, without    *)
(* dereferencing an empty stack, and every function in it gets defined.    *)
NoErrorReported == err = "none"

(* A construct, a function body or a call leaves every stack as high as it *)
(* found it.                                                               *)
Balanced ==
  [][Len(nest') < Len(nest) /\ err' = "none"
       => Heights' = nest[Len(nest') + 1].at]_vars

=============================================================================
