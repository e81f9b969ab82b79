--------------------------- MODULE ControlProofs ---------------------------
(* Theorems about Control, for every value of its constants: its types,    *)
(* that nothing inside a skipped construct is executed, and, on the pages  *)
(* the stacks are made for, that the program executes what C would.        *)
EXTENDS Control, SequenceTheorems, TLAPS

-----------------------------------------------------------------------------
(* Stacks. *)

(* Pushing keeps the entries below; the new one is on top.                 *)
LEMMA PushStack ==
  ASSUME NEW S, NEW s \in Seq(S), NEW e \in S
  PROVE  /\ Append(s, e) \in Seq(S)
         /\ Len(Append(s, e)) = Len(s) + 1
         /\ \A i \in 1..Len(s) : Append(s, e)[i] = s[i]
         /\ Append(s, e)[Len(s) + 1] = e
         /\ Append(s, e) # <<>>
         /\ Last(Append(s, e)) = e
BY AppendProperties DEF Last

(* The top of a stack that is not empty.                                   *)
LEMMA TopOfStack ==
  ASSUME NEW S, NEW s \in Seq(S), s # <<>>
  PROVE  /\ Len(s) \in Nat \ {0}
         /\ Last(s) \in S
         /\ Last(s) = s[Len(s)]
BY EmptySeq, ElementOfSeq DEF Last

(* Cutting a stack keeps the entries below the cut.                        *)
LEMMA CutStack ==
  ASSUME NEW S, NEW s \in Seq(S), NEW n \in 0..Len(s)
  PROVE  /\ SubSeq(s, 1, n) \in Seq(S)
         /\ Len(SubSeq(s, 1, n)) = n
         /\ \A i \in 1..n : SubSeq(s, 1, n)[i] = s[i]
<1>1. \A i \in 1..n : s[i] \in S
  BY ElementOfSeq
<1>2. QED
  BY <1>1, SubSeqProperties

(* Popping keeps the entries below the top.                                *)
LEMMA PopStack ==
  ASSUME NEW S, NEW s \in Seq(S)
  PROVE  /\ Pop(s) \in Seq(S)
         /\ s # <<>> => Len(Pop(s)) = Len(s) - 1
         /\ s = <<>> => Pop(s) = <<>>
         /\ Len(Pop(s)) <= Len(s)
         /\ \A i \in 1..Len(Pop(s)) : Pop(s)[i] = s[i]
         /\ s # <<>> => Front(s) = Pop(s)
<1>1. CASE s = <<>>
  BY <1>1, EmptySeq DEF Pop
<1>2. CASE s # <<>>
  <2>1. Len(s) \in Nat \ {0}
    BY <1>2, TopOfStack
  <2>2. Len(s) - 1 \in 0..Len(s)
    BY <2>1
  <2>3. Pop(s) = SubSeq(s, 1, Len(s) - 1)
    BY <1>2 DEF Pop, Front
  <2>4. Front(s) = Pop(s)
    BY <2>3 DEF Front
  <2>5. /\ Pop(s) \in Seq(S)
        /\ Len(Pop(s)) = Len(s) - 1
        /\ \A i \in 1..(Len(s) - 1) : Pop(s)[i] = s[i]
    BY <2>2, <2>3, CutStack
  <2>6. QED
    BY <1>2, <2>1, <2>4, <2>5
<1>3. QED
  BY <1>1, <1>2

(* Replacing the top keeps the entries below it.                           *)
LEMMA ReplaceTop ==
  ASSUME NEW S, NEW s \in Seq(S), s # <<>>, NEW e \in S
  PROVE  /\ [s EXCEPT ![Len(s)] = e] \in Seq(S)
         /\ Len([s EXCEPT ![Len(s)] = e]) = Len(s)
         /\ \A i \in 1..Len(s) - 1 : [s EXCEPT ![Len(s)] = e][i] = s[i]
         /\ Last([s EXCEPT ![Len(s)] = e]) = e
<1>1. Len(s) \in 1..Len(s)
  BY TopOfStack
<1>2. QED
  BY <1>1, ExceptSeq DEF Last

-----------------------------------------------------------------------------
(* Type correctness, handler by handler. *)

CodeOK ==
  /\ cond \in Seq(Entries)
  /\ match \in Seq(BOOLEAN)
  /\ brace \in Seq({"ENDIF", "ENDSWITCH", "ENDWHILE"})
  /\ loops \in Seq(1..MaxDepth)
  /\ switches \in Seq([val : Vals, matched : BOOLEAN])
  /\ marks \in Seq([cond : Nat, match : Nat])
  /\ err \in {"none", "reported", "crash", "undefined", "parse error", "wrong jump"}

Actives == {-6, -4, -3, -2, -1, 0, 1}

LEMMA ReadType ==
  ASSUME CodeOK
  PROVE  /\ State \in BOOLEAN
         /\ Matched \in BOOLEAN
         /\ Active \in Actives
         /\ GetCurrentActive \in Actives
         /\ switches # <<>> => Last(switches) \in [val : Vals, matched : BOOLEAN]
<1>1. cond # <<>> => Last(cond).state \in BOOLEAN /\ Last(cond).active \in Actives
  <2>1. cond # <<>> => Last(cond) \in Entries
    BY TopOfStack DEF CodeOK
  <2>2. QED
    BY <2>1 DEF Entries, Actives
<1>2. State \in BOOLEAN
  BY <1>1, Zenon DEF State
<1>3. Active \in Actives /\ GetCurrentActive \in Actives
  BY <1>1 DEF Active, GetCurrentActive, Actives
<1>4. Matched \in BOOLEAN
  BY TopOfStack DEF CodeOK, Matched
<1>5. switches # <<>> => Last(switches) \in [val : Vals, matched : BOOLEAN]
  BY TopOfStack DEF CodeOK
<1>6. QED
  BY <1>2, <1>3, <1>4, <1>5

(* CondPush keeps the condition stack well typed.                          *)
LEMMA CondPushType ==
  ASSUME CodeOK, NEW st \in BOOLEAN, NEW a \in Actives
  PROVE  /\ Entry(st, a) \in Entries
         /\ Append(cond, Entry(st, a)) \in Seq(Entries)
         /\ Append(Pop(cond), Entry(st, a)) \in Seq(Entries)
<1>1. Entry(st, a) \in Entries
  BY DEF Entry, Entries, Actives
<1>2. cond \in Seq(Entries) /\ Pop(cond) \in Seq(Entries)
  BY PopStack DEF CodeOK
<1>3. QED
  BY <1>1, <1>2, PushStack

LEMMA UnwindType ==
  ASSUME NEW S, NEW s \in Seq(S), NEW n \in Nat
  PROVE  /\ Unwind(s, n) \in Seq(S)
         /\ Len(Unwind(s, n)) <= Len(s)
         /\ \A i \in 1..Len(Unwind(s, n)) : Unwind(s, n)[i] = s[i]
<1>1. CASE Len(s) < n
  BY <1>1, EmptySeq DEF Unwind
<1>2. CASE n \in 0..Len(s)
  BY <1>2, CutStack DEF Unwind
<1>3. QED
  BY <1>1, <1>2

LEMMA IfType ==
  ASSUME CodeOK, NEW c \in BOOLEAN, If(c)
  PROVE  CodeOK'
<1>1. cond' \in Seq(Entries)
  BY ReadType, CondPushType DEF If, Actives
<1>2. match' \in Seq(BOOLEAN)
  BY ReadType, PushStack DEF CodeOK, If
<1>3. brace' \in Seq({"ENDIF", "ENDSWITCH", "ENDWHILE"})
  BY PushStack DEF CodeOK, If
<1>4. QED
  BY <1>1, <1>2, <1>3 DEF CodeOK, If

LEMMA NewBranchType ==
  ASSUME CodeOK, NEW st \in BOOLEAN, NEW a \in {-1, 1}, NEW m \in BOOLEAN,
         NewBranch(st, a, m)
  PROVE  CodeOK'
<1>1. cond' \in Seq(Entries)
  BY CondPushType DEF NewBranch, Actives
<1>2. match' \in Seq(BOOLEAN)
  BY PopStack, PushStack DEF CodeOK, NewBranch
<1>3. QED
  BY <1>1, <1>2 DEF CodeOK, NewBranch

LEMMA ElseType == ASSUME CodeOK, Else PROVE CodeOK'
  BY NewBranchType, ReadType DEF CodeOK, Else, Report, code

LEMMA ElseIfType == ASSUME CodeOK, NEW c \in BOOLEAN, ElseIf(c) PROVE CodeOK'
  BY NewBranchType, ReadType DEF CodeOK, ElseIf, Report, code

LEMMA EndIfType == ASSUME CodeOK, EndIf PROVE CodeOK'
  BY PopStack DEF CodeOK, EndIf

LEMMA SwitchType == ASSUME CodeOK, NEW v \in Vals, Switch(v) PROVE CodeOK'
<1>1. cond' \in Seq(Entries)
  <2>1. Append(cond, Entry(TRUE, 1)) \in Seq(Entries)
    BY CondPushType DEF Actives
  <2>2. Append(cond, Entry(FALSE, -3)) \in Seq(Entries)
    BY CondPushType DEF Actives
  <2>3. QED
    BY <2>1, <2>2 DEF CodeOK, Switch
<1>2. switches' \in Seq([val : Vals, matched : BOOLEAN])
  <2>1. [val |-> v, matched |-> FALSE] \in [val : Vals, matched : BOOLEAN]
    OBVIOUS
  <2>2. Append(switches, [val |-> v, matched |-> FALSE]) \in Seq([val : Vals, matched : BOOLEAN])
    BY <2>1, PushStack DEF CodeOK
  <2>3. QED
    BY <2>2 DEF CodeOK, Switch
<1>3. brace' \in Seq({"ENDIF", "ENDSWITCH", "ENDWHILE"})
  BY PushStack DEF CodeOK, Switch
<1>4. QED
  BY <1>1, <1>2, <1>3 DEF CodeOK, Switch

LEMMA EndSwitchType == ASSUME CodeOK, EndSwitch PROVE CodeOK'
  BY PopStack DEF CodeOK, EndSwitch, code

LEMMA CaseType == ASSUME CodeOK, NEW v \in Vals, Case(v) PROVE CodeOK'
<1>1. Append(cond, Entry(v = Last(switches).val, -2)) \in Seq(Entries)
  BY CondPushType DEF Actives
<1>2. QED
  BY <1>1 DEF CodeOK, Case, Report, code

LEMMA DefaultType == ASSUME CodeOK, Default PROVE CodeOK'
<1>1. switches # <<>> => Append(cond, Entry(~Last(switches).matched, -2)) \in Seq(Entries)
  <2>1. (~Last(switches).matched) \in BOOLEAN
    BY Zenon
  <2>2. QED
    BY <2>1, CondPushType DEF Actives
<1>2. QED
  BY <1>1 DEF CodeOK, Default, Report, code

LEMMA BreakType == ASSUME CodeOK, Break PROVE CodeOK'
<1>1. Pop(cond) \in Seq(Entries)
  BY PopStack DEF CodeOK
<1>2. switches # <<>> =>
        [switches EXCEPT ![Len(switches)].matched = @ \/ State]
          \in Seq([val : Vals, matched : BOOLEAN])
  <2> SUFFICES ASSUME switches # <<>>
               PROVE  [switches EXCEPT ![Len(switches)].matched = @ \/ State]
                        \in Seq([val : Vals, matched : BOOLEAN])
    OBVIOUS
  <2> DEFINE top == [switches[Len(switches)] EXCEPT !.matched = @ \/ State]
  <2> switches \in Seq([val : Vals, matched : BOOLEAN])
    BY DEF CodeOK
  <2>1. switches[Len(switches)] \in [val : Vals, matched : BOOLEAN]
    BY TopOfStack
  <2>2. top \in [val : Vals, matched : BOOLEAN]
    BY <2>1, ReadType
  <2>3. [switches EXCEPT ![Len(switches)] = top] \in Seq([val : Vals, matched : BOOLEAN])
    BY <2>2, ReplaceTop DEF CodeOK
  <2>4. QED
    BY <2>3
<1>3. CASE ~(GetCurrentActive = -2 \/ State)
  BY <1>3 DEF CodeOK, Break, code
<1>4. CASE (GetCurrentActive = -2 \/ State) /\ State /\ GetCurrentActive > -2
  BY <1>4 DEF CodeOK, Break, Report, code
<1>5. CASE (GetCurrentActive = -2 \/ State) /\ ~(State /\ GetCurrentActive > -2)
  <2>1. /\ cond' = Pop(cond)
        /\ IF switches = <<>>
             THEN err' = "crash" /\ UNCHANGED switches
             ELSE /\ switches' = [switches EXCEPT ![Len(switches)].matched = @ \/ State]
                  /\ UNCHANGED err
        /\ UNCHANGED <<match, brace, loops, marks>>
    BY <1>5 DEF Break
  <2>2. QED
    BY <1>1, <1>2, <2>1 DEF CodeOK
<1>6. QED
  BY <1>3, <1>4, <1>5

LEMMA WhileType ==
  ASSUME CodeOK, NEW c \in BOOLEAN, NEW new \in BOOLEAN, Len(nest) < MaxDepth \/ ~new,
         Len(nest) \in Nat, MaxDepth \in Nat,
         While(c, new)
  PROVE  CodeOK'
<1> DEFINE pushed == IF new /\ State THEN Append(loops, Len(nest) + 1) ELSE loops
<1>1. pushed \in Seq(1..MaxDepth)
  <2>1. loops \in Seq(1..MaxDepth)
    BY DEF CodeOK
  <2>2. new => Append(loops, Len(nest) + 1) \in Seq(1..MaxDepth)
    BY <2>1, PushStack
  <2>3. QED
    BY <2>1, <2>2
<1>2. /\ Append(cond, Entry(c, -4)) \in Seq(Entries)
      /\ Append(cond, Entry(FALSE, -4)) \in Seq(Entries)
      /\ CondChange(c, -4) \in Seq(Entries)
  <2>1. -4 \in Actives
    BY DEF Actives
  <2>2. cond \in Seq(Entries) /\ (cond # <<>> => Front(cond) = Pop(cond))
    BY PopStack DEF CodeOK
  <2>3. QED
    BY <2>1, <2>2, CondPushType DEF CondChange
<1>3. Append(brace, "ENDWHILE") \in Seq({"ENDIF", "ENDSWITCH", "ENDWHILE"})
  BY PushStack DEF CodeOK
<1>4. CASE State /\ pushed = <<>>
  BY <1>4 DEF CodeOK, While, Report, code
<1>5. CASE State /\ pushed # <<>>
  <2>1. Pop(pushed) \in Seq(1..MaxDepth)
    BY <1>1, PopStack
  <2> HIDE DEF pushed
  <2>2. /\ cond' = IF new THEN Append(cond, Entry(c, -4)) ELSE CondChange(c, -4)
        /\ brace' = IF new THEN Append(brace, "ENDWHILE") ELSE brace
        /\ loops' = IF c THEN pushed ELSE Pop(pushed)
        /\ UNCHANGED <<match, switches, marks, err>>
    BY <1>5 DEF While, pushed
  <2>3. QED
    BY <1>1, <1>2, <1>3, <2>1, <2>2 DEF CodeOK
<1>6. CASE ~State
  BY <1>2, <1>3, <1>6 DEF CodeOK, While
<1>7. QED
  BY <1>4, <1>5, <1>6, ReadType

LEMMA EndWhileType == ASSUME CodeOK, EndWhile PROVE CodeOK'
<1>1. /\ Pop(cond) \in Seq(Entries)
      /\ Pop(brace) \in Seq({"ENDIF", "ENDSWITCH", "ENDWHILE"})
  BY PopStack DEF CodeOK
<1>2. QED
  BY <1>1 DEF CodeOK, EndWhile, Report, code

LEMMA FuncType == ASSUME CodeOK, InitFunc \/ DefineFunc PROVE CodeOK'
<1>1. Append(cond, Entry(FALSE, -6)) \in Seq(Entries) /\ Pop(cond) \in Seq(Entries)
  BY CondPushType, PopStack DEF CodeOK, Actives
<1>2. QED
  BY <1>1 DEF CodeOK, InitFunc, DefineFunc, Report, code

LEMMA CallType == ASSUME CodeOK, PushCondMatchMarks PROVE CodeOK'
<1>1. [cond |-> Len(cond), match |-> Len(match)] \in [cond : Nat, match : Nat]
  BY LenProperties DEF CodeOK
<1>2. QED
  BY <1>1, PushStack DEF CodeOK, PushCondMatchMarks

LEMMA ReturnType == ASSUME CodeOK, PopCondMatchMarks PROVE CodeOK'
<1>1. Last(marks) \in [cond : Nat, match : Nat]
  BY TopOfStack DEF CodeOK, PopCondMatchMarks
<1>2. /\ Unwind(cond, Last(marks).cond) \in Seq(Entries)
      /\ Unwind(match, Last(marks).match) \in Seq(BOOLEAN)
      /\ Pop(marks) \in Seq([cond : Nat, match : Nat])
  BY <1>1, UnwindType, PopStack DEF CodeOK
<1>3. QED
  BY <1>2 DEF CodeOK, PopCondMatchMarks

(* The tokens that can close a construct.                                  *)
LEMMA CloseToken ==
  ASSUME CodeOK, NEW kind \in Inner, NEW token \in Tokens(kind)
  PROVE  token \in {"ENDIF", "ENDSWITCH", "ENDWHILE", "}"}
<1>1. EndToken[kind] \in {"ENDIF", "ENDSWITCH", "ENDWHILE"}
  BY DEF EndToken, Inner
<1>2. BraceToken \in {"ENDIF", "ENDSWITCH", "ENDWHILE", "}"}
  <2>1. brace # <<>> => Last(brace) \in {"ENDIF", "ENDSWITCH", "ENDWHILE"}
    BY TopOfStack DEF CodeOK
  <2>2. QED
    BY <2>1 DEF BraceToken
<1>3. QED
  BY <1>1, <1>2 DEF Tokens

LEMMA CloseType ==
  ASSUME CodeOK, NEW kind \in Inner, Close(kind)
  PROVE  CodeOK'
<1>1. PICK token \in Tokens(kind) :
        CASE JumpTarget(token) # PageTarget(kind) -> Report("wrong jump")
          [] JumpTarget(token) = PageTarget(kind) /\ token = "}" -> Report("parse error")
          [] OTHER -> End(token)
  BY DEF Close
<1>2. token \in {"ENDIF", "ENDSWITCH", "ENDWHILE", "}"}
  BY CloseToken
<1>3. CASE JumpTarget(token) # PageTarget(kind)
  BY <1>1, <1>3 DEF CodeOK, Report, code
<1>4. CASE JumpTarget(token) = PageTarget(kind) /\ token = "}"
  BY <1>1, <1>4 DEF CodeOK, Report, code
<1>5. CASE JumpTarget(token) = PageTarget(kind) /\ token # "}"
  <2>1. End(token)
    BY <1>1, <1>5
  <2>2. EndIf \/ EndSwitch \/ EndWhile
    BY <1>2, <1>5, <2>1 DEF End
  <2>3. QED
    BY <2>2, EndIfType, EndSwitchType, EndWhileType
<1>6. QED
  BY <1>3, <1>4, <1>5

-----------------------------------------------------------------------------
(* Type correctness of the page: the constructs open in it. *)

NestOK == nest \in Seq(Frames) /\ Len(nest) <= MaxDepth

LEMMA TopType ==
  ASSUME NestOK
  PROVE  /\ Live \in BOOLEAN
         /\ OuterLive \in BOOLEAN
         /\ nest # <<>> => Top \in Frames
         /\ Len(nest) \in Nat
<1>1. nest # <<>> => Top \in Frames
  BY TopOfStack DEF NestOK, Top
<1>2. Live \in BOOLEAN
  <2>1. nest # <<>> => Top.live \in BOOLEAN
    BY <1>1 DEF Frames
  <2>2. QED
    BY <2>1, Zenon DEF Live
<1>3. Len(nest) \in Nat
  BY LenProperties DEF NestOK
<1>4. OuterLive \in BOOLEAN
  <2>1. CASE Len(nest) < 2
    BY <2>1, Zenon DEF OuterLive
  <2>2. CASE ~(Len(nest) < 2)
    <3>1. Len(nest) - 1 \in 1..Len(nest)
      BY <1>3, <2>2
    <3>2. nest[Len(nest) - 1] \in Frames
      BY <3>1, ElementOfSeq DEF NestOK
    <3>3. nest[Len(nest) - 1].live \in BOOLEAN
      BY <3>2 DEF Frames
    <3>4. QED
      BY <2>2, <3>3, Zenon DEF OuterLive
  <2>3. QED
    BY <2>1, <2>2
<1>5. QED
  BY <1>1, <1>2, <1>3, <1>4

LEMMA FrameType ==
  ASSUME CodeOK,
         NEW kind \in Kinds, NEW live \in BOOLEAN, NEW done \in BOOLEAN,
         NEW open \in BOOLEAN, NEW val \in Vals \union {NoVal}
  PROVE  Frame(kind, live, done, open, val) \in Frames
<1>1. Heights \in [cond : Nat, match : Nat, brace : Nat, loops : Nat, switches : Nat, marks : Nat]
  <2>1. /\ Len(cond) \in Nat /\ Len(match) \in Nat /\ Len(brace) \in Nat
        /\ Len(loops) \in Nat /\ Len(switches) \in Nat /\ Len(marks) \in Nat
    BY LenProperties DEF CodeOK
  <2>2. QED
    BY <2>1 DEF Heights
<1>2. QED
  BY <1>1 DEF Frame, Frames

LEMMA EnterType ==
  ASSUME CodeOK, NestOK,
         NEW kind \in Kinds, NEW live \in BOOLEAN, NEW done \in BOOLEAN,
         NEW open \in BOOLEAN, NEW val \in Vals \union {NoVal},
         Enter(kind, live, done, open, val)
  PROVE  NestOK' /\ Len(nest) < MaxDepth
<1>2. Frame(kind, live, done, open, val) \in Frames
  BY FrameType
<1>3. Len(nest) < MaxDepth
  BY DEF Enter, MayOpen
<1>4. nest' = Append(nest, Frame(kind, live, done, open, val))
  BY DEF Enter
<1>5. nest' \in Seq(Frames) /\ Len(nest') = Len(nest) + 1
  BY <1>2, <1>4, PushStack DEF NestOK
<1>6. QED
  BY <1>3, <1>5, ControlAssumption, TopType DEF NestOK

LEMMA SetTopType ==
  ASSUME NestOK, nest # <<>>, NEW f \in Frames, SetTop(f)
  PROVE  NestOK'
BY ReplaceTop DEF NestOK, SetTop

LEMMA LeaveType ==
  ASSUME NestOK, nest # <<>>, Leave
  PROVE  NestOK'
<1>1. nest' = Pop(nest)
  BY PopStack DEF NestOK, Leave
<1>2. nest' \in Seq(Frames) /\ Len(nest') = Len(nest) - 1
  BY <1>1, PopStack DEF NestOK
<1>3. QED
  BY <1>2, TopType, ControlAssumption DEF NestOK

(* DoBreakInside and DoReturn are the two actions that change more than    *)
(* the top of nest.                                                        *)
LEMMA BreakInsideType ==
  ASSUME CodeOK, NestOK, DoBreakInside
  PROVE  NestOK'
<1>1. PICK i \in DOMAIN nest :
        nest' = [j \in DOMAIN nest |->
          IF j >= i /\ Top.live THEN [nest[j] EXCEPT !.live = FALSE, !.done = TRUE] ELSE nest[j]]
  BY DEF DoBreakInside
<1>2. DOMAIN nest = 1..Len(nest) /\ Len(nest) \in Nat
  BY LenProperties DEF NestOK
<1>3. \A j \in 1..Len(nest) : nest[j] \in Frames
  BY ElementOfSeq DEF NestOK
<1>4. \A j \in 1..Len(nest) : [nest[j] EXCEPT !.live = FALSE, !.done = TRUE] \in Frames
  BY <1>3 DEF Frames
<1>5. \A j \in 1..Len(nest) : nest'[j] \in Frames
  BY <1>1, <1>2, <1>3, <1>4
<1>6. nest' \in Seq(Frames) /\ Len(nest') = Len(nest)
  <2>1. nest' \in [1..Len(nest) -> Frames]
    BY <1>1, <1>2, <1>5
  <2>2. QED
    BY <1>2, <2>1, SMT
<1>7. QED
  BY <1>6 DEF NestOK

LEMMA CutNestType ==
  ASSUME CodeOK, NestOK, DoReturn
  PROVE  NestOK'
<1>1. PICK i \in DOMAIN nest : nest' = SubSeq(nest, 1, i - 1)
  BY DEF DoReturn
<1>2. i - 1 \in 0..Len(nest) /\ Len(nest) \in Nat
  BY <1>1, LenProperties DEF NestOK
<1>3. nest' \in Seq(Frames) /\ Len(nest') = i - 1
  BY <1>1, <1>2, CutStack DEF NestOK
<1>4. QED
  BY <1>2, <1>3, ControlAssumption DEF NestOK

(* Every action of the page keeps the types.                               *)
LEMMA TypeStep == TypeOK /\ Next => TypeOK'
<1> SUFFICES ASSUME CodeOK, NestOK, Next
             PROVE  CodeOK' /\ NestOK'
  BY DEF TypeOK, CodeOK, NestOK
<1>1. ASSUME NEW c \in BOOLEAN, DoIf(c) PROVE CodeOK' /\ NestOK'
  BY <1>1, IfType, EnterType, TopType DEF DoIf, Kinds
<1>2. ASSUME NEW c \in BOOLEAN, DoElseIf(c) PROVE CodeOK' /\ NestOK'
  <2> DEFINE f == [Top EXCEPT !.live = OuterLive /\ ~Top.done /\ c, !.done = @ \/ c]
  <2>1. nest # <<>> /\ SetTop(f) /\ ElseIf(c)
    BY <1>2 DEF DoElseIf, In
  <2>2. f \in Frames
    BY <2>1, TopType DEF Frames
  <2>3. QED
    BY <2>1, <2>2, ElseIfType, SetTopType
<1>3. CASE DoElse
  <2> DEFINE f == [Top EXCEPT !.live = OuterLive /\ ~Top.done, !.done = TRUE, !.last = TRUE]
  <2>1. nest # <<>> /\ SetTop(f) /\ Else
    BY <1>3 DEF DoElse, In
  <2>2. f \in Frames
    BY <2>1, TopType DEF Frames
  <2>3. QED
    BY <2>1, <2>2, ElseType, SetTopType
<1>4. CASE DoEndIf
  BY <1>4, CloseType, LeaveType DEF DoEndIf, In, Inner
<1>5. ASSUME NEW v \in Vals, DoSwitch(v) PROVE CodeOK' /\ NestOK'
  BY <1>5, SwitchType, EnterType, TopType DEF DoSwitch, Kinds
<1>6. ASSUME NEW v \in Vals, DoCase(v) PROVE CodeOK' /\ NestOK'
  <2> DEFINE f == [Top EXCEPT
       !.live = OuterLive /\ ((Top.open /\ Top.live) \/ (~Top.done /\ v = Top.val)),
       !.done = @ \/ v = Top.val, !.seen = @ \union {v}, !.open = TRUE]
  <2>1. nest # <<>> /\ SetTop(f) /\ Case(v)
    BY <1>6 DEF DoCase, In
  <2>2. f \in Frames
    BY <2>1, TopType DEF Frames
  <2>3. QED
    BY <2>1, <2>2, CaseType, SetTopType
<1>7. CASE DoDefault
  <2> DEFINE f == [Top EXCEPT !.live = OuterLive /\ ((Top.open /\ Top.live) \/ ~Top.done),
                              !.done = TRUE, !.last = TRUE, !.open = TRUE]
  <2>1. nest # <<>> /\ SetTop(f) /\ Default
    BY <1>7 DEF DoDefault, In
  <2>2. f \in Frames
    BY <2>1, TopType DEF Frames
  <2>3. QED
    BY <2>1, <2>2, DefaultType, SetTopType
<1>8. CASE DoBreak
  <2> DEFINE f == [Top EXCEPT !.open = FALSE, !.live = OuterLive]
  <2>1. nest # <<>> /\ SetTop(f) /\ Break
    BY <1>8 DEF DoBreak, In
  <2>2. f \in Frames
    BY <2>1, TopType DEF Frames
  <2>3. QED
    BY <2>1, <2>2, BreakType, SetTopType
<1>9. CASE DoBreakInside
  BY <1>9, BreakType, BreakInsideType DEF DoBreakInside
<1>10. CASE DoEndSwitch
  BY <1>10, CloseType, LeaveType DEF DoEndSwitch, In, Inner
<1>11. ASSUME NEW c \in BOOLEAN, DoWhile(c) PROVE CodeOK' /\ NestOK'
  <2>1. NestOK' /\ Len(nest) < MaxDepth
    BY <1>11, EnterType, TopType DEF DoWhile, Kinds
  <2>2. QED
    BY <1>11, <2>1, WhileType, TopType, ControlAssumption DEF DoWhile
<1>12. ASSUME NEW c \in BOOLEAN, DoWhileAgain(c) PROVE CodeOK' /\ NestOK'
  <2> DEFINE f == [Top EXCEPT !.live = c, !.open = TRUE]
  <2>1. nest # <<>> /\ SetTop(f) /\ While(c, FALSE)
    BY <1>12 DEF DoWhileAgain, In
  <2>2. f \in Frames
    BY <2>1, TopType DEF Frames
  <2>3. QED
    BY <2>1, <2>2, WhileType, SetTopType, TopType, ControlAssumption
<1>13. CASE DoEndWhile
  <2> DEFINE f == [Top EXCEPT !.open = FALSE]
  <2>1. nest # <<>> /\ Close("while") /\ (SetTop(f) \/ Leave)
    BY <1>13 DEF DoEndWhile, In
  <2>2. f \in Frames
    BY <2>1, TopType DEF Frames
  <2>3. QED
    BY <2>1, <2>2, CloseType, SetTopType, LeaveType DEF Inner
<1>14. CASE DoFunc
  BY <1>14, FuncType, EnterType DEF DoFunc, Kinds
<1>15. CASE DoEndFunc
  BY <1>15, FuncType, LeaveType DEF DoEndFunc, In
<1>16. CASE DoCall
  BY <1>16, CallType, EnterType DEF DoCall, Kinds
<1>17. CASE DoReturn
  BY <1>17, ReturnType, CutNestType DEF DoReturn
<1>18. QED
  BY <1>1, <1>2, <1>3, <1>4, <1>5, <1>6, <1>7, <1>8, <1>9, <1>10, <1>11, <1>12, <1>13,
     <1>14, <1>15, <1>16, <1>17 DEF Next

(* The stacks never hold anything but what their C structures provide for, *)
(* and the loop positions are those of constructs that can be open,        *)
(* whatever the page.                                                      *)
THEOREM ControlTypes == Spec => []TypeOK
<1>1. Init => TypeOK
  <2>1. \A S : <<>> \in Seq(S) /\ Len(<<>>) = 0
    BY EmptySeq
  <2>2. QED
    BY <2>1, ControlAssumption DEF Init, TypeOK
<1>2. TypeOK /\ UNCHANGED vars => TypeOK'
  BY DEF vars, TypeOK
<1>3. QED
  BY <1>1, <1>2, TypeStep, PTL DEF Spec


-----------------------------------------------------------------------------
(* SkippedStaysSkipped, for every page. *)

-----------------------------------------------------------------------------
(* The inductive invariant.  SkippedStaysSkipped alone is not inductive:   *)
(* else replaces the top of cond by an entry that may be on, so an if      *)
(* entry that could still turn on must lie on an entry that is on.         *)

(* The code of this entry runs, or a later branch or case in it may.       *)
MayRun(e) == e.state \/ e.active \in {1, -2}

(* The entry was pushed by a construct that was itself live.               *)
Strict(e) == e.active = 1 \/ (e.state /\ e.active # -2)

Lay(s) ==
  /\ \A i, j \in 1..Len(s) : i < j /\ MayRun(s[j]) => s[i].state \/ s[i].active = -2
  /\ \A j \in 1..Len(s) : j > 1 /\ Strict(s[j]) => s[j - 1].state

(* Only the innermost construct of a page can be between two bodies.       *)
OpenBelow == \A i \in 1..Len(nest) : i < Len(nest) => nest[i].open

(* Back at its while token a loop is still on top of cond and live.        *)
AgainLive ==
  Running /\ nest # <<>> /\ Top.kind = "while" /\ ~Top.open
    => cond # <<>> /\ Last(cond).state /\ Last(cond).active = -4

SkipInv == TypeOK /\ Lay(cond) /\ OpenBelow /\ AgainLive

-----------------------------------------------------------------------------
(* What the handlers do to cond. *)

(* A prefix of a well laid stack is well laid.                             *)
LEMMA PrefixLay ==
  ASSUME NEW s \in Seq(Entries), NEW t \in Seq(Entries), Lay(s),
         Len(t) <= Len(s), \A i \in 1..Len(t) : t[i] = s[i]
  PROVE  Lay(t)
<1>1. Len(s) \in Nat /\ Len(t) \in Nat
  BY LenProperties
<1>2. ASSUME NEW i \in 1..Len(t), NEW j \in 1..Len(t), i < j, MayRun(t[j])
      PROVE  t[i].state \/ t[i].active = -2
  <2>1. i \in 1..Len(s) /\ j \in 1..Len(s) /\ t[i] = s[i] /\ t[j] = s[j]
    BY <1>1
  <2>2. QED
    BY <1>2, <2>1 DEF Lay
<1>3. ASSUME NEW j \in 1..Len(t), j > 1, Strict(t[j])
      PROVE  t[j - 1].state
  <2>1. j \in 1..Len(s) /\ t[j] = s[j] /\ t[j - 1] = s[j - 1]
    BY <1>1, <1>3
  <2>2. QED
    BY <1>3, <2>1 DEF Lay
<1>4. QED
  BY <1>2, <1>3 DEF Lay

(* e may lie on s.                                                         *)
Fits(s, e) ==
  /\ MayRun(e) => s = <<>> \/ Last(s).state \/ Last(s).active = -2
  /\ Strict(e) => s = <<>> \/ Last(s).state

(* Pushing an entry that fits keeps a stack well laid.                     *)
LEMMA PushLay ==
  ASSUME NEW s \in Seq(Entries), NEW e \in Entries, Lay(s), Fits(s, e)
  PROVE  Lay(Append(s, e))
<1> DEFINE t == Append(s, e)
<1>1. /\ Len(s) \in Nat /\ Len(t) = Len(s) + 1 /\ t[Len(s) + 1] = e
      /\ \A i \in 1..Len(s) : t[i] = s[i]
  BY LenProperties, PushStack
<1>2. s # <<>> => Len(s) \in Nat \ {0} /\ Last(s) = s[Len(s)]
  BY TopOfStack
<1>3. s = <<>> => Len(s) = 0
  BY EmptySeq
<1> HIDE DEF t
<1>4. ASSUME NEW i \in 1..Len(t), NEW j \in 1..Len(t), i < j, MayRun(t[j])
      PROVE  t[i].state \/ t[i].active = -2
  <2>1. CASE j <= Len(s)
    <3>1. i \in 1..Len(s) /\ j \in 1..Len(s)
      BY <1>1, <1>4, <2>1
    <3>2. MayRun(s[j])
      BY <1>1, <1>4, <3>1
    <3>3. s[i].state \/ s[i].active = -2
      BY <1>4, <3>1, <3>2 DEF Lay
    <3>4. QED
      BY <1>1, <3>1, <3>3
  <2>2. CASE j = Len(s) + 1
    <3>1. i \in 1..Len(s) /\ s # <<>>
      BY <1>1, <1>3, <1>4, <2>2
    <3>2. Last(s).state \/ Last(s).active = -2
      BY <1>1, <1>4, <2>2, <3>1 DEF Fits
    <3>3. MayRun(s[Len(s)])
      BY <1>2, <3>1, <3>2 DEF MayRun
    <3>4. s[i].state \/ s[i].active = -2
      <4>1. CASE i = Len(s)
        BY <1>2, <3>1, <3>2, <4>1
      <4>2. CASE i < Len(s)
        BY <1>2, <3>1, <3>3, <4>2 DEF Lay
      <4>3. QED
        BY <1>1, <3>1, <4>1, <4>2
    <3>5. QED
      BY <1>1, <3>1, <3>4
  <2>3. QED
    BY <1>1, <1>4, <2>1, <2>2
<1>5. ASSUME NEW j \in 1..Len(t), j > 1, Strict(t[j])
      PROVE  t[j - 1].state
  <2>1. CASE j <= Len(s)
    <3>1. j \in 1..Len(s) /\ j - 1 \in 1..Len(s)
      BY <1>1, <1>5, <2>1
    <3>2. s[j - 1].state
      BY <1>1, <1>5, <3>1 DEF Lay
    <3>3. QED
      BY <1>1, <3>1, <3>2
  <2>2. CASE j = Len(s) + 1
    <3>1. s # <<>> /\ j - 1 = Len(s) /\ Len(s) \in 1..Len(s)
      BY <1>1, <1>3, <1>5, <2>2
    <3>2. Last(s).state
      BY <1>1, <1>5, <2>2, <3>1 DEF Fits
    <3>3. QED
      BY <1>1, <1>2, <3>1, <3>2
  <2>3. QED
    BY <1>1, <1>5, <2>1, <2>2
<1>6. QED
  BY <1>4, <1>5 DEF Lay, t

(* Replacing a strict top by an entry of a live outer code.                *)
LEMMA ReplaceLay ==
  ASSUME NEW s \in Seq(Entries), NEW e \in Entries, Lay(s),
         s # <<>>, Strict(Last(s))
  PROVE  Lay(Append(Pop(s), e))
<1>1. /\ Pop(s) \in Seq(Entries) /\ Len(Pop(s)) = Len(s) - 1
      /\ \A i \in 1..Len(Pop(s)) : Pop(s)[i] = s[i]
  BY PopStack
<1>2. Len(s) \in Nat \ {0} /\ Last(s) = s[Len(s)]
  BY TopOfStack
<1>3. Lay(Pop(s))
  BY <1>1, <1>2, PrefixLay
<1>4. Pop(s) # <<>> => Last(Pop(s)).state
  <2> SUFFICES ASSUME Pop(s) # <<>> PROVE Last(Pop(s)).state
    OBVIOUS
  <2>1. Len(Pop(s)) \in Nat \ {0} /\ Last(Pop(s)) = Pop(s)[Len(Pop(s))]
    BY <1>1, TopOfStack
  <2>2. Len(s) \in 1..Len(s) /\ Len(s) > 1 /\ Len(s) - 1 \in 1..Len(Pop(s))
    BY <1>1, <1>2, <2>1
  <2>3. s[Len(s) - 1].state
    BY <1>2, <2>2 DEF Lay
  <2>4. QED
    BY <1>1, <2>1, <2>2, <2>3
<1>5. Fits(Pop(s), e)
  BY <1>4 DEF Fits
<1>6. QED
  BY <1>1, <1>3, <1>5, PushLay

LEMMA CondPopLay ==
  ASSUME CodeOK, Lay(cond)
  PROVE  Lay(Pop(cond))
<1>1. cond \in Seq(Entries)
  BY DEF CodeOK
<1>2. QED
  BY <1>1, PopStack, PrefixLay

(* An entry pushed by live code fits, and so does one that stays off.      *)
LEMMA CondPushLay ==
  ASSUME CodeOK, Lay(cond), NEW st \in BOOLEAN, NEW a \in Actives,
         State \/ (~st /\ a \notin {1, -2}) \/ (a = -2 /\ GetCurrentActive = -2)
  PROVE  Lay(Append(cond, Entry(st, a)))
<1>1. cond \in Seq(Entries) /\ Entry(st, a) \in Entries
  BY CondPushType DEF CodeOK
<1>2. Entry(st, a).state = st /\ Entry(st, a).active = a
  BY DEF Entry
<1>3. CASE State
  <2>1. cond = <<>> \/ Last(cond).state
    BY <1>3 DEF State
  <2>2. Fits(cond, Entry(st, a))
    BY <2>1 DEF Fits
  <2>3. QED
    BY <1>1, <2>2, PushLay
<1>4. CASE ~st /\ a \notin {1, -2}
  <2>1. ~MayRun(Entry(st, a)) /\ ~Strict(Entry(st, a))
    BY <1>2, <1>4 DEF MayRun, Strict
  <2>2. QED
    BY <1>1, <2>1, PushLay DEF Fits
<1>5. CASE a = -2 /\ GetCurrentActive = -2
  <2>1. cond # <<>> /\ Last(cond).active = -2
    BY <1>5 DEF GetCurrentActive
  <2>2. ~Strict(Entry(st, a))
    BY <1>2, <1>5 DEF Strict
  <2>3. QED
    BY <1>1, <2>1, <2>2, PushLay DEF Fits
<1>6. QED
  BY <1>3, <1>4, <1>5

(* An entry of skipped code that stays off fits anywhere.                  *)
LEMMA OffPushLay ==
  ASSUME CodeOK, Lay(cond), NEW a \in {-6, -4, -3, 0}
  PROVE  Lay(Append(cond, Entry(FALSE, a)))
<1>1. FALSE \in BOOLEAN /\ a \in Actives
  BY DEF Actives
<1>2. cond \in Seq(Entries) /\ Entry(FALSE, a) \in Entries
  BY <1>1, CondPushType DEF CodeOK
<1>3. ~Entry(FALSE, a).state /\ Entry(FALSE, a).active = a
  BY DEF Entry
<1>4. a # 1 /\ a # -2
  OBVIOUS
<1>5. ~MayRun(Entry(FALSE, a)) /\ ~Strict(Entry(FALSE, a))
  BY <1>3, <1>4 DEF MayRun, Strict
<1>6. QED
  BY <1>2, <1>5, PushLay DEF Fits

LEMMA IfLay == ASSUME CodeOK, Lay(cond), NEW c \in BOOLEAN, If(c) PROVE Lay(cond')
<1>1. CASE State
  <2>1. cond' = Append(cond, Entry(c, 1))
    BY <1>1 DEF If
  <2>2. QED
    BY <1>1, <2>1, CondPushLay DEF Actives
<1>2. CASE ~State
  <2>1. cond' = Append(cond, Entry(FALSE, 0))
    BY <1>2 DEF If
  <2>2. QED
    BY <2>1, OffPushLay
<1>3. QED
  BY <1>1, <1>2

LEMMA BranchLay ==
  ASSUME CodeOK, Lay(cond), Active > 0,
         NEW st \in BOOLEAN, NEW a \in {-1, 1}, NEW m, NewBranch(st, a, m)
  PROVE  Lay(cond')
<1>1. cond \in Seq(Entries) /\ Entry(st, a) \in Entries
  BY CondPushType DEF CodeOK, Actives
<1>2. cond # <<>> /\ Last(cond).active = 1
  BY ReadType DEF Active, Actives
<1>3. Strict(Last(cond))
  BY <1>2 DEF Strict
<1>4. QED
  BY <1>1, <1>2, <1>3, ReplaceLay DEF NewBranch

LEMMA ElseLay == ASSUME CodeOK, Lay(cond), Else PROVE Lay(cond')
<1>1. CASE cond' = cond
  BY <1>1
<1>2. CASE Active > 0 /\ NewBranch(~Matched, -1, ~Matched)
  BY <1>2, BranchLay, ReadType
<1>3. QED
  BY <1>1, <1>2 DEF Else, Report, code

LEMMA ElseIfLay == ASSUME CodeOK, Lay(cond), NEW c \in BOOLEAN, ElseIf(c) PROVE Lay(cond')
<1>1. CASE cond' = cond
  BY <1>1
<1>2. CASE Active > 0 /\ NewBranch(~Matched /\ c, 1, Matched \/ c)
  <2>1. (~Matched /\ c) \in BOOLEAN
    BY ReadType
  <2>2. QED
    BY <1>2, <2>1, BranchLay
<1>3. QED
  BY <1>1, <1>2 DEF ElseIf, Report, code

LEMMA SwitchLay == ASSUME CodeOK, Lay(cond), NEW v \in Vals, Switch(v) PROVE Lay(cond')
<1>1. CASE State
  <2>1. cond' = Append(cond, Entry(TRUE, 1))
    BY <1>1 DEF Switch
  <2>2. QED
    BY <1>1, <2>1, CondPushLay DEF Actives
<1>2. CASE ~State
  <2>1. cond' = cond \/ cond' = Append(cond, Entry(FALSE, -3))
    BY <1>2 DEF Switch
  <2>2. Lay(Append(cond, Entry(FALSE, -3)))
    BY OffPushLay
  <2>3. QED
    BY <2>1, <2>2
<1>3. QED
  BY <1>1, <1>2

LEMMA CaseLay == ASSUME CodeOK, Lay(cond), NEW v \in Vals, Case(v) PROVE Lay(cond')
<1>1. cond' = cond \/ ((State \/ GetCurrentActive = -2)
                        /\ cond' = Append(cond, Entry(v = Last(switches).val, -2)))
  BY DEF Case, Report, code
<1>2. QED
  BY <1>1, CondPushLay DEF Actives

LEMMA DefaultLay == ASSUME CodeOK, Lay(cond), Default PROVE Lay(cond')
<1>1. cond' = cond \/ ((State \/ GetCurrentActive = -2)
                        /\ cond' = Append(cond, Entry(~Last(switches).matched, -2)))
  BY DEF Default, Report, code
<1>2. (~Last(switches).matched) \in BOOLEAN
  BY Zenon
<1>3. QED
  BY <1>1, <1>2, CondPushLay DEF Actives

LEMMA BreakLay == ASSUME CodeOK, Lay(cond), Break PROVE Lay(cond')
<1>1. cond' = cond \/ cond' = Pop(cond)
  BY DEF Break, Report, code
<1>2. QED
  BY <1>1, CondPopLay

LEMMA WhileLay ==
  ASSUME CodeOK, Lay(cond), NEW c \in BOOLEAN, NEW new \in BOOLEAN, While(c, new),
         ~new => cond # <<>> /\ Last(cond).state /\ Last(cond).active = -4
  PROVE  Lay(cond')
<1>1. \/ cond' = cond
      \/ State /\ new /\ cond' = Append(cond, Entry(c, -4))
      \/ ~new /\ cond' = CondChange(c, -4)
      \/ cond' = Append(cond, Entry(FALSE, -4))
  BY DEF While, Report, code
<1>2. State => Lay(Append(cond, Entry(c, -4)))
  BY CondPushLay DEF Actives
<1>3. Lay(Append(cond, Entry(FALSE, -4)))
  BY OffPushLay
<1>4. ~new => Lay(CondChange(c, -4))
  <2>1. ~new => Strict(Last(cond)) /\ CondChange(c, -4) = Append(Pop(cond), Entry(c, -4))
    BY DEF Strict, CondChange, Pop
  <2>2. cond \in Seq(Entries) /\ Entry(c, -4) \in Entries
    BY CondPushType DEF CodeOK, Actives
  <2>3. QED
    BY <2>1, <2>2, ReplaceLay
<1>5. QED
  BY <1>1, <1>2, <1>3, <1>4

(* The closing tokens, break, the end of a function and of its definition  *)
(* only pop.                                                               *)
LEMMA CloseLay == ASSUME CodeOK, Lay(cond), NEW kind \in Inner, Close(kind) PROVE Lay(cond')
<1>1. PICK token \in Tokens(kind) :
        CASE JumpTarget(token) # PageTarget(kind) -> Report("wrong jump")
          [] JumpTarget(token) = PageTarget(kind) /\ token = "}" -> Report("parse error")
          [] OTHER -> End(token)
  BY DEF Close
<1>2. token \in {"ENDIF", "ENDSWITCH", "ENDWHILE", "}"}
  BY CloseToken
<1>3. CASE cond' = cond
  BY <1>3
<1>4. CASE EndIf \/ EndSwitch \/ EndWhile
  <2>1. cond' = cond \/ cond' = Pop(cond)
    BY <1>4 DEF EndIf, EndSwitch, EndWhile, Report, code
  <2>2. QED
    BY <2>1, CondPopLay
<1>5. cond' = cond \/ EndIf \/ EndSwitch \/ EndWhile
  BY <1>1, <1>2 DEF End, Report, code
<1>6. QED
  BY <1>3, <1>4, <1>5

LEMMA FuncLay == ASSUME CodeOK, Lay(cond), InitFunc \/ DefineFunc PROVE Lay(cond')
<1>1. cond' = cond \/ cond' = Pop(cond) \/ cond' = Append(cond, Entry(FALSE, -6))
  BY DEF InitFunc, DefineFunc, Report, code
<1>2. Lay(Append(cond, Entry(FALSE, -6)))
  BY OffPushLay
<1>3. QED
  BY <1>1, <1>2, CondPopLay

LEMMA ReturnLay == ASSUME CodeOK, Lay(cond), PopCondMatchMarks PROVE Lay(cond')
<1>1. cond' = Unwind(cond, Last(marks).cond)
  BY DEF PopCondMatchMarks
<1>2. Last(marks) \in [cond : Nat, match : Nat] /\ cond \in Seq(Entries)
  BY TopOfStack DEF CodeOK, PopCondMatchMarks
<1>3. QED
  BY <1>1, <1>2, UnwindType, PrefixLay

-----------------------------------------------------------------------------
(* What the page does to nest. *)

(* With every construct of nest able to hold statements, as after opening  *)
(* or leaving one, both conditions on nest hold.                           *)
LEMMA AllOpen ==
  ASSUME NestOK, \A i \in 1..Len(nest) : nest[i].open
  PROVE  OpenBelow /\ AgainLive
<1>1. nest # <<>> => Top.open
  BY TopOfStack DEF NestOK, Top
<1>2. QED
  BY <1>1 DEF OpenBelow, AgainLive

(* Statements follow only where every construct is open.                   *)
LEMMA InBodyOpen ==
  ASSUME NestOK, OpenBelow, InBody
  PROVE  \A i \in 1..Len(nest) : nest[i].open
<1>1. nest # <<>> => Len(nest) \in Nat \ {0} /\ nest[Len(nest)].open
  BY TopOfStack DEF NestOK, InBody, Top
<1>2. Len(nest) \in Nat /\ (nest = <<>> => Len(nest) = 0)
  BY LenProperties, EmptySeq DEF NestOK
<1>3. QED
  BY <1>1, <1>2 DEF OpenBelow

LEMMA EnterOpen ==
  ASSUME NestOK, NestOK', OpenBelow, CodeOK,
         NEW kind \in Kinds, NEW live \in BOOLEAN, NEW done \in BOOLEAN,
         NEW open \in BOOLEAN, NEW val \in Vals \union {NoVal},
         Enter(kind, live, done, open, val), open \/ kind # "while"
  PROVE  OpenBelow' /\ AgainLive'
<1> DEFINE f == Frame(kind, live, done, open, val)
<1>1. nest' = Append(nest, f)
  BY DEF Enter
<1>2. f.open = open /\ f.kind = kind
  BY DEF Frame
<1>3. f \in Frames
  BY FrameType
<1> HIDE DEF f
<1>4. /\ Len(nest) \in Nat /\ Len(nest') = Len(nest) + 1 /\ nest' # <<>>
      /\ nest'[Len(nest) + 1] = f /\ Last(nest') = f
      /\ \A i \in 1..Len(nest) : nest'[i] = nest[i]
  BY <1>1, <1>3, PushStack, TopType DEF NestOK
<1>5. \A i \in 1..Len(nest) : nest[i].open
  BY InBodyOpen DEF Enter, MayOpen
<1>6. OpenBelow'
  BY <1>4, <1>5 DEF OpenBelow
<1>7. AgainLive'
  BY <1>2, <1>4 DEF AgainLive, Top
<1>8. QED
  BY <1>6, <1>7

LEMMA SetTopOpen ==
  ASSUME NestOK, OpenBelow, nest # <<>>, NEW f \in Frames, SetTop(f),
         f.open \/ f.kind # "while"
  PROVE  OpenBelow' /\ AgainLive'
<1>1. nest' = [nest EXCEPT ![Len(nest)] = f]
  BY DEF SetTop
<1>2. /\ Len(nest) \in Nat /\ Len(nest') = Len(nest) /\ Last(nest') = f
      /\ \A i \in 1..(Len(nest) - 1) : nest'[i] = nest[i]
  <2>1. nest \in Seq(Frames) /\ Len(nest) \in Nat
    BY TopType DEF NestOK
  <2>2. /\ Len([nest EXCEPT ![Len(nest)] = f]) = Len(nest)
        /\ \A i \in 1..(Len(nest) - 1) : [nest EXCEPT ![Len(nest)] = f][i] = nest[i]
        /\ Last([nest EXCEPT ![Len(nest)] = f]) = f
    BY <2>1, ReplaceTop
  <2>3. QED
    BY <1>1, <2>1, <2>2
<1>3. OpenBelow'
  BY <1>2 DEF OpenBelow
<1>4. AgainLive'
  BY <1>2 DEF AgainLive, Top
<1>5. QED
  BY <1>3, <1>4

(* What is left of nest when its inner constructs are dropped is open.     *)
LEMMA CutOpen ==
  ASSUME NestOK, NestOK', OpenBelow, NEW n \in 0..Len(nest), n < Len(nest),
         nest' = SubSeq(nest, 1, n)
  PROVE  OpenBelow' /\ AgainLive'
<1>1. Len(nest') = n /\ \A i \in 1..n : nest'[i] = nest[i]
  BY CutStack DEF NestOK
<1>2. \A i \in 1..n : nest[i].open
  BY DEF OpenBelow
<1>3. \A i \in 1..Len(nest') : nest'[i].open
  BY <1>1, <1>2
<1>4. OpenBelow'
  BY <1>3 DEF OpenBelow
<1>5. nest' # <<>> => Last(nest').open
  <2>1. nest' \in Seq(Frames)
    BY DEF NestOK
  <2>2. nest' # <<>> => Len(nest') \in Nat \ {0} /\ Last(nest') = nest'[Len(nest')]
    BY <2>1, TopOfStack
  <2>3. QED
    BY <1>3, <2>2
<1>6. AgainLive'
  BY <1>5 DEF AgainLive, Top
<1>7. QED
  BY <1>4, <1>6

LEMMA LeaveOpen ==
  ASSUME NestOK, NestOK', OpenBelow, nest # <<>>, Leave
  PROVE  OpenBelow' /\ AgainLive'
<1>1. Len(nest) \in Nat \ {0}
  BY TopOfStack DEF NestOK
<1>2. nest' = SubSeq(nest, 1, Len(nest) - 1)
  BY DEF Leave, Front
<1>3. QED
  BY <1>1, <1>2, CutOpen

(* Break inside a construct switches constructs off and opens none.        *)
LEMMA BreakInsideOpen ==
  ASSUME CodeOK, NestOK, NestOK', OpenBelow, DoBreakInside
  PROVE  OpenBelow' /\ AgainLive'
<1>1. PICK i \in DOMAIN nest :
        nest' = [j \in DOMAIN nest |->
          IF j >= i /\ Top.live THEN [nest[j] EXCEPT !.live = FALSE, !.done = TRUE] ELSE nest[j]]
  BY DEF DoBreakInside
<1>2. DOMAIN nest = 1..Len(nest) /\ DOMAIN nest' = 1..Len(nest')
      /\ Len(nest) \in Nat /\ Len(nest') \in Nat
  BY LenProperties DEF NestOK
<1>3. 1..Len(nest') = 1..Len(nest)
  BY <1>1, <1>2
<1>4. \A j \in 1..Len(nest) : nest[j].open /\ nest[j] \in Frames
  BY InBodyOpen, ElementOfSeq DEF NestOK, DoBreakInside
<1>5. \A j \in 1..Len(nest) : [nest[j] EXCEPT !.live = FALSE, !.done = TRUE].open
  BY <1>4 DEF Frames
<1>6. \A j \in 1..Len(nest) : nest'[j].open
  BY <1>1, <1>2, <1>4, <1>5
<1>7. \A j \in 1..Len(nest') : nest'[j].open
  BY <1>3, <1>6
<1>8. OpenBelow'
  BY <1>7 DEF OpenBelow
<1>9. nest' # <<>> => Last(nest').open
  <2>1. nest' \in Seq(Frames)
    BY DEF NestOK
  <2>2. nest' # <<>> => Len(nest') \in Nat \ {0} /\ Last(nest') = nest'[Len(nest')]
    BY <2>1, TopOfStack
  <2>3. QED
    BY <1>7, <2>2
<1>10. AgainLive'
  BY <1>9 DEF AgainLive, Top
<1>11. QED
  BY <1>8, <1>10

(* A return drops the innermost constructs.                                *)
LEMMA ReturnOpen ==
  ASSUME NestOK, NestOK', OpenBelow, DoReturn
  PROVE  OpenBelow' /\ AgainLive'
<1>1. PICK i \in DOMAIN nest : nest' = SubSeq(nest, 1, i - 1)
  BY DEF DoReturn
<1>2. i - 1 \in 0..Len(nest) /\ i - 1 < Len(nest)
  BY <1>1, LenProperties DEF NestOK
<1>3. QED
  BY <1>1, <1>2, CutOpen

(* A live loop that ends without an error is back at its while token with  *)
(* its entry still on top of cond.                                         *)
LEMMA EndWhileAgain ==
  ASSUME CodeOK, NestOK, NestOK', OpenBelow, In("while"), Top.live, Close("while"),
         SetTop([Top EXCEPT !.open = FALSE])
  PROVE  OpenBelow' /\ AgainLive'
<1> DEFINE f == [Top EXCEPT !.open = FALSE]
<1>1. nest # <<>> /\ f \in Frames
  BY TopType DEF In, Frames
<1>2. /\ Len(nest) \in Nat \ {0} /\ Len(nest') = Len(nest)
      /\ \A i \in 1..(Len(nest) - 1) : nest'[i] = nest[i]
  <2>1. nest \in Seq(Frames) /\ Len(nest) \in Nat \ {0}
    BY <1>1, TopOfStack DEF NestOK
  <2>2. /\ Len([nest EXCEPT ![Len(nest)] = f]) = Len(nest)
        /\ \A i \in 1..(Len(nest) - 1) : [nest EXCEPT ![Len(nest)] = f][i] = nest[i]
    BY <1>1, <2>1, ReplaceTop
  <2>3. nest' = [nest EXCEPT ![Len(nest)] = f]
    BY DEF SetTop
  <2>4. QED
    BY <2>1, <2>2, <2>3
<1>3. OpenBelow'
  BY <1>2 DEF OpenBelow
<1>4. PageTarget("while") # 0
  BY <1>1, <1>2 DEF PageTarget, Live
<1>5. PICK token \in Tokens("while") :
        CASE JumpTarget(token) # PageTarget("while") -> Report("wrong jump")
          [] JumpTarget(token) = PageTarget("while") /\ token = "}" -> Report("parse error")
          [] OTHER -> End(token)
  BY DEF Close
<1>6. CASE JumpTarget(token) # PageTarget("while")
  <2>1. err' = "wrong jump"
    BY <1>5, <1>6 DEF Report
  <2>2. QED
    BY <1>3, <2>1 DEF AgainLive, Running
<1>7. CASE JumpTarget(token) = PageTarget("while")
  <2>1. token = "ENDWHILE" /\ JumpsBack
    BY <1>4, <1>7 DEF JumpTarget
  <2>2. EndWhile
    BY <1>5, <1>7, <2>1 DEF End
  <2>3. State /\ Active = -4
    BY <2>1 DEF JumpsBack
  <2>4. cond # <<>> /\ Last(cond).state /\ Last(cond).active = -4
    BY <2>3 DEF State, Active
  <2>5. cond' = cond
    BY <2>1, <2>2, <2>3, <2>4 DEF EndWhile, code
  <2>6. cond' # <<>> /\ Last(cond').state /\ Last(cond').active = -4
    BY <2>4, <2>5
  <2>7. QED
    BY <1>3, <2>6 DEF AgainLive
<1>8. QED
  BY <1>6, <1>7

-----------------------------------------------------------------------------
(* The invariant. *)

LEMMA SkipStep == SkipInv /\ Next => SkipInv'
<1> SUFFICES ASSUME SkipInv, Next
             PROVE  Lay(cond') /\ OpenBelow' /\ AgainLive'
  BY TypeStep DEF SkipInv
<1>0. CodeOK /\ NestOK /\ NestOK' /\ Lay(cond) /\ OpenBelow /\ AgainLive
  BY TypeStep DEF SkipInv, TypeOK, CodeOK, NestOK
<1> HIDE DEF SkipInv
<1>1. ASSUME NEW c \in BOOLEAN, DoIf(c) PROVE Lay(cond') /\ OpenBelow' /\ AgainLive'
  <2>1. (Live /\ c) \in BOOLEAN
    BY <1>0, TopType
  <2>2. QED
    BY <1>0, <1>1, <2>1, IfLay, EnterOpen DEF DoIf, Kinds
<1>2. ASSUME NEW c \in BOOLEAN, DoElseIf(c) PROVE Lay(cond') /\ OpenBelow' /\ AgainLive'
  <2> DEFINE f == [Top EXCEPT !.live = OuterLive /\ ~Top.done /\ c, !.done = @ \/ c]
  <2>1. nest # <<>> /\ Top.kind = "if" /\ SetTop(f) /\ ElseIf(c)
    BY <1>2 DEF DoElseIf, In
  <2>2. f \in Frames /\ f.kind = "if"
    BY <1>0, <2>1, TopType DEF Frames
  <2>3. QED
    BY <1>0, <2>1, <2>2, ElseIfLay, SetTopOpen
<1>3. CASE DoElse
  <2> DEFINE f == [Top EXCEPT !.live = OuterLive /\ ~Top.done, !.done = TRUE, !.last = TRUE]
  <2>1. nest # <<>> /\ Top.kind = "if" /\ SetTop(f) /\ Else
    BY <1>3 DEF DoElse, In
  <2>2. f \in Frames /\ f.kind = "if"
    BY <1>0, <2>1, TopType DEF Frames
  <2>3. QED
    BY <1>0, <2>1, <2>2, ElseLay, SetTopOpen
<1>4. CASE DoEndIf
  BY <1>0, <1>4, CloseLay, LeaveOpen DEF DoEndIf, In, Inner
<1>5. ASSUME NEW v \in Vals, DoSwitch(v) PROVE Lay(cond') /\ OpenBelow' /\ AgainLive'
  BY <1>0, <1>5, SwitchLay, EnterOpen, TopType DEF DoSwitch, Kinds
<1>6. ASSUME NEW v \in Vals, DoCase(v) PROVE Lay(cond') /\ OpenBelow' /\ AgainLive'
  <2> DEFINE f == [Top EXCEPT
       !.live = OuterLive /\ ((Top.open /\ Top.live) \/ (~Top.done /\ v = Top.val)),
       !.done = @ \/ v = Top.val, !.seen = @ \union {v}, !.open = TRUE]
  <2>1. nest # <<>> /\ Top.kind = "switch" /\ SetTop(f) /\ Case(v)
    BY <1>6 DEF DoCase, In
  <2>2. f \in Frames /\ f.kind = "switch"
    BY <1>0, <2>1, TopType DEF Frames
  <2>3. QED
    BY <1>0, <2>1, <2>2, CaseLay, SetTopOpen
<1>7. CASE DoDefault
  <2> DEFINE f == [Top EXCEPT !.live = OuterLive /\ ((Top.open /\ Top.live) \/ ~Top.done),
                              !.done = TRUE, !.last = TRUE, !.open = TRUE]
  <2>1. nest # <<>> /\ Top.kind = "switch" /\ SetTop(f) /\ Default
    BY <1>7 DEF DoDefault, In
  <2>2. f \in Frames /\ f.kind = "switch"
    BY <1>0, <2>1, TopType DEF Frames
  <2>3. QED
    BY <1>0, <2>1, <2>2, DefaultLay, SetTopOpen
<1>8. CASE DoBreak
  <2> DEFINE f == [Top EXCEPT !.open = FALSE, !.live = OuterLive]
  <2>1. nest # <<>> /\ Top.kind = "switch" /\ SetTop(f) /\ Break
    BY <1>8 DEF DoBreak, In
  <2>2. f \in Frames /\ f.kind = "switch"
    BY <1>0, <2>1, TopType DEF Frames
  <2>3. QED
    BY <1>0, <2>1, <2>2, BreakLay, SetTopOpen
<1>9. CASE DoBreakInside
  BY <1>0, <1>9, BreakLay, BreakInsideOpen DEF DoBreakInside
<1>10. CASE DoEndSwitch
  BY <1>0, <1>10, CloseLay, LeaveOpen DEF DoEndSwitch, In, Inner
<1>11. ASSUME NEW c \in BOOLEAN, DoWhile(c) PROVE Lay(cond') /\ OpenBelow' /\ AgainLive'
  <2>1. (Live /\ c) \in BOOLEAN
    BY <1>0, TopType
  <2>2. OpenBelow' /\ AgainLive'
    BY <1>0, <1>11, <2>1, EnterOpen DEF DoWhile, Kinds
  <2>3. Lay(cond')
    BY <1>0, <1>11, WhileLay DEF DoWhile
  <2>4. QED
    BY <2>2, <2>3
<1>12. ASSUME NEW c \in BOOLEAN, DoWhileAgain(c) PROVE Lay(cond') /\ OpenBelow' /\ AgainLive'
  <2> DEFINE f == [Top EXCEPT !.live = c, !.open = TRUE]
  <2>1. nest # <<>> /\ SetTop(f) /\ While(c, FALSE)
    BY <1>12 DEF DoWhileAgain, In
  <2>2. f \in Frames /\ f.open
    BY <1>0, <2>1, TopType DEF Frames
  <2>3. cond # <<>> /\ Last(cond).state /\ Last(cond).active = -4
    BY <1>0, <1>12 DEF DoWhileAgain, In, AgainLive
  <2>4. Lay(cond')
    BY <1>0, <2>1, <2>3, WhileLay
  <2>5. QED
    BY <1>0, <2>1, <2>2, <2>4, SetTopOpen
<1>13. CASE DoEndWhile
  <2>1. In("while") /\ nest # <<>> /\ Close("while")
    BY <1>13 DEF DoEndWhile, In
  <2>2. Lay(cond')
    BY <1>0, <2>1, CloseLay DEF Inner
  <2>3. CASE Top.live
    BY <1>0, <1>13, <2>1, <2>2, <2>3, EndWhileAgain DEF DoEndWhile
  <2>4. CASE ~Top.live
    BY <1>0, <1>13, <2>1, <2>2, <2>4, LeaveOpen DEF DoEndWhile
  <2>5. QED
    BY <2>3, <2>4
<1>14. CASE DoFunc
  BY <1>0, <1>14, FuncLay, EnterOpen DEF DoFunc, Kinds
<1>15. CASE DoEndFunc
  BY <1>0, <1>15, FuncLay, LeaveOpen DEF DoEndFunc, In
<1>16. CASE DoCall
  <2>1. cond' = cond
    BY <1>16 DEF DoCall, PushCondMatchMarks
  <2>2. QED
    BY <1>0, <1>16, <2>1, EnterOpen DEF DoCall, Kinds
<1>17. CASE DoReturn
  BY <1>0, <1>17, ReturnLay, ReturnOpen DEF DoReturn
<1>18. QED
  BY <1>1, <1>2, <1>3, <1>4, <1>5, <1>6, <1>7, <1>8, <1>9, <1>10, <1>11, <1>12, <1>13,
     <1>14, <1>15, <1>16, <1>17 DEF Next

(* Whatever the page, however deep, with or without fall-through, break,   *)
(* early returns and braces: no code inside a skipped construct runs.      *)
THEOREM ControlSkips == Spec => []SkippedStaysSkipped
<1>1. Init => SkipInv
  <2>1. \A S : <<>> \in Seq(S) /\ Len(<<>>) = 0
    BY EmptySeq
  <2>2. Init => TypeOK
    BY <2>1, ControlAssumption DEF Init, TypeOK
  <2>3. Init => Lay(cond) /\ OpenBelow /\ AgainLive
    BY <2>1 DEF Init, Lay, OpenBelow, AgainLive
  <2>4. QED
    BY <2>2, <2>3 DEF SkipInv
<1>2. SkipInv /\ UNCHANGED vars => SkipInv'
  BY DEF vars, SkipInv, TypeOK, Lay, OpenBelow, AgainLive, Top, Running
<1>3. SkipInv => SkippedStaysSkipped
  <2> SUFFICES ASSUME SkipInv, NEW i \in DOMAIN cond, NEW j \in DOMAIN cond,
                      i < j, ~cond[i].state, cond[i].active # -2
               PROVE  ~cond[j].state
    BY DEF SkippedStaysSkipped
  <2>1. DOMAIN cond = 1..Len(cond)
    BY LenProperties DEF SkipInv, TypeOK
  <2>2. ~MayRun(cond[j])
    BY <2>1 DEF SkipInv, Lay
  <2>3. QED
    BY <2>2 DEF MayRun
<1>4. QED
  BY <1>1, <1>2, <1>3, SkipStep, PTL DEF Spec

-----------------------------------------------------------------------------
(* The pages the stacks are made for: StateFaithful, StacksFaithful,       *)
(* NoErrorReported and Balanced.                                           *)

-----------------------------------------------------------------------------
(* The inductive invariant.  Each of the properties speaks of the tops of  *)
(* the stacks; what is on top after a construct was left lay below it when *)
(* it was entered.  So the invariant says of every construct of nest, not  *)
(* only of the innermost, which entries of each stack are its own, and     *)
(* what they hold.                                                         *)

(* The heights of the stacks at the j-th construct of nest, or, past the   *)
(* innermost one, now.                                                     *)
At(j) == IF j > Len(nest) THEN Heights ELSE nest[j].at

(* Is the code around the j-th construct live?                             *)
Outer(j) == IF j = 1 THEN TRUE ELSE nest[j - 1].live

(* What GetCurrentState says when cond is as high as h.                    *)
StateAt(h) == IF h = 0 THEN TRUE ELSE cond[h].state

(* How many entries of each stack are the j-th construct's own.            *)
Grown(j, c, m, b, l, s, k) ==
  /\ At(j + 1).cond = nest[j].at.cond + c
  /\ At(j + 1).match = nest[j].at.match + m
  /\ At(j + 1).brace = nest[j].at.brace + b
  /\ At(j + 1).loops = nest[j].at.loops + l
  /\ At(j + 1).switches = nest[j].at.switches + s
  /\ At(j + 1).marks = nest[j].at.marks + k

(* A skipped if stays off whatever its branches say.                       *)
IfOwn(j) ==
  LET f == nest[j] IN
  /\ Grown(j, 1, 1, 1, 0, 0, 0)
  /\ cond[f.at.cond + 1].active = IF ~Outer(j) THEN 0 ELSE IF f.last THEN -1 ELSE 1
  /\ Outer(j) /\ ~f.last => (match[f.at.match + 1] <=> f.done)
  /\ brace[f.at.brace + 1] = "ENDIF"

(* A live switch has an entry for itself and one for the case it is in, a  *)
(* skipped one an entry for itself, and no value.                          *)
SwitchOwn(j) ==
  LET f == nest[j] IN
  /\ Grown(j, IF Outer(j) /\ f.open THEN 2 ELSE 1, 0, 1, 0, IF Outer(j) THEN 1 ELSE 0, 0)
  /\ brace[f.at.brace + 1] = "ENDSWITCH"
  /\ cond[f.at.cond + 1].active = IF Outer(j) THEN 1 ELSE -3
  /\ cond[f.at.cond + 1].state <=> Outer(j)
  /\ ~f.open => (f.live <=> Outer(j))
  /\ Outer(j) =>
       /\ f.open => cond[f.at.cond + 2].active = -2
       /\ switches[f.at.switches + 1].val = f.val
       /\ ~f.open => (switches[f.at.switches + 1].matched <=> f.done)
       /\ f.open => (switches[f.at.switches + 1].matched \/ f.live <=> f.done)
       /\ f.done /\ ~f.last => f.val \in f.seen

(* Only a live loop has a position to go back to.                          *)
WhileOwn(j) ==
  LET f == nest[j] IN
  /\ Grown(j, 1, 0, 1, IF f.live THEN 1 ELSE 0, 0, 0)
  /\ brace[f.at.brace + 1] = "ENDWHILE"
  /\ cond[f.at.cond + 1].active = -4
  /\ f.live => loops[f.at.loops + 1] = j
  /\ ~f.open => f.live

(* A body is read only where it is live, to be skipped.                    *)
FuncOwn(j) ==
  /\ Grown(j, 1, 0, 0, 0, 0, 0)
  /\ cond[nest[j].at.cond + 1].active = -6
  /\ Outer(j)

(* A call leaves nothing but the heights at which it was made.             *)
CallOwn(j) ==
  LET f == nest[j] IN
  /\ Grown(j, 0, 0, 0, 0, 0, 1)
  /\ marks[f.at.marks + 1].cond = f.at.cond /\ marks[f.at.marks + 1].match = f.at.match
  /\ Outer(j)

(* What lies on the stacks for the j-th construct, and that it is live     *)
(* exactly when cond says so, seen from the next one.                      *)
Own(j) ==
  /\ nest[j].live => Outer(j)
  /\ StateAt(At(j + 1).cond) <=> nest[j].live
  /\ nest[j].kind = "if" => IfOwn(j)
  /\ nest[j].kind = "switch" => SwitchOwn(j)
  /\ nest[j].kind = "while" => WhileOwn(j)
  /\ nest[j].kind = "func" => FuncOwn(j)
  /\ nest[j].kind = "call" => CallOwn(j)

Below(g, h) ==
  /\ g.cond <= h.cond /\ g.match <= h.match /\ g.brace <= h.brace
  /\ g.loops <= h.loops /\ g.switches <= h.switches /\ g.marks <= h.marks

(* The constructs lie on the stacks in the order in which they were opened.*)
Stacked ==
  /\ At(1).cond = 0
  /\ \A i, j \in 1..(Len(nest) + 1) : i <= j => Below(At(i), At(j))

(* The inductive invariant of StateFaithful and the rest.                  *)
PlainInv ==
  /\ TypeOK
  /\ NoErrorReported
  /\ OpenBelow
  /\ Stacked
  /\ \A j \in 1..Len(nest) : Own(j)

-----------------------------------------------------------------------------
(* What the properties of the tops of the stacks rest on. *)

(* The heights of the stacks are numbers.                                  *)
LEMMA HeightsType ==
  ASSUME CodeOK
  PROVE  /\ Len(cond) \in Nat /\ Len(match) \in Nat /\ Len(brace) \in Nat
         /\ Len(loops) \in Nat /\ Len(switches) \in Nat /\ Len(marks) \in Nat
         /\ Heights.cond = Len(cond) /\ Heights.match = Len(match) /\ Heights.brace = Len(brace)
         /\ Heights.loops = Len(loops) /\ Heights.switches = Len(switches) /\ Heights.marks = Len(marks)
BY LenProperties DEF CodeOK, Heights

(* So are they after a step.                                               *)
LEMMA HeightsTypeNext ==
  ASSUME CodeOK'
  PROVE  /\ Heights'.cond \in Nat /\ Heights'.match \in Nat /\ Heights'.brace \in Nat
         /\ Heights'.loops \in Nat /\ Heights'.switches \in Nat /\ Heights'.marks \in Nat
         /\ Heights'.cond = Len(cond') /\ Heights'.match = Len(match') /\ Heights'.brace = Len(brace')
         /\ Heights'.loops = Len(loops') /\ Heights'.switches = Len(switches')
         /\ Heights'.marks = Len(marks')
BY LenProperties DEF CodeOK, Heights

(* The heights before a construct, and after the innermost one.            *)
LEMMA AtType ==
  ASSUME CodeOK, NestOK, NEW j \in 1..(Len(nest) + 1)
  PROVE  /\ At(j).cond \in Nat /\ At(j).match \in Nat /\ At(j).brace \in Nat
         /\ At(j).loops \in Nat /\ At(j).switches \in Nat /\ At(j).marks \in Nat
         /\ j <= Len(nest) => At(j) = nest[j].at
         /\ j = Len(nest) + 1 => At(j) = Heights
<1>1. Len(nest) \in Nat
  BY TopType
<1>2. CASE j <= Len(nest)
  <2>1. nest[j] \in Frames
    BY <1>1, <1>2, ElementOfSeq DEF NestOK
  <2>2. At(j) = nest[j].at
    BY <1>1, <1>2 DEF At
  <2>3. QED
    BY <1>1, <1>2, <2>1, <2>2 DEF Frames
<1>3. CASE j = Len(nest) + 1
  BY <1>1, <1>3, HeightsType DEF At
<1>4. QED
  BY <1>1, <1>2, <1>3

(* Below is transitive.                                                    *)
LEMMA BelowTrans ==
  ASSUME NEW a, NEW b, NEW c, Below(a, b), Below(b, c),
         /\ a.cond \in Nat /\ a.match \in Nat /\ a.brace \in Nat
         /\ a.loops \in Nat /\ a.switches \in Nat /\ a.marks \in Nat,
         /\ b.cond \in Nat /\ b.match \in Nat /\ b.brace \in Nat
         /\ b.loops \in Nat /\ b.switches \in Nat /\ b.marks \in Nat,
         /\ c.cond \in Nat /\ c.match \in Nat /\ c.brace \in Nat
         /\ c.loops \in Nat /\ c.switches \in Nat /\ c.marks \in Nat
  PROVE  Below(a, c)
BY DEF Below

(* The entries up to a height are still what they were.                    *)
Same(s, t, h) == h <= Len(t) /\ \A i \in 1..h : t[i] = s[i]

Agree(h) ==
  /\ Same(cond, cond', h.cond) /\ Same(match, match', h.match) /\ Same(brace, brace', h.brace)
  /\ Same(loops, loops', h.loops) /\ Same(switches, switches', h.switches)
  /\ Same(marks, marks', h.marks)

(* The constructs below the k+1st keep what is theirs in a step that       *)
(* touches nothing below the heights at which that one stands.             *)
LEMMA OwnKept ==
  ASSUME PlainInv, CodeOK', NestOK', NEW k \in 0..Len(nest), k <= Len(nest'),
         \A i \in 1..k : nest'[i] = nest[i],
         Agree(At(k + 1)), At(k + 1)' = At(k + 1)
  PROVE  \A j \in 1..k : Own(j)'
<1>0. CodeOK /\ NestOK
  BY DEF PlainInv, TypeOK, CodeOK, NestOK
<1>1. Len(nest) \in Nat /\ Len(nest') \in Nat
  BY <1>0, TopType, LenProperties DEF NestOK
<1> SUFFICES ASSUME NEW j \in 1..k PROVE Own(j)'
  OBVIOUS
<1>2. j \in Nat \ {0} /\ j <= k /\ k <= Len(nest) /\ j \in 1..Len(nest) /\ j + 1 \in 1..(Len(nest) + 1)
      /\ k + 1 \in 1..(Len(nest) + 1) /\ nest[j] \in Frames /\ nest'[j] = nest[j]
  BY <1>0, <1>1, ElementOfSeq DEF NestOK
<1>3. Own(j) /\ Below(At(j + 1), At(k + 1))
  BY <1>2 DEF PlainInv, Stacked
<1>4. At(j + 1)' = At(j + 1)
  <2>1. CASE j = k
    BY <2>1
  <2>2. CASE j # k
    BY <1>1, <1>2, <2>2 DEF At
  <2>3. QED
    BY <2>1, <2>2
<1>5. Outer(j)' <=> Outer(j)
  <2>1. CASE j = 1
    BY <2>1 DEF Outer
  <2>2. CASE j # 1
    <3>1. j - 1 \in 1..k
      BY <1>2, <2>2
    <3>2. QED
      BY <2>2, <3>1 DEF Outer
  <2>3. QED
    BY <2>1, <2>2
<1>6. PICK u : u = At(j + 1)
  OBVIOUS
<1>7. /\ u.cond \in Nat /\ u.match \in Nat /\ u.brace \in Nat
      /\ u.loops \in Nat /\ u.switches \in Nat /\ u.marks \in Nat
      /\ Below(u, At(k + 1))
  BY <1>0, <1>2, <1>3, <1>6, AtType
<1>8. PICK t : t = At(k + 1)
  OBVIOUS
<1>9. /\ t.cond \in Nat /\ t.match \in Nat /\ t.brace \in Nat
      /\ t.loops \in Nat /\ t.switches \in Nat /\ t.marks \in Nat
  BY <1>0, <1>2, <1>8, AtType
<1>10. /\ \A i \in 1..u.cond : cond'[i] = cond[i]
       /\ \A i \in 1..u.match : match'[i] = match[i]
       /\ \A i \in 1..u.brace : brace'[i] = brace[i]
       /\ \A i \in 1..u.loops : loops'[i] = loops[i]
       /\ \A i \in 1..u.switches : switches'[i] = switches[i]
       /\ \A i \in 1..u.marks : marks'[i] = marks[i]
  <2>1. /\ \A i \in 1..t.cond : cond'[i] = cond[i]
        /\ \A i \in 1..t.match : match'[i] = match[i]
        /\ \A i \in 1..t.brace : brace'[i] = brace[i]
        /\ \A i \in 1..t.loops : loops'[i] = loops[i]
        /\ \A i \in 1..t.switches : switches'[i] = switches[i]
        /\ \A i \in 1..t.marks : marks'[i] = marks[i]
    BY <1>8, Zenon DEF Agree, Same
  <2>2. /\ u.cond <= t.cond /\ u.match <= t.match /\ u.brace <= t.brace
        /\ u.loops <= t.loops /\ u.switches <= t.switches /\ u.marks <= t.marks
    BY <1>7, <1>8 DEF Below
  <2>3. \A m, n \in Nat : m <= n => \A i \in 1..m : i \in 1..n
    OBVIOUS
  <2>4. QED
    BY <1>7, <1>9, <2>1, <2>2, <2>3, Zenon
<1>11. StateAt(At(j + 1).cond)' <=> StateAt(At(j + 1).cond)
  <2>1. u.cond # 0 => u.cond \in 1..u.cond
    BY <1>7
  <2>2. u.cond # 0 => cond'[u.cond] = cond[u.cond]
    BY <1>10, <2>1, Zenon
  <2>3. At(j + 1)' = u
    BY <1>4, <1>6
  <2>4. QED
    BY <1>6, <2>2, <2>3, Zenon DEF StateAt
<1>12. PICK f : f = nest[j]
  OBVIOUS
<1>13. /\ f.at.cond \in Nat /\ f.at.match \in Nat /\ f.at.brace \in Nat
       /\ f.at.loops \in Nat /\ f.at.switches \in Nat /\ f.at.marks \in Nat
  BY <1>2, <1>12 DEF Frames
<1>14. \A m \in Nat : m + 1 \in 1..(m + 1) /\ m + 1 \in 1..(m + 2) /\ m + 2 \in 1..(m + 2)
  OBVIOUS
<1>15. ASSUME f.kind = "if" PROVE IfOwn(j)'
  <2>1. IfOwn(j)
    BY <1>3, <1>12, <1>15 DEF Own
  <2>2. u.cond = f.at.cond + 1 /\ u.match = f.at.match + 1 /\ u.brace = f.at.brace + 1
    BY <1>6, <1>12, <2>1 DEF IfOwn, Grown
  <2>3. f.at.cond + 1 \in 1..u.cond /\ f.at.match + 1 \in 1..u.match /\ f.at.brace + 1 \in 1..u.brace
    BY <1>13, <1>14, <2>2, Zenon
  <2>4. /\ cond'[f.at.cond + 1] = cond[f.at.cond + 1]
        /\ match'[f.at.match + 1] = match[f.at.match + 1]
        /\ brace'[f.at.brace + 1] = brace[f.at.brace + 1]
    BY <1>10, <2>3, Zenon
  <2>5. QED
    BY <1>2, <1>4, <1>5, <1>12, <2>1, <2>4 DEF IfOwn, Grown
<1>16. ASSUME f.kind = "switch" PROVE SwitchOwn(j)'
  <2>1. SwitchOwn(j)
    BY <1>3, <1>12, <1>16 DEF Own
  <2>2. /\ u.brace = f.at.brace + 1
        /\ Outer(j) /\ f.open => u.cond = f.at.cond + 2
        /\ ~(Outer(j) /\ f.open) => u.cond = f.at.cond + 1
        /\ Outer(j) => u.switches = f.at.switches + 1
    BY <1>6, <1>12, <2>1 DEF SwitchOwn, Grown
  <2>3. /\ f.at.cond + 1 \in 1..u.cond /\ f.at.brace + 1 \in 1..u.brace
        /\ Outer(j) /\ f.open => f.at.cond + 2 \in 1..u.cond
        /\ Outer(j) => f.at.switches + 1 \in 1..u.switches
    BY <1>13, <1>14, <2>2, Zenon
  <2>4. /\ cond'[f.at.cond + 1] = cond[f.at.cond + 1]
        /\ brace'[f.at.brace + 1] = brace[f.at.brace + 1]
        /\ Outer(j) /\ f.open => cond'[f.at.cond + 2] = cond[f.at.cond + 2]
        /\ Outer(j) => switches'[f.at.switches + 1] = switches[f.at.switches + 1]
    BY <1>10, <2>3, Zenon
  <2>5. QED
    BY <1>2, <1>4, <1>5, <1>12, <2>1, <2>4 DEF SwitchOwn, Grown
<1>17. ASSUME f.kind = "while" PROVE WhileOwn(j)'
  <2>1. WhileOwn(j)
    BY <1>3, <1>12, <1>17 DEF Own
  <2>2. /\ u.cond = f.at.cond + 1 /\ u.brace = f.at.brace + 1
        /\ f.live => u.loops = f.at.loops + 1
    BY <1>6, <1>12, <2>1 DEF WhileOwn, Grown
  <2>3. /\ f.at.cond + 1 \in 1..u.cond /\ f.at.brace + 1 \in 1..u.brace
        /\ f.live => f.at.loops + 1 \in 1..u.loops
    BY <1>13, <1>14, <2>2, Zenon
  <2>4. /\ cond'[f.at.cond + 1] = cond[f.at.cond + 1]
        /\ brace'[f.at.brace + 1] = brace[f.at.brace + 1]
        /\ f.live => loops'[f.at.loops + 1] = loops[f.at.loops + 1]
    BY <1>10, <2>3, Zenon
  <2>5. QED
    BY <1>2, <1>4, <1>5, <1>12, <2>1, <2>4 DEF WhileOwn, Grown
<1>18. ASSUME f.kind = "func" PROVE FuncOwn(j)'
  <2>1. FuncOwn(j)
    BY <1>3, <1>12, <1>18 DEF Own
  <2>2. u.cond = f.at.cond + 1
    BY <1>6, <1>12, <2>1 DEF FuncOwn, Grown
  <2>3. f.at.cond + 1 \in 1..u.cond
    BY <1>13, <1>14, <2>2, Zenon
  <2>4. /\ cond'[f.at.cond + 1] = cond[f.at.cond + 1]
    BY <1>10, <2>3, Zenon
  <2>5. QED
    BY <1>2, <1>4, <1>5, <1>12, <2>1, <2>4 DEF FuncOwn, Grown
<1>19. ASSUME f.kind = "call" PROVE CallOwn(j)'
  <2>1. CallOwn(j)
    BY <1>3, <1>12, <1>19 DEF Own
  <2>2. u.marks = f.at.marks + 1
    BY <1>6, <1>12, <2>1 DEF CallOwn, Grown
  <2>3. f.at.marks + 1 \in 1..u.marks
    BY <1>13, <1>14, <2>2, Zenon
  <2>4. /\ marks'[f.at.marks + 1] = marks[f.at.marks + 1]
    BY <1>10, <2>3, Zenon
  <2>5. QED
    BY <1>2, <1>4, <1>5, <1>12, <2>1, <2>4 DEF CallOwn, Grown
<1>20. QED
  BY <1>2, <1>3, <1>5, <1>11, <1>12, <1>15, <1>16, <1>17, <1>18, <1>19 DEF Own

(* A construct was opened: those around it keep what is theirs, and the    *)
(* new one stands on everything there is.                                  *)
LEMMA EnterKeeps ==
  ASSUME PlainInv, CodeOK', NestOK', NEW n \in Nat, n = Len(nest),
         NEW f \in Frames, f.at = Heights, nest' = Append(nest, f), InBody, Agree(Heights)
  PROVE  /\ Len(nest') = n + 1
         /\ nest'[n + 1] = f
         /\ \A j \in 1..n : Own(j)'
         /\ Stacked' /\ OpenBelow'
         /\ Outer(n + 1)' <=> Live
         /\ At(n + 2)' = Heights'
<1>0. CodeOK /\ NestOK /\ OpenBelow /\ Stacked
  BY DEF PlainInv, TypeOK, CodeOK, NestOK
<1>1. /\ n \in Nat /\ Len(nest') = n + 1 /\ nest'[n + 1] = f
      /\ \A i \in 1..n : nest'[i] = nest[i]
  BY <1>0, PushStack DEF NestOK
<1>2. \A i \in 1..(n + 1) : At(i)' = At(i)
  BY <1>1 DEF At
<1>3. At(n + 2)' = Heights'
  BY <1>1 DEF At
<1>4. At(n + 1) = Heights
  BY <1>1 DEF At
<1>5. \A j \in 1..n : Own(j)'
  BY <1>0, <1>1, <1>2, <1>4, OwnKept
<1>6. Below(Heights, Heights')
  BY <1>0, HeightsType DEF Agree, Same, Below, Heights
<1>7. Stacked'
  <2>1. At(1)'.cond = 0
    BY <1>0, <1>1, <1>2 DEF Stacked
  <2>2. ASSUME NEW i \in 1..(n + 2), NEW j \in 1..(n + 2), i <= j
        PROVE  Below(At(i)', At(j)')
    <3>1. CASE j <= n + 1
      BY <1>0, <1>1, <1>2, <2>2, <3>1 DEF Stacked
    <3>2. CASE j = n + 2 /\ i <= n + 1
      <4>1. i \in 1..(n + 1) /\ n + 1 \in 1..(n + 1)
        BY <1>1, <3>2
      <4>2. Below(At(i), Heights)
        BY <1>0, <1>4, <3>2, <4>1 DEF Stacked
      <4>3. /\ At(i).cond \in Nat /\ At(i).match \in Nat /\ At(i).brace \in Nat
            /\ At(i).loops \in Nat /\ At(i).switches \in Nat /\ At(i).marks \in Nat
        BY <1>0, <4>1, AtType
      <4>4. Below(At(i), Heights')
        BY <1>0, <1>6, <4>2, <4>3, HeightsType, HeightsTypeNext, BelowTrans
      <4>5. QED
        BY <1>2, <1>3, <3>2, <4>1, <4>4
    <3>3. CASE j = n + 2 /\ i = n + 2
      BY <1>3, <3>3, HeightsTypeNext DEF Below
    <3>4. QED
      BY <1>1, <2>2, <3>1, <3>2, <3>3
  <2>3. QED
    BY <1>1, <2>1, <2>2 DEF Stacked
<1>8. OpenBelow'
  <2>1. \A i \in 1..n : nest[i].open
    BY <1>0, InBodyOpen
  <2>2. QED
    BY <1>1, <2>1 DEF OpenBelow
<1>9. Outer(n + 1)' <=> Live
  <2>1. CASE n = 0
    <3>1. nest = <<>>
      BY <1>0, <2>1, EmptySeq DEF NestOK
    <3>2. n + 1 = 1
      BY <2>1
    <3>3. QED
      BY <3>1, <3>2, Zenon DEF Outer, Live
  <2>2. CASE n # 0
    <3>1. nest # <<>> /\ n \in 1..n /\ Last(nest) = nest[n]
      BY <1>0, <1>1, <2>2, TopOfStack, EmptySeq DEF NestOK
    <3>2. nest'[n] = nest[n] /\ n + 1 # 1 /\ (n + 1) - 1 = n
      BY <1>1, <2>2, <3>1
    <3>3. Outer(n + 1)' <=> nest[n].live
      BY <3>2, Zenon DEF Outer
    <3>4. QED
      BY <3>1, <3>3, Zenon DEF Live, Top
  <2>3. QED
    BY <2>1, <2>2
<1>10. QED
  BY <1>1, <1>3, <1>5, <1>7, <1>8, <1>9

(* The innermost construct has changed, or a bit of its own: those around  *)
(* it keep what is theirs.                                                 *)
LEMMA SetTopKeeps ==
  ASSUME PlainInv, CodeOK', NestOK', nest # <<>>, NEW n \in Nat \ {0}, n = Len(nest),
         NEW f \in Frames, SetTop(f), f.at = Top.at, Agree(Top.at)
  PROVE  /\ Len(nest') = n /\ nest'[n] = f
         /\ \A j \in 1..n : j < n => Own(j)'
         /\ Outer(n)' <=> Outer(n)
         /\ At(n + 1)' = Heights'
         /\ OpenBelow'
         /\ Below(Top.at, Heights') => Stacked'
<1>0. CodeOK /\ NestOK /\ OpenBelow /\ Stacked
  BY DEF PlainInv, TypeOK, CodeOK, NestOK
<1>1. Top = nest[n]
  BY <1>0, TopOfStack DEF NestOK, Top
<1>2. /\ Len(nest') = n /\ nest'[n] = f /\ Last(nest') = f
      /\ \A i \in 1..(n - 1) : nest'[i] = nest[i]
  <2>1. /\ Len(nest') = Len(nest) /\ Last(nest') = f
        /\ \A i \in 1..(Len(nest) - 1) : nest'[i] = nest[i]
    BY <1>0, ReplaceTop DEF NestOK, SetTop
  <2>2. Last(nest') = nest'[Len(nest')]
    BY DEF Last
  <2>3. QED
    BY <2>1, <2>2
<1>3. \A i \in 1..n : At(i)' = At(i)
  <2>1. ASSUME NEW i \in 1..n PROVE At(i)' = At(i)
    <3>1. CASE i = n
      BY <1>1, <1>2, <3>1 DEF At
    <3>2. CASE i # n
      <4>1. nest'[i] = nest[i]
        BY <1>2, <3>2
      <4>2. QED
        BY <1>2, <4>1 DEF At
    <3>3. QED
      BY <3>1, <3>2
  <2>2. QED
    BY <2>1
<1>4. At(n) = Top.at
  BY <1>1 DEF At
<1>5. At(n + 1)' = Heights'
  BY <1>2 DEF At
<1>6. \A j \in 1..n : j < n => Own(j)'
  <2> DEFINE k == n - 1
  <2>1. k \in 0..Len(nest) /\ k <= Len(nest') /\ (\A i \in 1..k : nest'[i] = nest[i]) /\ k + 1 = n
    BY <1>2
  <2>2. Agree(At(k + 1)) /\ At(k + 1)' = At(k + 1)
    BY <1>3, <1>4, <2>1
  <2> HIDE DEF k
  <2>3. \A j \in 1..k : Own(j)'
    BY <1>0, <2>1, <2>2, OwnKept
  <2>4. QED
    BY <2>1, <2>3
<1>7. OpenBelow'
  <2>1. \A i \in 1..n : i < n => nest'[i].open
    BY <1>0, <1>2 DEF OpenBelow
  <2>2. QED
    BY <1>2, <2>1 DEF OpenBelow
<1>8. Outer(n)' <=> Outer(n)
  <2>1. CASE n = 1
    BY <2>1, Zenon DEF Outer
  <2>2. CASE n # 1
    <3>1. nest'[n - 1] = nest[n - 1]
      BY <1>2, <2>2
    <3>2. QED
      BY <2>2, <3>1, Zenon DEF Outer
  <2>3. QED
    BY <2>1, <2>2
<1>9. ASSUME Below(Top.at, Heights') PROVE Stacked'
  <2>1. At(1)'.cond = 0
    BY <1>0, <1>3 DEF Stacked
  <2>2. ASSUME NEW i \in 1..(n + 1), NEW j \in 1..(n + 1), i <= j
        PROVE  Below(At(i)', At(j)')
    <3>1. CASE j <= n
      BY <1>0, <1>3, <2>2, <3>1 DEF Stacked
    <3>2. CASE j = n + 1 /\ i <= n
      <4>1. i \in 1..n /\ i \in 1..(Len(nest) + 1) /\ n \in 1..n /\ n \in 1..(Len(nest) + 1)
        BY <3>2
      <4>2. Below(At(i), At(n))
        BY <1>0, <3>2, <4>1 DEF Stacked
      <4>3. /\ At(i).cond \in Nat /\ At(i).match \in Nat /\ At(i).brace \in Nat
            /\ At(i).loops \in Nat /\ At(i).switches \in Nat /\ At(i).marks \in Nat
            /\ At(n).cond \in Nat /\ At(n).match \in Nat /\ At(n).brace \in Nat
            /\ At(n).loops \in Nat /\ At(n).switches \in Nat /\ At(n).marks \in Nat
        BY <1>0, <4>1, AtType
      <4>4. Below(At(i), Heights')
        BY <1>4, <1>9, <4>2, <4>3, HeightsTypeNext, BelowTrans
      <4>5. QED
        BY <1>3, <1>5, <3>2, <4>1, <4>4
    <3>3. CASE j = n + 1 /\ i = n + 1
      BY <1>5, <3>3, HeightsTypeNext DEF Below
    <3>4. QED
      BY <2>2, <3>1, <3>2, <3>3
  <2>3. QED
    BY <1>2, <2>1, <2>2 DEF Stacked
<1>10. QED
  BY <1>2, <1>5, <1>6, <1>7, <1>8, <1>9

(* The innermost construct was left: every stack is as high as it was      *)
(* before it, and nothing below has changed.                               *)
LEMMA LeaveKeeps ==
  ASSUME PlainInv, TypeOK', nest # <<>>, nest' = SubSeq(nest, 1, Len(nest) - 1), err' = "none",
         Heights' = Top.at, Agree(Top.at)
  PROVE  PlainInv'
<1>0. CodeOK /\ NestOK /\ OpenBelow /\ Stacked /\ CodeOK' /\ NestOK'
  BY DEF PlainInv, TypeOK, CodeOK, NestOK
<1>1. PICK n \in Nat \ {0} : n = Len(nest)
  BY <1>0, TopOfStack DEF NestOK
<1>2. PICK k \in Nat : k = n - 1
  BY SMT
<1>3. Top = nest[n]
  BY <1>0, <1>1, TopOfStack DEF NestOK, Top
<1>4. Len(nest') = k /\ \A i \in 1..k : nest'[i] = nest[i]
  BY <1>0, <1>1, <1>2, CutStack DEF NestOK
<1>5. \A i \in 1..(k + 1) : At(i)' = At(i)
  <2>1. ASSUME NEW i \in 1..(k + 1) PROVE At(i)' = At(i)
    <3>1. CASE i = k + 1
      BY <1>1, <1>2, <1>3, <1>4, <3>1 DEF At
    <3>2. CASE i # k + 1
      <4>1. nest'[i] = nest[i]
        BY <1>4, <3>2
      <4>2. QED
        BY <1>1, <1>2, <1>4, <3>2, <4>1 DEF At
    <3>3. QED
      BY <3>1, <3>2
  <2>2. QED
    BY <2>1
<1>6. \A j \in 1..k : Own(j)'
  <2>1. At(k + 1) = Top.at
    BY <1>1, <1>2, <1>3 DEF At
  <2>2. k \in 0..Len(nest) /\ k <= Len(nest') /\ k + 1 \in 1..(k + 1)
    BY <1>1, <1>2, <1>4
  <2>3. QED
    BY <1>0, <1>4, <1>5, <2>1, <2>2, OwnKept
<1>7. OpenBelow'
  BY <1>0, <1>1, <1>2, <1>4 DEF OpenBelow
<1>8. Stacked'
  BY <1>0, <1>1, <1>2, <1>4, <1>5 DEF Stacked
<1>9. QED
  BY <1>4, <1>6, <1>7, <1>8 DEF PlainInv, NoErrorReported

(* What is known of the innermost construct.                               *)
LEMMA TopOwn ==
  ASSUME PlainInv, nest # <<>>, NEW n \in Nat \ {0}, n = Len(nest)
  PROVE  /\ Top = nest[n] /\ Top \in Frames /\ Own(n) /\ At(n + 1) = Heights
         /\ Outer(n) <=> OuterLive
         /\ Live <=> Top.live
         /\ State <=> Top.live
         /\ Top.live => OuterLive
         /\ Top.at.cond \in Nat /\ Top.at.match \in Nat /\ Top.at.brace \in Nat
         /\ Top.at.loops \in Nat /\ Top.at.switches \in Nat /\ Top.at.marks \in Nat
<1>0. CodeOK /\ NestOK
  BY DEF PlainInv, TypeOK, CodeOK, NestOK
<1>1. Top = nest[n] /\ Top \in Frames
  BY <1>0, TopOfStack DEF NestOK, Top
<1>2. n \in 1..Len(nest) /\ ~(n < 1)
  OBVIOUS
<1>3. Own(n)
  BY <1>2 DEF PlainInv
<1>4. At(n + 1) = Heights
  BY DEF At
<1>5. Outer(n) <=> OuterLive
  <2>1. CASE n = 1
    <3>1. Len(nest) < 2
      BY <2>1
    <3>2. QED
      BY <2>1, <3>1, Zenon DEF Outer, OuterLive
  <2>2. CASE n # 1
    <3>1. ~(Len(nest) < 2)
      BY <2>2
    <3>2. QED
      BY <2>2, <3>1, Zenon DEF Outer, OuterLive
  <2>3. QED
    BY <2>1, <2>2
<1>6. Live <=> Top.live
  BY Zenon DEF Live
<1>7. StateAt(Len(cond)) <=> Top.live
  BY <1>0, <1>1, <1>3, <1>4, HeightsType DEF Own
<1>8. State <=> StateAt(Len(cond))
  <2>1. CASE cond = <<>>
    <3>1. Len(cond) = 0
      BY <2>1, EmptySeq
    <3>2. QED
      BY <2>1, <3>1, Zenon DEF State, StateAt
  <2>2. CASE cond # <<>>
    <3>1. Len(cond) # 0 /\ Last(cond) = cond[Len(cond)]
      BY <1>0, <2>2, TopOfStack DEF CodeOK
    <3>2. QED
      BY <2>2, <3>1, Zenon DEF State, StateAt
  <2>3. QED
    BY <2>1, <2>2
<1>9. Top.live => OuterLive
  BY <1>1, <1>3, <1>5 DEF Own
<1>10. QED
  BY <1>1, <1>3, <1>4, <1>5, <1>6, <1>7, <1>8, <1>9 DEF Frames

(* GetCurrentState is the liveness of the innermost construct.             *)
LEMMA StateLive ==
  ASSUME PlainInv
  PROVE  State = Live
<1>0. CodeOK /\ NestOK
  BY DEF PlainInv, TypeOK, CodeOK, NestOK
<1>1. CASE nest = <<>>
  <2>1. Len(nest) = 0
    BY <1>1, EmptySeq
  <2>2. Len(cond) = 0
    BY <1>0, <2>1, HeightsType DEF PlainInv, Stacked, At
  <2>3. cond = <<>>
    BY <1>0, <2>2, EmptySeq DEF CodeOK
  <2>4. QED
    BY <1>1, <2>3, Zenon DEF State, Live
<1>2. CASE nest # <<>>
  <2>1. PICK n \in Nat \ {0} : n = Len(nest)
    BY <1>0, <1>2, TopOfStack DEF NestOK
  <2>2. State <=> Live
    BY <1>2, <2>1, TopOwn
  <2>3. State \in BOOLEAN /\ Live \in BOOLEAN
    BY <1>0, ReadType, TopType
  <2>4. QED
    BY <2>2, <2>3
<1>3. QED
  BY <1>1, <1>2

(* The entry on top of a stack that has grown.                             *)
LEMMA TopEntry ==
  ASSUME NEW S, NEW s \in Seq(S), NEW h \in Nat, Len(s) = h + 1
  PROVE  s # <<>> /\ Last(s) = s[h + 1] /\ Last(s) \in S
BY EmptySeq, TopOfStack DEF Last

(* An open if has the top of three stacks.                                 *)
LEMMA TopIf ==
  ASSUME PlainInv, nest # <<>>, Top.kind = "if"
  PROVE  /\ Len(cond) = Top.at.cond + 1 /\ Len(match) = Top.at.match + 1
         /\ Len(brace) = Top.at.brace + 1 /\ Len(loops) = Top.at.loops
         /\ Len(switches) = Top.at.switches /\ Len(marks) = Top.at.marks
         /\ cond # <<>> /\ match # <<>> /\ brace # <<>>
         /\ Last(cond).active = IF ~OuterLive THEN 0 ELSE IF Top.last THEN -1 ELSE 1
         /\ OuterLive /\ ~Top.last => (Last(match) <=> Top.done)
         /\ Last(brace) = "ENDIF"
<1>0. CodeOK /\ NestOK
  BY DEF PlainInv, TypeOK, CodeOK, NestOK
<1>1. PICK n \in Nat \ {0} : n = Len(nest)
  BY <1>0, TopOfStack DEF NestOK
<1>2. PICK f : f = Top
  OBVIOUS
<1>3. f = nest[n] /\ Own(n) /\ At(n + 1) = Heights /\ (Outer(n) <=> OuterLive)
  BY <1>1, <1>2, TopOwn
<1>4. IfOwn(n)
  BY <1>2, <1>3 DEF Own
<1>5. /\ f.at.cond \in Nat /\ f.at.match \in Nat /\ f.at.brace \in Nat
      /\ f.at.loops \in Nat /\ f.at.switches \in Nat /\ f.at.marks \in Nat
  BY <1>1, <1>2, TopOwn
<1>6. /\ Len(cond) = f.at.cond + 1 /\ Len(match) = f.at.match + 1
      /\ Len(brace) = f.at.brace + 1 /\ Len(loops) = f.at.loops
      /\ Len(switches) = f.at.switches /\ Len(marks) = f.at.marks
  <2>1. /\ At(n + 1).cond = f.at.cond + 1 /\ At(n + 1).match = f.at.match + 1
        /\ At(n + 1).brace = f.at.brace + 1 /\ At(n + 1).loops = f.at.loops + 0
        /\ At(n + 1).switches = f.at.switches + 0 /\ At(n + 1).marks = f.at.marks + 0
    BY <1>3, <1>4, Zenon DEF IfOwn, Grown
  <2>2. /\ Len(cond) = f.at.cond + 1 /\ Len(match) = f.at.match + 1 /\ Len(brace) = f.at.brace + 1
        /\ Len(loops) = f.at.loops + 0 /\ Len(switches) = f.at.switches + 0 /\ Len(marks) = f.at.marks + 0
    BY <1>0, <1>3, <2>1, HeightsType, Zenon
  <2>3. QED
    BY <1>5, <2>2
<1>7. /\ cond # <<>> /\ match # <<>> /\ brace # <<>>
      /\ Last(cond) = cond[f.at.cond + 1] /\ Last(match) = match[f.at.match + 1]
      /\ Last(brace) = brace[f.at.brace + 1]
  BY <1>0, <1>5, <1>6, TopEntry DEF CodeOK
<1>8. Last(cond).active = IF ~OuterLive THEN 0 ELSE IF f.last THEN -1 ELSE 1
  BY <1>3, <1>4, <1>7, Zenon DEF IfOwn
<1>9. OuterLive /\ ~f.last => (Last(match) <=> f.done)
  BY <1>3, <1>4, <1>7, Zenon DEF IfOwn
<1>10. Last(brace) = "ENDIF"
  BY <1>3, <1>4, <1>7, Zenon DEF IfOwn
<1>11. QED
  BY <1>2, <1>6, <1>7, <1>8, <1>9, <1>10

(* A live switch has a value on top of its stack, and between two cases    *)
(* its own entry on top of cond.                                           *)
LEMMA TopSwitch ==
  ASSUME PlainInv, nest # <<>>, Top.kind = "switch"
  PROVE  /\ Len(cond) = Top.at.cond + (IF OuterLive /\ Top.open THEN 2 ELSE 1)
         /\ Len(match) = Top.at.match /\ Len(brace) = Top.at.brace + 1
         /\ Len(loops) = Top.at.loops
         /\ Len(switches) = Top.at.switches + (IF OuterLive THEN 1 ELSE 0)
         /\ Len(marks) = Top.at.marks
         /\ cond # <<>> /\ brace # <<>> /\ Last(brace) = "ENDSWITCH"
         /\ cond[Top.at.cond + 1].active = (IF OuterLive THEN 1 ELSE -3)
         /\ cond[Top.at.cond + 1].state <=> OuterLive
         /\ Last(cond).active = IF ~OuterLive THEN -3 ELSE IF Top.open THEN -2 ELSE 1
         /\ ~Top.open => (Top.live <=> OuterLive)
         /\ OuterLive =>
              /\ switches # <<>> /\ Last(switches).val = Top.val
              /\ ~Top.open => (Last(switches).matched <=> Top.done)
              /\ Top.open => (Last(switches).matched \/ Top.live <=> Top.done)
              /\ Top.done /\ ~Top.last => Top.val \in Top.seen
<1>0. CodeOK /\ NestOK
  BY DEF PlainInv, TypeOK, CodeOK, NestOK
<1>1. PICK n \in Nat \ {0} : n = Len(nest)
  BY <1>0, TopOfStack DEF NestOK
<1>2. PICK f : f = Top
  OBVIOUS
<1>3. f = nest[n] /\ Own(n) /\ At(n + 1) = Heights /\ (Outer(n) <=> OuterLive)
  BY <1>1, <1>2, TopOwn
<1>4. SwitchOwn(n)
  BY <1>2, <1>3 DEF Own
<1>5. /\ f.at.cond \in Nat /\ f.at.match \in Nat /\ f.at.brace \in Nat
      /\ f.at.loops \in Nat /\ f.at.switches \in Nat /\ f.at.marks \in Nat
  BY <1>1, <1>2, TopOwn
<1>6. /\ Len(cond) = f.at.cond + (IF OuterLive /\ f.open THEN 2 ELSE 1)
      /\ Len(match) = f.at.match /\ Len(brace) = f.at.brace + 1
      /\ Len(loops) = f.at.loops /\ Len(switches) = f.at.switches + (IF OuterLive THEN 1 ELSE 0)
      /\ Len(marks) = f.at.marks
  <2>1. /\ At(n + 1).cond = f.at.cond + (IF OuterLive /\ f.open THEN 2 ELSE 1)
        /\ At(n + 1).match = f.at.match + 0
        /\ At(n + 1).brace = f.at.brace + 1 /\ At(n + 1).loops = f.at.loops + 0
        /\ At(n + 1).switches = f.at.switches + (IF OuterLive THEN 1 ELSE 0)
        /\ At(n + 1).marks = f.at.marks + 0
    BY <1>3, <1>4, Zenon DEF SwitchOwn, Grown
  <2>2. /\ Len(cond) = f.at.cond + (IF OuterLive /\ f.open THEN 2 ELSE 1)
        /\ Len(match) = f.at.match + 0 /\ Len(brace) = f.at.brace + 1 /\ Len(loops) = f.at.loops + 0
        /\ Len(switches) = f.at.switches + (IF OuterLive THEN 1 ELSE 0) /\ Len(marks) = f.at.marks + 0
    BY <1>0, <1>3, <2>1, HeightsType, Zenon
  <2>3. QED
    BY <1>5, <2>2
<1>7. brace # <<>> /\ Last(brace) = "ENDSWITCH"
  <2>1. brace # <<>> /\ Last(brace) = brace[f.at.brace + 1]
    BY <1>0, <1>5, <1>6, TopEntry DEF CodeOK
  <2>2. QED
    BY <1>3, <1>4, <2>1, Zenon DEF SwitchOwn
<1>8. /\ cond[f.at.cond + 1].active = (IF OuterLive THEN 1 ELSE -3)
      /\ cond[f.at.cond + 1].state <=> OuterLive
      /\ ~f.open => (f.live <=> OuterLive)
  BY <1>3, <1>4, Zenon DEF SwitchOwn
<1>9. cond # <<>> /\ Last(cond).active = IF ~OuterLive THEN -3 ELSE IF f.open THEN -2 ELSE 1
  <2>1. CASE OuterLive /\ f.open
    <3>1. f.at.cond + 1 \in Nat /\ Len(cond) = (f.at.cond + 1) + 1 /\ (f.at.cond + 1) + 1 = f.at.cond + 2
      BY <1>5, <1>6, <2>1
    <3>2. cond # <<>> /\ Last(cond) = cond[f.at.cond + 2]
      BY <1>0, <3>1, TopEntry DEF CodeOK
    <3>3. QED
      BY <1>3, <1>4, <2>1, <3>2, Zenon DEF SwitchOwn
  <2>2. CASE ~(OuterLive /\ f.open)
    <3>1. cond # <<>> /\ Last(cond) = cond[f.at.cond + 1]
      BY <1>0, <1>5, <1>6, <2>2, TopEntry DEF CodeOK
    <3>2. QED
      BY <1>8, <2>2, <3>1, Zenon
  <2>3. QED
    BY <2>1, <2>2
<1>10. ASSUME OuterLive
       PROVE  /\ switches # <<>> /\ Last(switches).val = f.val
              /\ ~f.open => (Last(switches).matched <=> f.done)
              /\ f.open => (Last(switches).matched \/ f.live <=> f.done)
              /\ f.done /\ ~f.last => f.val \in f.seen
  <2>1. switches # <<>> /\ Last(switches) = switches[f.at.switches + 1]
    BY <1>0, <1>5, <1>6, <1>10, TopEntry DEF CodeOK
  <2>2. QED
    BY <1>3, <1>4, <1>10, <2>1, Zenon DEF SwitchOwn
<1>11. QED
  BY <1>2, <1>6, <1>7, <1>8, <1>9, <1>10

(* So has a loop, and, while it is live, the top of the loop stack.        *)
LEMMA TopWhile ==
  ASSUME PlainInv, nest # <<>>, Top.kind = "while"
  PROVE  /\ Len(cond) = Top.at.cond + 1 /\ Len(match) = Top.at.match
         /\ Len(brace) = Top.at.brace + 1
         /\ Len(loops) = Top.at.loops + (IF Top.live THEN 1 ELSE 0)
         /\ Len(switches) = Top.at.switches /\ Len(marks) = Top.at.marks
         /\ cond # <<>> /\ brace # <<>> /\ Last(brace) = "ENDWHILE"
         /\ Last(cond).active = -4
         /\ Top.live => loops # <<>> /\ Last(loops) = Len(nest)
         /\ ~Top.open => Top.live
<1>0. CodeOK /\ NestOK
  BY DEF PlainInv, TypeOK, CodeOK, NestOK
<1>1. PICK n \in Nat \ {0} : n = Len(nest)
  BY <1>0, TopOfStack DEF NestOK
<1>2. PICK f : f = Top
  OBVIOUS
<1>3. f = nest[n] /\ Own(n) /\ At(n + 1) = Heights /\ (Outer(n) <=> OuterLive)
  BY <1>1, <1>2, TopOwn
<1>4. WhileOwn(n)
  BY <1>2, <1>3 DEF Own
<1>5. /\ f.at.cond \in Nat /\ f.at.match \in Nat /\ f.at.brace \in Nat
      /\ f.at.loops \in Nat /\ f.at.switches \in Nat /\ f.at.marks \in Nat
  BY <1>1, <1>2, TopOwn
<1>6. /\ Len(cond) = f.at.cond + 1 /\ Len(match) = f.at.match + 0 /\ Len(brace) = f.at.brace + 1
      /\ Len(loops) = f.at.loops + (IF f.live THEN 1 ELSE 0)
      /\ Len(switches) = f.at.switches + 0 /\ Len(marks) = f.at.marks + 0
  <2>1. /\ At(n + 1).cond = f.at.cond + 1
        /\ At(n + 1).match = f.at.match + 0
        /\ At(n + 1).brace = f.at.brace + 1
        /\ At(n + 1).loops = f.at.loops + (IF f.live THEN 1 ELSE 0)
        /\ At(n + 1).switches = f.at.switches + 0
        /\ At(n + 1).marks = f.at.marks + 0
    BY <1>3, <1>4, Zenon DEF WhileOwn, Grown
  <2>2. QED
    BY <1>0, <1>3, <2>1, HeightsType, Zenon
<1>7. /\ cond # <<>> /\ brace # <<>>
      /\ Last(cond) = cond[f.at.cond + 1] /\ Last(brace) = brace[f.at.brace + 1]
  BY <1>0, <1>5, <1>6, TopEntry DEF CodeOK
<1>8. Last(cond).active = -4 /\ Last(brace) = "ENDWHILE" /\ (~f.open => f.live)
  BY <1>3, <1>4, <1>7, Zenon DEF WhileOwn
<1>9. ASSUME f.live PROVE loops # <<>> /\ Last(loops) = Len(nest)
  <2>1. loops # <<>> /\ Last(loops) = loops[f.at.loops + 1]
    BY <1>0, <1>5, <1>6, <1>9, TopEntry DEF CodeOK
  <2>2. QED
    BY <1>1, <1>3, <1>4, <1>9, <2>1, Zenon DEF WhileOwn
<1>10. /\ Len(match) = f.at.match /\ Len(switches) = f.at.switches /\ Len(marks) = f.at.marks
  BY <1>5, <1>6
<1>11. QED
  BY <1>2, <1>6, <1>7, <1>8, <1>9, <1>10

(* A function body has the top of cond alone.                              *)
LEMMA TopFunc ==
  ASSUME PlainInv, nest # <<>>, Top.kind = "func"
  PROVE  /\ Len(cond) = Top.at.cond + 1 /\ Len(match) = Top.at.match
         /\ Len(brace) = Top.at.brace /\ Len(loops) = Top.at.loops
         /\ Len(switches) = Top.at.switches /\ Len(marks) = Top.at.marks
         /\ cond # <<>> /\ Last(cond).active = -6
<1>0. CodeOK /\ NestOK
  BY DEF PlainInv, TypeOK, CodeOK, NestOK
<1>1. PICK n \in Nat \ {0} : n = Len(nest)
  BY <1>0, TopOfStack DEF NestOK
<1>2. PICK f : f = Top
  OBVIOUS
<1>3. f = nest[n] /\ Own(n) /\ At(n + 1) = Heights /\ (Outer(n) <=> OuterLive)
  BY <1>1, <1>2, TopOwn
<1>4. FuncOwn(n)
  BY <1>2, <1>3 DEF Own
<1>5. /\ f.at.cond \in Nat /\ f.at.match \in Nat /\ f.at.brace \in Nat
      /\ f.at.loops \in Nat /\ f.at.switches \in Nat /\ f.at.marks \in Nat
  BY <1>1, <1>2, TopOwn
<1>6. /\ Len(cond) = f.at.cond + 1 /\ Len(match) = f.at.match + 0 /\ Len(brace) = f.at.brace + 0
      /\ Len(loops) = f.at.loops + 0
      /\ Len(switches) = f.at.switches + 0 /\ Len(marks) = f.at.marks + 0
  <2>1. /\ At(n + 1).cond = f.at.cond + 1
        /\ At(n + 1).match = f.at.match + 0
        /\ At(n + 1).brace = f.at.brace + 0
        /\ At(n + 1).loops = f.at.loops + 0
        /\ At(n + 1).switches = f.at.switches + 0
        /\ At(n + 1).marks = f.at.marks + 0
    BY <1>3, <1>4, Zenon DEF FuncOwn, Grown
  <2>2. QED
    BY <1>0, <1>3, <2>1, HeightsType, Zenon
<1>7. cond # <<>> /\ Last(cond) = cond[f.at.cond + 1]
  BY <1>0, <1>5, <1>6, TopEntry DEF CodeOK
<1>8. Last(cond).active = -6
  BY <1>3, <1>4, <1>7, Zenon DEF FuncOwn
<1>9. /\ Len(match) = f.at.match /\ Len(brace) = f.at.brace /\ Len(loops) = f.at.loops
      /\ Len(switches) = f.at.switches /\ Len(marks) = f.at.marks
  BY <1>5, <1>6
<1>10. QED
  BY <1>2, <1>6, <1>7, <1>8, <1>9

(* A call has its marks, which are the heights of the stacks it unwinds.   *)
LEMMA TopCall ==
  ASSUME PlainInv, nest # <<>>, Top.kind = "call"
  PROVE  /\ Len(cond) = Top.at.cond /\ Len(match) = Top.at.match
         /\ Len(brace) = Top.at.brace /\ Len(loops) = Top.at.loops
         /\ Len(switches) = Top.at.switches /\ Len(marks) = Top.at.marks + 1
         /\ marks # <<>> /\ Last(marks).cond = Len(cond) /\ Last(marks).match = Len(match)
<1>0. CodeOK /\ NestOK
  BY DEF PlainInv, TypeOK, CodeOK, NestOK
<1>1. PICK n \in Nat \ {0} : n = Len(nest)
  BY <1>0, TopOfStack DEF NestOK
<1>2. PICK f : f = Top
  OBVIOUS
<1>3. f = nest[n] /\ Own(n) /\ At(n + 1) = Heights /\ (Outer(n) <=> OuterLive)
  BY <1>1, <1>2, TopOwn
<1>4. CallOwn(n)
  BY <1>2, <1>3 DEF Own
<1>5. /\ f.at.cond \in Nat /\ f.at.match \in Nat /\ f.at.brace \in Nat
      /\ f.at.loops \in Nat /\ f.at.switches \in Nat /\ f.at.marks \in Nat
  BY <1>1, <1>2, TopOwn
<1>6. /\ Len(cond) = f.at.cond + 0 /\ Len(match) = f.at.match + 0 /\ Len(brace) = f.at.brace + 0
      /\ Len(loops) = f.at.loops + 0
      /\ Len(switches) = f.at.switches + 0 /\ Len(marks) = f.at.marks + 1
  <2>1. /\ At(n + 1).cond = f.at.cond + 0
        /\ At(n + 1).match = f.at.match + 0
        /\ At(n + 1).brace = f.at.brace + 0
        /\ At(n + 1).loops = f.at.loops + 0
        /\ At(n + 1).switches = f.at.switches + 0
        /\ At(n + 1).marks = f.at.marks + 1
    BY <1>3, <1>4, Zenon DEF CallOwn, Grown
  <2>2. QED
    BY <1>0, <1>3, <2>1, HeightsType, Zenon
<1>7. marks # <<>> /\ Last(marks) = marks[f.at.marks + 1]
  BY <1>0, <1>5, <1>6, TopEntry DEF CodeOK
<1>8. Last(marks).cond = f.at.cond /\ Last(marks).match = f.at.match
  BY <1>3, <1>4, <1>7, Zenon DEF CallOwn
<1>9. /\ Len(cond) = f.at.cond /\ Len(match) = f.at.match
      /\ Len(brace) = f.at.brace /\ Len(loops) = f.at.loops /\ Len(switches) = f.at.switches
  BY <1>5, <1>6
<1>10. QED
  BY <1>2, <1>6, <1>7, <1>8, <1>9

(* An if has what is its own when it has the tops of its three stacks.     *)
LEMMA OwnIf ==
  ASSUME CodeOK', NEW n \in Nat \ {0}, NEW f \in Frames, nest'[n] = f, f.kind = "if",
         At(n + 1)' = Heights', f.live => Outer(n)', Last(cond').state <=> f.live, cond' # <<>>,
         Len(cond') = f.at.cond + 1, Len(match') = f.at.match + 1,
         Len(brace') = f.at.brace + 1, Len(loops') = f.at.loops,
         Len(switches') = f.at.switches, Len(marks') = f.at.marks,
         Last(cond').active = IF ~Outer(n)' THEN 0 ELSE IF f.last THEN -1 ELSE 1,
         Outer(n)' /\ ~f.last => (Last(match') <=> f.done),
         Last(brace') = "ENDIF"
  PROVE  Own(n)'
<1>1. /\ f.at.cond \in Nat /\ f.at.match \in Nat /\ f.at.brace \in Nat
      /\ f.at.loops \in Nat /\ f.at.switches \in Nat /\ f.at.marks \in Nat
  BY DEF Frames
<1>2. /\ At(n + 1)'.cond = f.at.cond + 1 /\ At(n + 1)'.match = f.at.match + 1
      /\ At(n + 1)'.brace = f.at.brace + 1 /\ At(n + 1)'.loops = f.at.loops + 0
      /\ At(n + 1)'.switches = f.at.switches + 0 /\ At(n + 1)'.marks = f.at.marks + 0
  <2>1. /\ At(n + 1)'.cond = Len(cond') /\ At(n + 1)'.match = Len(match')
        /\ At(n + 1)'.brace = Len(brace') /\ At(n + 1)'.loops = Len(loops')
        /\ At(n + 1)'.switches = Len(switches') /\ At(n + 1)'.marks = Len(marks')
    BY HeightsTypeNext
  <2>2. QED
    BY <1>1, <2>1
<1>3. StateAt(At(n + 1).cond)' <=> f.live
  <2>1. At(n + 1)'.cond = Len(cond')
    BY HeightsTypeNext
  <2>2. Len(cond') # 0 /\ cond'[Len(cond')] = Last(cond')
    BY TopOfStack DEF CodeOK
  <2>3. QED
    BY <2>1, <2>2, Zenon DEF StateAt
<1>4. /\ Last(cond') = cond'[f.at.cond + 1] /\ Last(match') = match'[f.at.match + 1]
      /\ Last(brace') = brace'[f.at.brace + 1]
  BY DEF Last
<1>5. IfOwn(n)'
  BY <1>2, <1>4, Zenon DEF IfOwn, Grown
<1>6. QED
  BY <1>3, <1>5 DEF Own

(* So has a switch, with the entry of its case.                            *)
LEMMA OwnSwitch ==
  ASSUME CodeOK', NEW n \in Nat \ {0}, NEW f \in Frames, nest'[n] = f, f.kind = "switch",
         At(n + 1)' = Heights', f.live => Outer(n)', Last(cond').state <=> f.live, cond' # <<>>,
         Len(cond') = f.at.cond + (IF Outer(n)' /\ f.open THEN 2 ELSE 1), Len(match') = f.at.match,
         Len(brace') = f.at.brace + 1, Len(loops') = f.at.loops,
         Len(switches') = f.at.switches + (IF Outer(n)' THEN 1 ELSE 0), Len(marks') = f.at.marks,
         cond'[f.at.cond + 1].active = (IF Outer(n)' THEN 1 ELSE -3),
         cond'[f.at.cond + 1].state <=> Outer(n)',
         ~f.open => (f.live <=> Outer(n)'),
         Outer(n)' /\ f.open => Last(cond').active = -2,
         Outer(n)' => /\ Last(switches').val = f.val
                      /\ ~f.open => (Last(switches').matched <=> f.done)
                      /\ f.open => (Last(switches').matched \/ f.live <=> f.done)
                      /\ f.done /\ ~f.last => f.val \in f.seen,
         Last(brace') = "ENDSWITCH"
  PROVE  Own(n)'
<1>1. /\ f.at.cond \in Nat /\ f.at.match \in Nat /\ f.at.brace \in Nat
      /\ f.at.loops \in Nat /\ f.at.switches \in Nat /\ f.at.marks \in Nat
  BY DEF Frames
<1>2. /\ At(n + 1)'.cond = f.at.cond + (IF Outer(n)' /\ f.open THEN 2 ELSE 1) /\ At(n + 1)'.match = f.at.match + 0
      /\ At(n + 1)'.brace = f.at.brace + 1 /\ At(n + 1)'.loops = f.at.loops + 0
      /\ At(n + 1)'.switches = f.at.switches + (IF Outer(n)' THEN 1 ELSE 0) /\ At(n + 1)'.marks = f.at.marks + 0
  <2>1. /\ At(n + 1)'.cond = Len(cond') /\ At(n + 1)'.match = Len(match')
        /\ At(n + 1)'.brace = Len(brace') /\ At(n + 1)'.loops = Len(loops')
        /\ At(n + 1)'.switches = Len(switches') /\ At(n + 1)'.marks = Len(marks')
    BY HeightsTypeNext
  <2>2. QED
    BY <1>1, <2>1
<1>3. StateAt(At(n + 1).cond)' <=> f.live
  <2>1. At(n + 1)'.cond = Len(cond')
    BY HeightsTypeNext
  <2>2. Len(cond') # 0 /\ cond'[Len(cond')] = Last(cond')
    BY TopOfStack DEF CodeOK
  <2>3. QED
    BY <2>1, <2>2, Zenon DEF StateAt
<1>4. Last(brace') = brace'[f.at.brace + 1]
  BY DEF Last
<1>5. ASSUME Outer(n)', f.open PROVE cond'[f.at.cond + 2].active = -2
  <2>1. Last(cond') = cond'[f.at.cond + 2]
    BY <1>5 DEF Last
  <2>2. QED
    BY <1>5, <2>1
<1>6. ASSUME Outer(n)' PROVE Last(switches') = switches'[f.at.switches + 1]
  BY <1>6 DEF Last
<1>7. SwitchOwn(n)'
  BY <1>2, <1>4, <1>5, <1>6, Zenon DEF SwitchOwn, Grown
<1>8. QED
  BY <1>3, <1>7 DEF Own

(* So has a loop, with its position while it is live.                      *)
LEMMA OwnWhile ==
  ASSUME CodeOK', NEW n \in Nat \ {0}, NEW f \in Frames, nest'[n] = f, f.kind = "while",
         At(n + 1)' = Heights', f.live => Outer(n)', Last(cond').state <=> f.live, cond' # <<>>,
         Len(cond') = f.at.cond + 1, Len(match') = f.at.match,
         Len(brace') = f.at.brace + 1, Len(loops') = f.at.loops + (IF f.live THEN 1 ELSE 0),
         Len(switches') = f.at.switches, Len(marks') = f.at.marks,
         Last(cond').active = -4, f.live => Last(loops') = n, ~f.open => f.live,
         Last(brace') = "ENDWHILE"
  PROVE  Own(n)'
<1>1. /\ f.at.cond \in Nat /\ f.at.match \in Nat /\ f.at.brace \in Nat
      /\ f.at.loops \in Nat /\ f.at.switches \in Nat /\ f.at.marks \in Nat
  BY DEF Frames
<1>2. /\ At(n + 1)'.cond = f.at.cond + 1 /\ At(n + 1)'.match = f.at.match + 0
      /\ At(n + 1)'.brace = f.at.brace + 1 /\ At(n + 1)'.loops = f.at.loops + (IF f.live THEN 1 ELSE 0)
      /\ At(n + 1)'.switches = f.at.switches + 0 /\ At(n + 1)'.marks = f.at.marks + 0
  <2>1. /\ At(n + 1)'.cond = Len(cond') /\ At(n + 1)'.match = Len(match')
        /\ At(n + 1)'.brace = Len(brace') /\ At(n + 1)'.loops = Len(loops')
        /\ At(n + 1)'.switches = Len(switches') /\ At(n + 1)'.marks = Len(marks')
    BY HeightsTypeNext
  <2>2. QED
    BY <1>1, <2>1
<1>3. StateAt(At(n + 1).cond)' <=> f.live
  <2>1. At(n + 1)'.cond = Len(cond')
    BY HeightsTypeNext
  <2>2. Len(cond') # 0 /\ cond'[Len(cond')] = Last(cond')
    BY TopOfStack DEF CodeOK
  <2>3. QED
    BY <2>1, <2>2, Zenon DEF StateAt
<1>4. /\ Last(cond') = cond'[f.at.cond + 1] /\ Last(brace') = brace'[f.at.brace + 1]
  BY DEF Last
<1>5. ASSUME f.live PROVE loops'[f.at.loops + 1] = n
  BY <1>5 DEF Last
<1>6. WhileOwn(n)'
  BY <1>2, <1>4, <1>5, Zenon DEF WhileOwn, Grown
<1>7. QED
  BY <1>3, <1>6 DEF Own

(* So has a function body, in code that is live.                           *)
LEMMA OwnFunc ==
  ASSUME CodeOK', NEW n \in Nat \ {0}, NEW f \in Frames, nest'[n] = f, f.kind = "func",
         At(n + 1)' = Heights', f.live => Outer(n)', Last(cond').state <=> f.live, cond' # <<>>,
         Len(cond') = f.at.cond + 1, Len(match') = f.at.match,
         Len(brace') = f.at.brace, Len(loops') = f.at.loops,
         Len(switches') = f.at.switches, Len(marks') = f.at.marks,
         Last(cond').active = -6, Outer(n)'
  PROVE  Own(n)'
<1>1. /\ f.at.cond \in Nat /\ f.at.match \in Nat /\ f.at.brace \in Nat
      /\ f.at.loops \in Nat /\ f.at.switches \in Nat /\ f.at.marks \in Nat
  BY DEF Frames
<1>2. /\ At(n + 1)'.cond = f.at.cond + 1 /\ At(n + 1)'.match = f.at.match + 0
      /\ At(n + 1)'.brace = f.at.brace + 0 /\ At(n + 1)'.loops = f.at.loops + 0
      /\ At(n + 1)'.switches = f.at.switches + 0 /\ At(n + 1)'.marks = f.at.marks + 0
  <2>1. /\ At(n + 1)'.cond = Len(cond') /\ At(n + 1)'.match = Len(match')
        /\ At(n + 1)'.brace = Len(brace') /\ At(n + 1)'.loops = Len(loops')
        /\ At(n + 1)'.switches = Len(switches') /\ At(n + 1)'.marks = Len(marks')
    BY HeightsTypeNext
  <2>2. QED
    BY <1>1, <2>1
<1>3. StateAt(At(n + 1).cond)' <=> f.live
  <2>1. At(n + 1)'.cond = Len(cond')
    BY HeightsTypeNext
  <2>2. Len(cond') # 0 /\ cond'[Len(cond')] = Last(cond')
    BY TopOfStack DEF CodeOK
  <2>3. QED
    BY <2>1, <2>2, Zenon DEF StateAt
<1>4. Last(cond') = cond'[f.at.cond + 1]
  BY DEF Last
<1>5. FuncOwn(n)'
  BY <1>2, <1>4, Zenon DEF FuncOwn, Grown
<1>6. QED
  BY <1>3, <1>5 DEF Own

(* So has a call, in code that is live, with the marks for its end.        *)
LEMMA OwnCall ==
  ASSUME CodeOK', NEW n \in Nat \ {0}, NEW f \in Frames, nest'[n] = f, f.kind = "call",
         At(n + 1)' = Heights', f.live => Outer(n)', State' <=> f.live,
         Len(cond') = f.at.cond, Len(match') = f.at.match,
         Len(brace') = f.at.brace, Len(loops') = f.at.loops,
         Len(switches') = f.at.switches, Len(marks') = f.at.marks + 1,
         Last(marks').cond = f.at.cond, Last(marks').match = f.at.match, Outer(n)'
  PROVE  Own(n)'
<1>1. /\ f.at.cond \in Nat /\ f.at.match \in Nat /\ f.at.brace \in Nat
      /\ f.at.loops \in Nat /\ f.at.switches \in Nat /\ f.at.marks \in Nat
  BY DEF Frames
<1>2. /\ At(n + 1)'.cond = f.at.cond + 0 /\ At(n + 1)'.match = f.at.match + 0
      /\ At(n + 1)'.brace = f.at.brace + 0 /\ At(n + 1)'.loops = f.at.loops + 0
      /\ At(n + 1)'.switches = f.at.switches + 0 /\ At(n + 1)'.marks = f.at.marks + 1
  <2>1. /\ At(n + 1)'.cond = Len(cond') /\ At(n + 1)'.match = Len(match')
        /\ At(n + 1)'.brace = Len(brace') /\ At(n + 1)'.loops = Len(loops')
        /\ At(n + 1)'.switches = Len(switches') /\ At(n + 1)'.marks = Len(marks')
    BY HeightsTypeNext
  <2>2. QED
    BY <1>1, <2>1
<1>3. StateAt(At(n + 1).cond)' <=> f.live
  <2>1. At(n + 1)'.cond = Len(cond')
    BY HeightsTypeNext
  <2>2. CASE cond' = <<>>
    <3>1. Len(cond') = 0
      BY <2>2, EmptySeq
    <3>2. QED
      BY <2>1, <2>2, <3>1, Zenon DEF StateAt, State
  <2>3. CASE cond' # <<>>
    <3>1. Len(cond') # 0 /\ cond'[Len(cond')] = Last(cond')
      BY <2>3, TopOfStack DEF CodeOK
    <3>2. QED
      BY <2>1, <2>3, <3>1, Zenon DEF StateAt, State
  <2>4. QED
    BY <2>2, <2>3
<1>4. Last(marks') = marks'[f.at.marks + 1]
  BY DEF Last
<1>5. CallOwn(n)'
  BY <1>2, <1>4, Zenon DEF CallOwn, Grown
<1>6. QED
  BY <1>3, <1>5 DEF Own

(* A push leaves every entry there was.                                    *)
LEMMA SamePush ==
  ASSUME NEW S, NEW s \in Seq(S), NEW e \in S
  PROVE  Same(s, Append(s, e), Len(s))
<1>1. Len(s) \in Nat /\ Len(Append(s, e)) = Len(s) + 1 /\ \A i \in 1..Len(s) : Append(s, e)[i] = s[i]
  BY PushStack, LenProperties
<1>2. QED
  BY <1>1 DEF Same

(* A stack after a push.                                                   *)
LEMMA Pushed ==
  ASSUME NEW S, NEW s, NEW e, NEW t, s \in Seq(S), e \in S, t = Append(s, e)
  PROVE  Len(t) = Len(s) + 1 /\ Last(t) = e /\ t # <<>> /\ Same(s, t, Len(s))
BY PushStack, SamePush

(* A step that at most pushes keeps every entry there is.                  *)
LEMMA AgreeNow ==
  ASSUME CodeOK,
         cond' = cond \/ Same(cond, cond', Len(cond)), match' = match \/ Same(match, match', Len(match)),
         brace' = brace \/ Same(brace, brace', Len(brace)), loops' = loops \/ Same(loops, loops', Len(loops)),
         switches' = switches \/ Same(switches, switches', Len(switches)),
         marks' = marks \/ Same(marks, marks', Len(marks))
  PROVE  Agree(Heights)
<1>1. /\ Same(cond, cond', Len(cond)) /\ Same(match, match', Len(match))
      /\ Same(brace, brace', Len(brace)) /\ Same(loops, loops', Len(loops))
      /\ Same(switches, switches', Len(switches)) /\ Same(marks, marks', Len(marks))
  <2>1. \A s : Len(s) \in Nat => Same(s, s, Len(s))
    BY DEF Same
  <2>2. QED
    BY <2>1, HeightsType, Zenon
<1>2. QED
  BY <1>1, HeightsType, Zenon DEF Agree

(* The invariant, put together again after a step.                         *)
LEMMA Whole ==
  ASSUME TypeOK', err' = "none", Stacked', OpenBelow',
         NEW m \in Nat \ {0}, Len(nest') = m, \A j \in 1..m : j < m => Own(j)', Own(m)'
  PROVE  PlainInv'
<1>1. \A j \in 1..Len(nest') : Own(j)'
  <2>1. ASSUME NEW j \in 1..m PROVE Own(j)'
    <3>1. CASE j < m
      BY <3>1
    <3>2. CASE j = m
      BY <3>2
    <3>3. QED
      BY <3>1, <3>2
  <2>2. QED
    BY <2>1
<1>2. QED
  BY <1>1 DEF PlainInv, NoErrorReported

-----------------------------------------------------------------------------
(* The constructs, opened. *)

(* What follows from EnterKeeps for the frame of the new construct.        *)
LEMMA Entered ==
  ASSUME PlainInv, TypeOK', err' = "none", NEW m \in Nat \ {0}, m = Len(nest) + 1,
         NEW f \in Frames, f.at = Heights, nest' = Append(nest, f), InBody, Agree(Heights)
  PROVE  /\ nest'[m] = f
         /\ (Outer(m)' <=> Live) /\ At(m + 1)' = Heights'
         /\ Own(m)' => PlainInv'
<1>0. CodeOK /\ NestOK /\ CodeOK' /\ NestOK'
  BY DEF PlainInv, TypeOK, CodeOK, NestOK
<1>1. PICK n \in Nat : n = Len(nest)
  BY <1>0, TopType
<1>2. /\ Len(nest') = n + 1
      /\ nest'[n + 1] = f
      /\ \A j \in 1..n : Own(j)'
      /\ Stacked' /\ OpenBelow'
      /\ Outer(n + 1)' <=> Live
      /\ At(n + 2)' = Heights'
  BY <1>0, <1>1, EnterKeeps
<1>3. m = n + 1 /\ m + 1 = n + 2
  BY <1>1
<1>4. At(m + 1)' = Heights'
  BY <1>2, <1>3
<1>5. Own(m)' => PlainInv'
  <2>1. \A j \in 1..m : j < m => Own(j)'
    BY <1>2, <1>3
  <2>2. QED
    BY <1>2, <1>3, <2>1, Whole
<1>6. QED
  BY <1>2, <1>3, <1>4, <1>5

(* The if of a skipped page is entered as a skipped one.                   *)
LEMMA OpenIf ==
  ASSUME PlainInv, TypeOK', NEW c \in BOOLEAN, DoIf(c)
  PROVE  PlainInv'
<1>0. CodeOK /\ NestOK /\ CodeOK' /\ NestOK'
  BY DEF PlainInv, TypeOK, CodeOK, NestOK
<1>1. Enter("if", Live /\ c, c, TRUE, NoVal) /\ If(c) /\ (c => Live) /\ err' = "none"
  BY DEF DoIf, If, PlainInv, NoErrorReported
<1>2. State = Live /\ State \in BOOLEAN
  BY <1>0, StateLive, ReadType
<1>3. PICK e \in Entries : e.state = (State /\ c) /\ e.active = (IF State THEN 1 ELSE 0)
                           /\ e = Entry(State /\ c, IF State THEN 1 ELSE 0)
  <2>1. PICK e : e = Entry(State /\ c, IF State THEN 1 ELSE 0)
    OBVIOUS
  <2>2. e.state = (State /\ c) /\ e.active = (IF State THEN 1 ELSE 0) /\ e \in Entries
    BY <1>2, <2>1 DEF Entry, Entries
  <2>3. QED
    BY <2>1, <2>2, Zenon
<1>4. /\ Len(cond') = Len(cond) + 1 /\ Last(cond') = e /\ cond' # <<>>
      /\ Same(cond, cond', Len(cond))
  BY <1>0, <1>1, <1>3, PushStack, SamePush DEF If, CodeOK
<1>5. /\ Len(match') = Len(match) + 1 /\ Last(match') = (State /\ c)
      /\ Same(match, match', Len(match))
  <2>1. (State /\ c) \in BOOLEAN
    OBVIOUS
  <2>2. QED
    BY <1>0, <1>1, <2>1, PushStack, SamePush DEF If, CodeOK
<1>6. /\ Len(brace') = Len(brace) + 1 /\ Last(brace') = "ENDIF"
      /\ Same(brace, brace', Len(brace))
  BY <1>0, <1>1, PushStack, SamePush DEF If, CodeOK
<1>7. UNCHANGED <<loops, switches, marks>>
  BY <1>1 DEF If
<1>8. Agree(Heights)
  BY <1>0, <1>4, <1>5, <1>6, <1>7, AgreeNow
<1>9. PICK m \in Nat \ {0} : m = Len(nest) + 1
  BY <1>0, TopType
<1>10. PICK f \in Frames :
           /\ nest' = Append(nest, f) /\ InBody
           /\ f.kind = "if" /\ (f.live <=> Live /\ c) /\ (f.done <=> c) /\ ~f.last /\ f.open
           /\ f.at = Heights
           /\ f.at.cond = Len(cond) /\ f.at.match = Len(match) /\ f.at.brace = Len(brace)
           /\ f.at.loops = Len(loops) /\ f.at.switches = Len(switches) /\ f.at.marks = Len(marks)
  <2>1. PICK f : f = Frame("if", Live /\ c, c, TRUE, NoVal)
    OBVIOUS
  <2>2. nest' = Append(nest, f) /\ InBody
    BY <1>1, <2>1 DEF Enter, MayOpen
  <2>3. /\ f.kind = "if" /\ (f.live <=> Live /\ c) /\ (f.done <=> c) /\ ~f.last /\ f.open /\ f.at = Heights
    BY <2>1 DEF Frame
  <2>4. f \in Frames
    BY <1>0, <2>1, FrameType, TopType DEF Kinds
  <2>5. QED
    BY <1>0, <2>2, <2>3, <2>4, HeightsType
<1>11. nest'[m] = f /\ (Outer(m)' <=> Live) /\ At(m + 1)' = Heights' /\ (Own(m)' => PlainInv')
  BY <1>1, <1>8, <1>9, <1>10, Entered
<1>12. Last(cond').active = IF ~Outer(m)' THEN 0 ELSE IF f.last THEN -1 ELSE 1
  BY <1>2, <1>3, <1>4, <1>11, <1>10
<1>13. (Last(match') <=> f.done) \/ ~Outer(m)'
  BY <1>2, <1>5, <1>11, <1>10
<1>14. (f.live => Outer(m)') /\ (Last(cond').state <=> f.live)
  BY <1>2, <1>3, <1>4, <1>11, <1>10
<1>15. Own(m)'
  BY <1>0, <1>4, <1>5, <1>6, <1>7, <1>11, <1>10, <1>12, <1>13, <1>14, OwnIf
<1>16. QED
  BY <1>11, <1>10, <1>15

(* A switch in skipped code stands in a skipped switch, of a plain page.   *)
LEMMA OpenSwitch ==
  ASSUME PlainInv, PlainPages, TypeOK', NEW v \in Vals, DoSwitch(v)
  PROVE  PlainInv'
<1>0. CodeOK /\ NestOK /\ CodeOK' /\ NestOK'
  BY DEF PlainInv, TypeOK, CodeOK, NestOK
<1>1. Enter("switch", Live, FALSE, FALSE, v) /\ Switch(v) /\ err' = "none"
  BY DEF DoSwitch, Switch, PlainInv, NoErrorReported
<1>2. State = Live /\ State \in BOOLEAN
  BY <1>0, StateLive, ReadType
<1>3. ASSUME ~Live PROVE GetCurrentActive \in {-2, -3}
  <2>1. nest # <<>> /\ <<Top.kind, "switch">> \in Nestable /\ InBody
    BY <1>1, <1>3 DEF Enter, MayOpen, Live
  <2>2. Top.kind = "switch"
    BY <2>1 DEF PlainPages
  <2>3. cond # <<>> /\ Top.open /\ Last(cond).active = IF ~OuterLive THEN -3 ELSE IF Top.open THEN -2 ELSE 1
    BY <2>1, <2>2, TopSwitch DEF InBody
  <2>4. QED
    BY <2>3 DEF GetCurrentActive
<1>4. PICK e : e = IF Live THEN Entry(TRUE, 1) ELSE Entry(FALSE, -3)
  OBVIOUS
<1>5. e \in Entries
  BY <1>4 DEF Entry, Entries
<1>6. (e.state <=> Live) /\ e.active = IF Live THEN 1 ELSE -3
  BY <1>4 DEF Entry
<1>7. cond' = Append(cond, e)
  BY <1>1, <1>2, <1>3, <1>4 DEF Switch
<1>8. /\ Len(cond') = Len(cond) + 1 /\ Last(cond') = e /\ cond'[Len(cond) + 1] = e /\ cond' # <<>>
      /\ Same(cond, cond', Len(cond))
  <2>1. cond \in Seq(Entries)
    BY <1>0 DEF CodeOK
  <2>2. QED
    BY <1>5, <1>7, <2>1, PushStack, SamePush, Zenon
<1>9. /\ Len(brace') = Len(brace) + 1 /\ Last(brace') = "ENDSWITCH"
      /\ Same(brace, brace', Len(brace))
  BY <1>0, <1>1, PushStack, SamePush DEF Switch, CodeOK
<1>10. UNCHANGED <<match, loops, marks>>
  BY <1>1 DEF Switch
<1>11. ASSUME Live
       PROVE  /\ Len(switches') = Len(switches) + 1
              /\ Last(switches').val = v /\ ~Last(switches').matched
              /\ Same(switches, switches', Len(switches))
  <2>1. PICK w : w = [val |-> v, matched |-> FALSE]
    OBVIOUS
  <2>2. w \in [val : Vals, matched : BOOLEAN]
    BY <2>1
  <2>3. switches' = Append(switches, w)
    BY <1>1, <1>2, <1>11, <2>1 DEF Switch
  <2>4. /\ Len(switches') = Len(switches) + 1 /\ Last(switches') = w
        /\ Same(switches, switches', Len(switches))
    <3>1. PICK W : W = [val : Vals, matched : BOOLEAN]
      OBVIOUS
    <3>2. switches \in Seq(W) /\ w \in W
      BY <1>0, <2>2, <3>1, Zenon DEF CodeOK
    <3>3. QED
      BY <2>3, <3>2, PushStack, SamePush, Zenon
  <2>5. w.val = v /\ ~w.matched
    BY <2>1
  <2>6. QED
    BY <2>4, <2>5, Zenon
<1>12. ~Live => switches' = switches
  BY <1>1, <1>2 DEF Switch
<1>13. Agree(Heights)
  BY <1>0, <1>8, <1>9, <1>10, <1>11, <1>12, AgreeNow
<1>14. PICK m \in Nat \ {0} : m = Len(nest) + 1
  BY <1>0, TopType
<1>15. PICK f \in Frames :
           /\ nest' = Append(nest, f) /\ InBody
           /\ f.kind = "switch" /\ (f.live <=> Live) /\ ~f.done /\ ~f.open /\ f.val = v
           /\ f.at = Heights
           /\ f.at.cond = Len(cond) /\ f.at.match = Len(match) /\ f.at.brace = Len(brace)
           /\ f.at.loops = Len(loops) /\ f.at.switches = Len(switches) /\ f.at.marks = Len(marks)
  <2>1. PICK f : f = Frame("switch", Live, FALSE, FALSE, v)
    OBVIOUS
  <2>2. nest' = Append(nest, f) /\ InBody
    BY <1>1, <2>1 DEF Enter, MayOpen
  <2>3. f.kind = "switch" /\ (f.live <=> Live) /\ ~f.done /\ ~f.open /\ f.val = v /\ f.at = Heights
    BY <2>1 DEF Frame
  <2>4. f \in Frames
    BY <1>0, <2>1, FrameType, TopType DEF Kinds
  <2>5. QED
    BY <1>0, <2>2, <2>3, <2>4, HeightsType
<1>16. nest'[m] = f /\ (Outer(m)' <=> Live) /\ At(m + 1)' = Heights' /\ (Own(m)' => PlainInv')
  BY <1>1, <1>13, <1>14, <1>15, Entered
<1>17. /\ f.live => Outer(m)'
       /\ Last(cond').state <=> f.live
       /\ cond'[f.at.cond + 1].active = (IF Outer(m)' THEN 1 ELSE -3)
       /\ cond'[f.at.cond + 1].state <=> Outer(m)'
       /\ ~f.open => (f.live <=> Outer(m)')
  BY <1>6, <1>8, <1>15, <1>16
<1>18. /\ Len(cond') = f.at.cond + (IF Outer(m)' /\ f.open THEN 2 ELSE 1)
       /\ Len(match') = f.at.match /\ Len(brace') = f.at.brace + 1
       /\ Len(loops') = f.at.loops /\ Len(marks') = f.at.marks
       /\ Len(switches') = f.at.switches + (IF Outer(m)' THEN 1 ELSE 0)
  <2>1. Len(switches) \in Nat
    BY <1>0, HeightsType
  <2>2. QED
    BY <1>8, <1>9, <1>10, <1>11, <1>12, <1>15, <1>16, <2>1
<1>19. Outer(m)' => /\ Last(switches').val = f.val
                    /\ ~f.open => (Last(switches').matched <=> f.done)
                    /\ f.open => (Last(switches').matched \/ f.live <=> f.done)
                    /\ f.done /\ ~f.last => f.val \in f.seen
  BY <1>11, <1>15, <1>16, Zenon
<1>20. Own(m)'
  BY <1>0, <1>8, <1>9, <1>14, <1>15, <1>16, <1>17, <1>18, <1>19, OwnSwitch
<1>21. QED
  BY <1>16, <1>20

(* A while in skipped code stands in a skipped while, of a plain page.     *)
LEMMA OpenWhile ==
  ASSUME PlainInv, PlainPages, TypeOK', NEW c \in BOOLEAN, DoWhile(c)
  PROVE  PlainInv'
<1>0. CodeOK /\ NestOK /\ CodeOK' /\ NestOK'
  BY DEF PlainInv, TypeOK, CodeOK, NestOK
<1>1. Enter("while", Live /\ c, FALSE, TRUE, NoVal) /\ While(c, TRUE) /\ (c => Live)
  BY DEF DoWhile
<1>2. State = Live /\ State \in BOOLEAN
  BY <1>0, StateLive, ReadType
<1>3. PICK m \in Nat \ {0} : m = Len(nest) + 1
  BY <1>0, TopType
<1>4. PICK p : p = Append(loops, m)
  OBVIOUS
<1>5. /\ Len(p) = Len(loops) + 1 /\ Last(p) = m /\ p # <<>> /\ Same(loops, p, Len(loops))
      /\ Len(Pop(p)) = Len(loops) /\ Same(loops, Pop(p), Len(loops))
  <2>1. m \in 1..MaxDepth
    BY <1>0, <1>1, <1>3, TopType, ControlAssumption DEF Enter, MayOpen
  <2>2. p \in Seq(1..MaxDepth) /\ Len(p) = Len(loops) + 1 /\ Last(p) = m /\ p # <<>>
        /\ Same(loops, p, Len(loops)) /\ Len(loops) \in Nat
    <3>1. PICK W : W = 1..MaxDepth
      OBVIOUS
    <3>2. loops \in Seq(W) /\ m \in W
      BY <1>0, <2>1, <3>1, Zenon DEF CodeOK
    <3>3. p \in Seq(W)
      BY <1>4, <3>2, PushStack, Zenon
    <3>4. Len(p) = Len(loops) + 1 /\ Last(p) = m /\ p # <<>> /\ Same(loops, p, Len(loops))
      BY <1>4, <3>2, Pushed, Zenon
    <3>5. QED
      BY <1>0, <3>1, <3>3, <3>4, HeightsType, Zenon
  <2>3. Len(Pop(p)) = Len(loops) /\ \A i \in 1..Len(Pop(p)) : Pop(p)[i] = p[i]
    BY <2>2, PopStack
  <2>4. Same(loops, Pop(p), Len(loops))
    BY <2>2, <2>3 DEF Same
  <2>5. QED
    BY <2>2, <2>3, <2>4
<1>6. /\ brace' = Append(brace, "ENDWHILE")
      /\ loops' = IF ~Live THEN loops ELSE IF c THEN p ELSE Pop(p)
      /\ UNCHANGED <<match, switches, marks>> /\ err' = "none"
  BY <1>1, <1>2, <1>3, <1>4, <1>5 DEF While, PlainInv, NoErrorReported
<1>7. ASSUME ~Live PROVE GetCurrentActive = -4
  <2>1. nest # <<>> /\ <<Top.kind, "while">> \in Nestable
    BY <1>1, <1>7 DEF Enter, MayOpen, Live
  <2>2. Top.kind = "while"
    BY <2>1 DEF PlainPages
  <2>3. QED
    BY <2>1, <2>2, TopWhile DEF GetCurrentActive
<1>8. PICK e : e = Entry(c, -4)
  OBVIOUS
<1>9. e \in Entries
  BY <1>8 DEF Entry, Entries
<1>10. (e.state <=> c) /\ e.active = -4
  BY <1>8 DEF Entry
<1>11. cond' = Append(cond, e)
  <2>1. ~Live => c = FALSE
    BY <1>1
  <2>2. QED
    BY <1>1, <1>2, <1>3, <1>4, <1>5, <1>7, <1>8, <2>1 DEF While
<1>12. /\ Len(cond') = Len(cond) + 1 /\ Last(cond') = e /\ cond' # <<>>
       /\ Same(cond, cond', Len(cond))
  <2>1. cond \in Seq(Entries)
    BY <1>0 DEF CodeOK
  <2>2. QED
    BY <1>9, <1>11, <2>1, Pushed, Zenon
<1>13. /\ Len(brace') = Len(brace) + 1 /\ Last(brace') = "ENDWHILE"
       /\ Same(brace, brace', Len(brace))
  <2>1. brace \in Seq({"ENDIF", "ENDSWITCH", "ENDWHILE"})
    BY <1>0 DEF CodeOK
  <2>2. PICK W : W = {"ENDIF", "ENDSWITCH", "ENDWHILE"}
    OBVIOUS
  <2>3. brace \in Seq(W) /\ "ENDWHILE" \in W
    BY <2>1, <2>2
  <2>4. QED
    BY <1>6, <2>3, Pushed, Zenon
<1>14. loops' = loops \/ Same(loops, loops', Len(loops))
  BY <1>5, <1>6, Zenon
<1>15. Agree(Heights)
  BY <1>0, <1>6, <1>12, <1>13, <1>14, AgreeNow
<1>16. PICK f \in Frames :
           /\ nest' = Append(nest, f) /\ InBody
           /\ f.kind = "while" /\ (f.live <=> c) /\ f.open
           /\ f.at = Heights
           /\ f.at.cond = Len(cond) /\ f.at.match = Len(match) /\ f.at.brace = Len(brace)
           /\ f.at.loops = Len(loops) /\ f.at.switches = Len(switches) /\ f.at.marks = Len(marks)
  <2>1. PICK f : f = Frame("while", Live /\ c, FALSE, TRUE, NoVal)
    OBVIOUS
  <2>2. nest' = Append(nest, f) /\ InBody
    BY <1>1, <2>1 DEF Enter, MayOpen
  <2>3. f.kind = "while" /\ (f.live <=> c) /\ f.open /\ f.at = Heights
    BY <1>1, <2>1 DEF Frame
  <2>4. f \in Frames
    BY <1>0, <2>1, FrameType, TopType DEF Kinds
  <2>5. QED
    BY <1>0, <2>2, <2>3, <2>4, HeightsType
<1>17. nest'[m] = f /\ (Outer(m)' <=> Live) /\ At(m + 1)' = Heights' /\ (Own(m)' => PlainInv')
  BY <1>3, <1>6, <1>15, <1>16, Entered
<1>18. /\ Len(cond') = f.at.cond + 1 /\ Len(match') = f.at.match /\ Len(brace') = f.at.brace + 1
       /\ Len(switches') = f.at.switches /\ Len(marks') = f.at.marks
  BY <1>6, <1>12, <1>13, <1>16
<1>19. Len(loops') = f.at.loops + (IF f.live THEN 1 ELSE 0) /\ (f.live => Last(loops') = m)
  <2>1. Len(loops) \in Nat
    BY <1>0, HeightsType
  <2>2. QED
    BY <1>1, <1>5, <1>6, <1>16, <2>1
<1>20. /\ f.live => Outer(m)'
       /\ Last(cond').state <=> f.live
       /\ Last(cond').active = -4
  BY <1>1, <1>10, <1>12, <1>16, <1>17
<1>21. Own(m)'
  BY <1>0, <1>3, <1>12, <1>13, <1>16, <1>17, <1>18, <1>19, <1>20, OwnWhile
<1>22. QED
  BY <1>17, <1>21

(* A function body is entered in live code, and is not executed.           *)
LEMMA OpenFunc ==
  ASSUME PlainInv, TypeOK', DoFunc
  PROVE  PlainInv'
<1>0. CodeOK /\ NestOK /\ CodeOK' /\ NestOK'
  BY DEF PlainInv, TypeOK, CodeOK, NestOK
<1>1. Enter("func", FALSE, FALSE, TRUE, NoVal) /\ Live /\ InitFunc /\ err' = "none"
  BY DEF DoFunc, InitFunc, PlainInv, NoErrorReported
<1>2. PICK e : e = Entry(FALSE, -6)
  OBVIOUS
<1>3. e \in Entries
  BY <1>2 DEF Entry, Entries
<1>4. ~e.state /\ e.active = -6
  BY <1>2 DEF Entry
<1>5. /\ Len(cond') = Len(cond) + 1 /\ Last(cond') = e /\ cond' # <<>>
      /\ Same(cond, cond', Len(cond))
  <2>1. cond \in Seq(Entries)
    BY <1>0 DEF CodeOK
  <2>2. cond' = Append(cond, e)
    BY <1>1, <1>2 DEF InitFunc
  <2>3. QED
    BY <1>3, <2>1, <2>2, PushStack, SamePush, Zenon
<1>6. UNCHANGED <<match, brace, loops, switches, marks>>
  BY <1>1 DEF InitFunc
<1>7. Agree(Heights)
  BY <1>0, <1>5, <1>6, AgreeNow
<1>8. PICK m \in Nat \ {0} : m = Len(nest) + 1
  BY <1>0, TopType
<1>9. PICK f \in Frames :
           /\ nest' = Append(nest, f) /\ InBody
           /\ f.kind = "func" /\ ~f.live /\ f.open
           /\ f.at = Heights
           /\ f.at.cond = Len(cond) /\ f.at.match = Len(match) /\ f.at.brace = Len(brace)
           /\ f.at.loops = Len(loops) /\ f.at.switches = Len(switches) /\ f.at.marks = Len(marks)
  <2>1. PICK f : f = Frame("func", FALSE, FALSE, TRUE, NoVal)
    OBVIOUS
  <2>2. nest' = Append(nest, f) /\ InBody
    BY <1>1, <2>1 DEF Enter, MayOpen
  <2>3. f.kind = "func" /\ ~f.live /\ f.open /\ f.at = Heights
    BY <2>1 DEF Frame
  <2>4. f \in Frames
    BY <1>0, <2>1, FrameType, TopType DEF Kinds
  <2>5. QED
    BY <1>0, <2>2, <2>3, <2>4, HeightsType
<1>10. nest'[m] = f /\ (Outer(m)' <=> Live) /\ At(m + 1)' = Heights' /\ (Own(m)' => PlainInv')
  BY <1>1, <1>7, <1>8, <1>9, Entered
<1>11. /\ Len(cond') = f.at.cond + 1 /\ Len(match') = f.at.match /\ Len(brace') = f.at.brace
       /\ Len(loops') = f.at.loops /\ Len(switches') = f.at.switches /\ Len(marks') = f.at.marks
  BY <1>5, <1>6, <1>9
<1>12. (Last(cond').state <=> f.live) /\ Last(cond').active = -6
  BY <1>4, <1>5, <1>9
<1>13. Own(m)'
  BY <1>0, <1>1, <1>5, <1>8, <1>9, <1>10, <1>11, <1>12, OwnFunc
<1>14. QED
  BY <1>10, <1>13

(* A call is made in live code, and marks the heights it will unwind to.   *)
LEMMA OpenCall ==
  ASSUME PlainInv, TypeOK', DoCall
  PROVE  PlainInv'
<1>0. CodeOK /\ NestOK /\ CodeOK' /\ NestOK'
  BY DEF PlainInv, TypeOK, CodeOK, NestOK
<1>1. Enter("call", TRUE, FALSE, TRUE, NoVal) /\ Live /\ PushCondMatchMarks /\ err' = "none"
  BY DEF DoCall, PushCondMatchMarks, PlainInv, NoErrorReported
<1>2. State /\ (State' <=> State)
  <2>1. State = Live
    BY StateLive
  <2>2. cond' = cond
    BY <1>1 DEF PushCondMatchMarks
  <2>3. QED
    BY <1>1, <2>1, <2>2 DEF State
<1>3. PICK e : e = [cond |-> Len(cond), match |-> Len(match)]
  OBVIOUS
<1>4. PICK W : W = [cond : Nat, match : Nat]
  OBVIOUS
<1>5. e \in W /\ marks \in Seq(W)
  BY <1>0, <1>3, <1>4, HeightsType DEF CodeOK
<1>6. e.cond = Len(cond) /\ e.match = Len(match)
  BY <1>3
<1>7. /\ Len(marks') = Len(marks) + 1 /\ Last(marks') = e
      /\ Same(marks, marks', Len(marks))
  <2>1. marks' = Append(marks, e)
    BY <1>1, <1>3 DEF PushCondMatchMarks
  <2>2. QED
    BY <1>5, <2>1, PushStack, SamePush, Zenon
<1>8. UNCHANGED <<cond, match, brace, loops, switches>>
  BY <1>1 DEF PushCondMatchMarks
<1>9. Agree(Heights)
  BY <1>0, <1>7, <1>8, AgreeNow
<1>10. PICK m \in Nat \ {0} : m = Len(nest) + 1
  BY <1>0, TopType
<1>11. PICK f \in Frames :
           /\ nest' = Append(nest, f) /\ InBody
           /\ f.kind = "call" /\ f.live /\ f.open
           /\ f.at = Heights
           /\ f.at.cond = Len(cond) /\ f.at.match = Len(match) /\ f.at.brace = Len(brace)
           /\ f.at.loops = Len(loops) /\ f.at.switches = Len(switches) /\ f.at.marks = Len(marks)
  <2>1. PICK f : f = Frame("call", TRUE, FALSE, TRUE, NoVal)
    OBVIOUS
  <2>2. nest' = Append(nest, f) /\ InBody
    BY <1>1, <2>1 DEF Enter, MayOpen
  <2>3. f.kind = "call" /\ f.live /\ f.open /\ f.at = Heights
    BY <2>1 DEF Frame
  <2>4. f \in Frames
    BY <1>0, <2>1, FrameType, TopType DEF Kinds
  <2>5. QED
    BY <1>0, <2>2, <2>3, <2>4, HeightsType
<1>12. nest'[m] = f /\ (Outer(m)' <=> Live) /\ At(m + 1)' = Heights' /\ (Own(m)' => PlainInv')
  BY <1>1, <1>9, <1>10, <1>11, Entered
<1>13. /\ Len(cond') = f.at.cond /\ Len(match') = f.at.match /\ Len(brace') = f.at.brace
       /\ Len(loops') = f.at.loops /\ Len(switches') = f.at.switches /\ Len(marks') = f.at.marks + 1
  BY <1>7, <1>8, <1>11
<1>14. /\ State' <=> f.live
       /\ Last(marks').cond = f.at.cond /\ Last(marks').match = f.at.match
  BY <1>2, <1>6, <1>7, <1>11
<1>15. Own(m)'
  BY <1>0, <1>1, <1>10, <1>11, <1>12, <1>13, <1>14, OwnCall
<1>16. QED
  BY <1>12, <1>15

-----------------------------------------------------------------------------
(* The constructs, from one branch, case or iteration to the next. *)

(* A stack whose top was replaced.                                         *)
LEMMA Replaced ==
  ASSUME NEW S, NEW s, NEW e, NEW t, NEW h, s \in Seq(S), e \in S, h \in Nat, Len(s) = h + 1,
         t = Append(Pop(s), e)
  PROVE  Len(t) = h + 1 /\ Last(t) = e /\ t # <<>> /\ t[h + 1] = e /\ Same(s, t, h)
<1>1. s # <<>>
  BY EmptySeq
<1>2. Pop(s) \in Seq(S) /\ Len(Pop(s)) = h /\ \A i \in 1..h : Pop(s)[i] = s[i]
  BY <1>1, PopStack
<1>3. /\ Len(t) = h + 1 /\ Last(t) = e /\ t # <<>> /\ t[h + 1] = e
      /\ \A i \in 1..h : t[i] = Pop(s)[i]
  BY <1>2, PushStack
<1>4. QED
  BY <1>2, <1>3 DEF Same

(* cond after a new branch or iteration.                                   *)
LEMMA CondReplaced ==
  ASSUME CodeOK, NEW h \in Nat, NEW e \in Entries, Len(cond) = h + 1, cond' = Append(Pop(cond), e)
  PROVE  Len(cond') = h + 1 /\ Last(cond') = e /\ cond' # <<>> /\ cond'[h + 1] = e /\ Same(cond, cond', h)
<1>1. cond \in Seq(Entries) /\ e \in Entries /\ h \in Nat
  BY DEF CodeOK
<1>2. QED
  BY <1>1, Replaced, Zenon

(* match after a new branch.                                               *)
LEMMA MatchReplaced ==
  ASSUME CodeOK, NEW h \in Nat, NEW b \in BOOLEAN, Len(match) = h + 1, match' = Append(Pop(match), b)
  PROVE  Len(match') = h + 1 /\ (Last(match') <=> b) /\ Same(match, match', h)
<1>1. PICK W : W = BOOLEAN
  OBVIOUS
<1>2. match \in Seq(W) /\ b \in W /\ h \in Nat
  BY <1>1 DEF CodeOK
<1>3. Len(match') = h + 1 /\ Last(match') = b /\ Same(match, match', h)
  BY <1>2, Replaced, Zenon
<1>4. Last(match') <=> b
  BY <1>3, Zenon
<1>5. QED
  BY <1>3, <1>4, Zenon

(* What follows from SetTopKeeps for the innermost construct itself.       *)
LEMMA Changed ==
  ASSUME PlainInv, TypeOK', err' = "none", nest # <<>>, NEW n \in Nat \ {0}, n = Len(nest),
         NEW f \in Frames, SetTop(f), f.at = Top.at,
         Same(cond, cond', f.at.cond), Same(match, match', f.at.match),
         Same(brace, brace', f.at.brace), Same(loops, loops', f.at.loops),
         Same(switches, switches', f.at.switches), Same(marks, marks', f.at.marks)
  PROVE  /\ nest'[n] = f /\ (Outer(n)' <=> OuterLive) /\ At(n + 1)' = Heights'
         /\ Own(n)' => PlainInv'
<1>0. CodeOK /\ NestOK /\ CodeOK' /\ NestOK'
  BY DEF PlainInv, TypeOK, CodeOK, NestOK
<1>1. Agree(Top.at)
  BY DEF Agree
<1>2. Below(Top.at, Heights')
  BY <1>0, <1>1, HeightsTypeNext DEF Agree, Same, Below
<1>3. /\ Len(nest') = n /\ nest'[n] = f
      /\ \A j \in 1..n : j < n => Own(j)'
      /\ Outer(n)' <=> Outer(n)
      /\ At(n + 1)' = Heights'
      /\ OpenBelow' /\ Stacked'
  BY <1>0, <1>1, <1>2, SetTopKeeps
<1>4. Outer(n) <=> OuterLive
  BY TopOwn
<1>5. Own(n)' => PlainInv'
  BY <1>3, Whole
<1>6. QED
  BY <1>3, <1>4, <1>5

(* A stack that is left alone.                                             *)
LEMMA SameBelow ==
  ASSUME NEW s, NEW h, h <= Len(s)
  PROVE  Same(s, s, h)
BY DEF Same

(* A new branch of the innermost if, unless all of it is skipped.          *)
LEMMA Branched ==
  ASSUME PlainInv, TypeOK', err' = "none", nest # <<>>, Top.kind = "if",
         NEW f \in Frames, SetTop(f), f.kind = "if", f.at = Top.at,
         NEW e \in Entries, NEW b \in BOOLEAN,
         UNCHANGED <<brace, loops, switches, marks>>,
         OuterLive => cond' = Append(Pop(cond), e) /\ match' = Append(Pop(match), b),
         OuterLive => (e.state <=> f.live),
         OuterLive => e.active = IF f.last THEN -1 ELSE 1,
         OuterLive /\ ~f.last => (b <=> f.done),
         ~OuterLive => cond' = cond /\ match' = match /\ ~f.live
  PROVE  PlainInv'
<1>0. CodeOK /\ NestOK /\ CodeOK' /\ NestOK'
  BY DEF PlainInv, TypeOK, CodeOK, NestOK
<1>1. PICK n \in Nat \ {0} : n = Len(nest)
  BY <1>0, TopOfStack DEF NestOK
<1>2. /\ Len(cond) = f.at.cond + 1 /\ Len(match) = f.at.match + 1
      /\ Len(brace) = f.at.brace + 1 /\ Len(loops) = f.at.loops
      /\ Len(switches) = f.at.switches /\ Len(marks) = f.at.marks
      /\ cond # <<>> /\ match # <<>> /\ Last(brace) = "ENDIF"
      /\ Last(cond).active = IF ~OuterLive THEN 0 ELSE IF Top.last THEN -1 ELSE 1
  BY TopIf
<1>3. /\ f.at.cond \in Nat /\ f.at.match \in Nat /\ f.at.brace \in Nat
      /\ f.at.loops \in Nat /\ f.at.switches \in Nat /\ f.at.marks \in Nat
  BY DEF Frames
<1>4. PICK hc \in Nat, hm \in Nat : hc = f.at.cond /\ hm = f.at.match
  BY <1>3
<1>5. /\ Len(cond') = f.at.cond + 1 /\ cond' # <<>> /\ Same(cond, cond', f.at.cond)
      /\ OuterLive => Last(cond') = e
  <2>1. CASE OuterLive
    <3>1. cond' = Append(Pop(cond), e)
      BY <2>1
    <3>2. Len(cond) = hc + 1
      BY <1>2, <1>4
    <3>3. Len(cond') = hc + 1 /\ Last(cond') = e /\ cond' # <<>> /\ Same(cond, cond', hc)
      BY <1>0, <3>1, <3>2, CondReplaced
    <3>4. QED
      BY <1>4, <3>3
  <2>2. CASE ~OuterLive
    BY <1>2, <1>3, <2>2, SameBelow
  <2>3. QED
    BY <2>1, <2>2
<1>6. /\ Len(match') = f.at.match + 1 /\ Same(match, match', f.at.match)
      /\ OuterLive => (Last(match') <=> b)
  <2>1. CASE OuterLive
    <3>1. match' = Append(Pop(match), b)
      BY <2>1
    <3>2. Len(match) = hm + 1
      BY <1>2, <1>4
    <3>3. Len(match') = hm + 1 /\ (Last(match') <=> b) /\ Same(match, match', hm)
      BY <1>0, <3>1, <3>2, MatchReplaced
    <3>4. QED
      BY <1>4, <3>3
  <2>2. CASE ~OuterLive
    BY <1>2, <1>3, <2>2, SameBelow
  <2>3. QED
    BY <2>1, <2>2
<1>7. /\ Same(brace, brace', f.at.brace) /\ Same(loops, loops', f.at.loops)
      /\ Same(switches, switches', f.at.switches) /\ Same(marks, marks', f.at.marks)
  <2>1. brace' = brace /\ loops' = loops /\ switches' = switches /\ marks' = marks
    OBVIOUS
  <2>2. \A m \in Nat : m <= m /\ m <= m + 1
    OBVIOUS
  <2>3. f.at.brace <= Len(brace) /\ f.at.loops <= Len(loops) /\ f.at.switches <= Len(switches) /\ f.at.marks <= Len(marks)
    BY <1>2, <1>3, <2>2, Zenon
  <2>4. QED
    BY <2>1, <2>3, SameBelow, Zenon
<1>8. nest'[n] = f /\ (Outer(n)' <=> OuterLive) /\ At(n + 1)' = Heights' /\ (Own(n)' => PlainInv')
  BY <1>1, <1>5, <1>6, <1>7, Changed
<1>9. State <=> Top.live
  BY <1>1, TopOwn
<1>10. Top.live => OuterLive
  BY <1>1, TopOwn
<1>11. Last(cond').state <=> f.live
  <2>1. CASE OuterLive
    BY <1>5, <2>1
  <2>2. CASE ~OuterLive
    <3>1. ~Last(cond).state
      BY <1>2, <1>9, <1>10, <2>2, Zenon DEF State
    <3>2. QED
      BY <2>2, <3>1
  <2>3. QED
    BY <2>1, <2>2
<1>12. Last(cond').active = IF ~Outer(n)' THEN 0 ELSE IF f.last THEN -1 ELSE 1
  <2>1. CASE OuterLive
    BY <1>5, <1>8, <2>1
  <2>2. CASE ~OuterLive
    BY <1>2, <1>8, <2>2
  <2>3. QED
    BY <2>1, <2>2
<1>13. (f.live => Outer(n)') /\ (Outer(n)' /\ ~f.last => (Last(match') <=> f.done))
  BY <1>6, <1>8
<1>14. /\ Len(brace') = f.at.brace + 1 /\ Len(loops') = f.at.loops
       /\ Len(switches') = f.at.switches /\ Len(marks') = f.at.marks /\ Last(brace') = "ENDIF"
  BY <1>2
<1>15. Own(n)'
  BY <1>0, <1>5, <1>6, <1>8, <1>11, <1>12, <1>13, <1>14, OwnIf
<1>16. QED
  BY <1>8, <1>15

(* elseif: the first condition that holds decides.                         *)
LEMMA ChangeElseIf ==
  ASSUME PlainInv, TypeOK', NEW c \in BOOLEAN, DoElseIf(c)
  PROVE  PlainInv'
<1>0. CodeOK /\ NestOK
  BY DEF PlainInv, TypeOK, CodeOK, NestOK
<1>1. nest # <<>> /\ Top.kind = "if" /\ ~Top.last /\ ElseIf(c) /\ err = "none"
  BY DEF DoElseIf, In, PlainInv, NoErrorReported
<1>2. PICK g \in Frames : g = Top
  BY <1>0, <1>1, TopType
<1>3. PICK f : f = [g EXCEPT !.live = OuterLive /\ ~g.done /\ c, !.done = g.done \/ c]
  OBVIOUS
<1>4. SetTop(f)
  BY <1>2, <1>3 DEF DoElseIf
<1>5. f \in Frames
  BY <1>0, <1>3, TopType DEF Frames
<1>6. /\ f.kind = g.kind /\ f.at = g.at /\ f.last = g.last
      /\ f.live <=> OuterLive /\ ~g.done /\ c
      /\ f.done <=> g.done \/ c
  BY <1>3 DEF Frames
<1>7. /\ cond # <<>> /\ match # <<>>
      /\ Last(cond).active = IF ~OuterLive THEN 0 ELSE 1
      /\ OuterLive => (Last(match) <=> g.done)
  BY <1>1, <1>2, TopIf
<1>8. Active = (IF ~OuterLive THEN 0 ELSE 1) /\ (OuterLive => (Matched <=> g.done))
  BY <1>7, Zenon DEF Active, Matched
<1>9. /\ OuterLive => NewBranch(~Matched /\ c, 1, Matched \/ c)
      /\ ~OuterLive => UNCHANGED <<code, err>>
  BY <1>1, <1>8 DEF ElseIf
<1>10. PICK e : e = Entry(~Matched /\ c, 1)
  OBVIOUS
<1>11. PICK b : b = (Matched \/ c)
  OBVIOUS
<1>12. e \in Entries /\ b \in BOOLEAN
  BY <1>0, <1>10, <1>11, ReadType DEF Entry, Entries
<1>13. (e.state <=> ~Matched /\ c) /\ e.active = 1
  BY <1>10 DEF Entry
<1>14. /\ OuterLive => cond' = Append(Pop(cond), e) /\ match' = Append(Pop(match), b)
       /\ ~OuterLive => cond' = cond /\ match' = match
       /\ UNCHANGED <<brace, loops, switches, marks>> /\ err' = "none"
  BY <1>1, <1>7, <1>9, <1>10, <1>11 DEF NewBranch, code
<1>15. /\ OuterLive => (e.state <=> f.live) /\ e.active = (IF f.last THEN -1 ELSE 1)
       /\ OuterLive /\ ~f.last => (b <=> f.done)
       /\ ~OuterLive => ~f.live
  BY <1>1, <1>2, <1>6, <1>8, <1>11, <1>13
<1>16. QED
  BY <1>1, <1>2, <1>4, <1>5, <1>6, <1>12, <1>14, <1>15, Branched

(* else: what is left when no condition held.                              *)
LEMMA ChangeElse ==
  ASSUME PlainInv, TypeOK', DoElse
  PROVE  PlainInv'
<1>0. CodeOK /\ NestOK
  BY DEF PlainInv, TypeOK, CodeOK, NestOK
<1>1. nest # <<>> /\ Top.kind = "if" /\ ~Top.last /\ Else /\ err = "none"
  BY DEF DoElse, In, PlainInv, NoErrorReported
<1>2. PICK g \in Frames : g = Top
  BY <1>0, <1>1, TopType
<1>3. PICK f : f = [g EXCEPT !.live = OuterLive /\ ~g.done, !.done = TRUE, !.last = TRUE]
  OBVIOUS
<1>4. SetTop(f)
  BY <1>2, <1>3 DEF DoElse
<1>5. f \in Frames
  BY <1>0, <1>3, TopType DEF Frames
<1>6. /\ f.kind = g.kind /\ f.at = g.at /\ f.last
      /\ f.live <=> OuterLive /\ ~g.done
  BY <1>3 DEF Frames
<1>7. /\ cond # <<>> /\ match # <<>>
      /\ Last(cond).active = IF ~OuterLive THEN 0 ELSE 1
      /\ OuterLive => (Last(match) <=> g.done)
  BY <1>1, <1>2, TopIf
<1>8. Active = (IF ~OuterLive THEN 0 ELSE 1) /\ (OuterLive => (Matched <=> g.done))
  BY <1>7, Zenon DEF Active, Matched
<1>9. /\ OuterLive => NewBranch(~Matched, -1, ~Matched)
      /\ ~OuterLive => UNCHANGED <<code, err>>
  BY <1>1, <1>8 DEF Else
<1>10. PICK e : e = Entry(~Matched, -1)
  OBVIOUS
<1>11. PICK b : b = ~Matched
  OBVIOUS
<1>12. e \in Entries /\ b \in BOOLEAN
  BY <1>0, <1>10, <1>11, ReadType DEF Entry, Entries
<1>13. (e.state <=> ~Matched) /\ e.active = -1
  BY <1>10 DEF Entry
<1>14. /\ OuterLive => cond' = Append(Pop(cond), e) /\ match' = Append(Pop(match), b)
       /\ ~OuterLive => cond' = cond /\ match' = match
       /\ UNCHANGED <<brace, loops, switches, marks>> /\ err' = "none"
  BY <1>1, <1>7, <1>9, <1>10, <1>11 DEF NewBranch, code
<1>15. /\ OuterLive => (e.state <=> f.live) /\ e.active = (IF f.last THEN -1 ELSE 1)
       /\ ~OuterLive => ~f.live
  BY <1>6, <1>8, <1>13
<1>16. QED
  BY <1>1, <1>2, <1>4, <1>5, <1>6, <1>12, <1>14, <1>15, Branched

(* cond after a case.                                                      *)
LEMMA CondPushed ==
  ASSUME CodeOK, NEW e \in Entries, cond' = Append(cond, e)
  PROVE  Len(cond') = Len(cond) + 1 /\ Last(cond') = e /\ cond' # <<>> /\ Same(cond, cond', Len(cond))
<1>1. cond \in Seq(Entries) /\ e \in Entries
  BY DEF CodeOK
<1>2. QED
  BY <1>1, Pushed, Zenon

(* A case of the innermost switch, which no other case runs into.          *)
LEMMA Cased ==
  ASSUME PlainInv, TypeOK', err' = "none", nest # <<>>, Top.kind = "switch", ~Top.open,
         NEW f \in Frames, SetTop(f), f.kind = "switch", f.at = Top.at, f.open, f.val = Top.val,
         NEW e \in Entries,
         UNCHANGED <<match, brace, loops, switches, marks>>,
         OuterLive => cond' = Append(cond, e),
         OuterLive => (e.state <=> f.live) /\ e.active = -2,
         OuterLive => (Last(switches).matched \/ f.live <=> f.done),
         OuterLive /\ f.done /\ ~f.last => f.val \in f.seen,
         ~OuterLive => cond' = cond /\ ~f.live
  PROVE  PlainInv'
<1>0. CodeOK /\ NestOK /\ CodeOK' /\ NestOK'
  BY DEF PlainInv, TypeOK, CodeOK, NestOK
<1>1. PICK n \in Nat \ {0} : n = Len(nest)
  BY <1>0, TopOfStack DEF NestOK
<1>2. /\ Len(cond) = f.at.cond + 1
      /\ Len(match) = f.at.match /\ Len(brace) = f.at.brace + 1
      /\ Len(loops) = f.at.loops
      /\ Len(switches) = f.at.switches + (IF OuterLive THEN 1 ELSE 0)
      /\ Len(marks) = f.at.marks
      /\ cond # <<>> /\ Last(brace) = "ENDSWITCH"
      /\ cond[f.at.cond + 1].active = (IF OuterLive THEN 1 ELSE -3)
      /\ cond[f.at.cond + 1].state <=> OuterLive
      /\ OuterLive => Last(switches).val = Top.val
  BY TopSwitch
<1>3. /\ f.at.cond \in Nat /\ f.at.match \in Nat /\ f.at.brace \in Nat
      /\ f.at.loops \in Nat /\ f.at.switches \in Nat /\ f.at.marks \in Nat
  BY DEF Frames
<1>4. PICK h \in Nat : h = f.at.cond
  BY <1>3
<1>5. /\ Len(cond') = h + (IF OuterLive THEN 2 ELSE 1) /\ cond' # <<>> /\ Same(cond, cond', h)
      /\ cond'[h + 1] = cond[h + 1] /\ (OuterLive => Last(cond') = e)
  <2>1. CASE OuterLive
    <3>1. cond' = Append(cond, e)
      BY <2>1
    <3>2. Len(cond) = h + 1
      BY <1>2, <1>4
    <3>3. Len(cond') = Len(cond) + 1 /\ Last(cond') = e /\ cond' # <<>> /\ Same(cond, cond', Len(cond))
      BY <1>0, <3>1, CondPushed
    <3>4. QED
      BY <2>1, <3>2, <3>3 DEF Same
  <2>2. CASE ~OuterLive
    <3>1. cond' = cond /\ Len(cond) = h + 1 /\ h <= Len(cond)
      BY <1>2, <1>4, <2>2
    <3>2. QED
      BY <1>2, <2>2, <3>1, SameBelow
  <2>3. QED
    BY <2>1, <2>2
<1>6. /\ Same(brace, brace', f.at.brace) /\ Same(loops, loops', f.at.loops)
      /\ Same(switches, switches', f.at.switches) /\ Same(marks, marks', f.at.marks)
      /\ Same(match, match', f.at.match) /\ Same(cond, cond', f.at.cond)
  <2>1. brace' = brace /\ loops' = loops /\ switches' = switches /\ marks' = marks /\ match' = match
    OBVIOUS
  <2>2. f.at.brace <= Len(brace) /\ f.at.loops <= Len(loops) /\ f.at.marks <= Len(marks) /\ f.at.match <= Len(match)
    <3>1. \A m \in Nat : m <= m /\ m <= m + 1
      OBVIOUS
    <3>2. QED
      BY <1>2, <1>3, <3>1, Zenon
  <2>3. f.at.switches <= Len(switches)
    BY <1>2, <1>3
  <2>4. QED
    BY <1>4, <1>5, <2>1, <2>2, <2>3, SameBelow, Zenon
<1>7. nest'[n] = f /\ (Outer(n)' <=> OuterLive) /\ At(n + 1)' = Heights' /\ (Own(n)' => PlainInv')
  BY <1>1, <1>6, Changed
<1>8. State <=> Top.live
  BY <1>1, TopOwn
<1>9. Top.live => OuterLive
  BY <1>1, TopOwn
<1>10. Last(cond').state <=> f.live
  <2>1. CASE OuterLive
    BY <1>5, <2>1
  <2>2. CASE ~OuterLive
    <3>1. ~Last(cond).state
      BY <1>2, <1>8, <1>9, <2>2, Zenon DEF State
    <3>2. QED
      BY <2>2, <3>1
  <2>3. QED
    BY <2>1, <2>2
<1>11. /\ Len(cond') = f.at.cond + (IF Outer(n)' /\ f.open THEN 2 ELSE 1)
       /\ cond'[f.at.cond + 1].active = (IF Outer(n)' THEN 1 ELSE -3)
       /\ cond'[f.at.cond + 1].state <=> Outer(n)'
       /\ Outer(n)' /\ f.open => Last(cond').active = -2
  BY <1>2, <1>4, <1>5, <1>7
<1>12. /\ Len(match') = f.at.match /\ Len(brace') = f.at.brace + 1
       /\ Len(loops') = f.at.loops /\ Len(marks') = f.at.marks
       /\ Len(switches') = f.at.switches + (IF Outer(n)' THEN 1 ELSE 0)
       /\ Last(brace') = "ENDSWITCH"
  BY <1>2, <1>7
<1>13. Outer(n)' => /\ Last(switches').val = f.val
                    /\ ~f.open => (Last(switches').matched <=> f.done)
                    /\ f.open => (Last(switches').matched \/ f.live <=> f.done)
                    /\ f.done /\ ~f.last => f.val \in f.seen
  BY <1>2, <1>7
<1>14. f.live => Outer(n)'
  BY <1>7
<1>15. Own(n)'
  BY <1>0, <1>5, <1>7, <1>10, <1>11, <1>12, <1>13, <1>14, OwnSwitch
<1>16. QED
  BY <1>7, <1>15

(* case after break: the value decides, unless it has been seen.           *)
LEMMA ChangeCase ==
  ASSUME PlainInv, PlainPages, TypeOK', NEW v \in Vals, DoCase(v)
  PROVE  PlainInv'
<1>0. CodeOK /\ NestOK
  BY DEF PlainInv, TypeOK, CodeOK, NestOK
<1>1. nest # <<>> /\ Top.kind = "switch" /\ ~Top.last /\ ~Top.open /\ v \notin Top.seen
      /\ Case(v) /\ err = "none"
  BY DEF DoCase, In, PlainInv, NoErrorReported, PlainPages
<1>2. PICK g \in Frames : g = Top
  BY <1>0, <1>1, TopType
<1>3. PICK f : f = [g EXCEPT
       !.live = OuterLive /\ ((g.open /\ g.live) \/ (~g.done /\ v = g.val)),
       !.done = g.done \/ v = g.val, !.seen = g.seen \union {v}, !.open = TRUE]
  OBVIOUS
<1>4. SetTop(f)
  BY <1>2, <1>3 DEF DoCase
<1>5. f \in Frames
  BY <1>0, <1>3, TopType DEF Frames
<1>6. /\ f.kind = g.kind /\ f.at = g.at /\ f.val = g.val /\ f.open
      /\ f.live <=> OuterLive /\ ((g.open /\ g.live) \/ (~g.done /\ v = g.val))
      /\ f.done <=> g.done \/ v = g.val
      /\ f.seen = g.seen \union {v}
  BY <1>3 DEF Frames
<1>7. /\ cond # <<>> /\ Last(cond).active = IF ~OuterLive THEN -3 ELSE 1
      /\ g.live <=> OuterLive
      /\ OuterLive =>
           /\ switches # <<>> /\ Last(switches).val = g.val
           /\ Last(switches).matched <=> g.done
           /\ g.done => g.val \in g.seen
  BY <1>1, <1>2, TopSwitch
<1>8. State <=> OuterLive
  <2>1. PICK n \in Nat \ {0} : n = Len(nest)
    BY <1>0, <1>1, TopOfStack DEF NestOK
  <2>2. State <=> Top.live
    BY <1>1, <2>1, TopOwn
  <2>3. QED
    BY <1>2, <1>7, <2>2
<1>9. Active = (IF ~OuterLive THEN -3 ELSE 1) /\ GetCurrentActive = (IF ~OuterLive THEN -3 ELSE 1)
  BY <1>7, Zenon DEF Active, GetCurrentActive
<1>10. PICK e : e = Entry(v = Last(switches).val, -2)
  OBVIOUS
<1>11. e \in Entries
  BY <1>10 DEF Entry, Entries
<1>12. (e.state <=> v = Last(switches).val) /\ e.active = -2
  BY <1>10 DEF Entry
<1>13. /\ OuterLive => cond' = Append(cond, e)
       /\ ~OuterLive => cond' = cond
       /\ UNCHANGED <<match, brace, loops, switches, marks>> /\ err' = "none"
  <2>1. CASE OuterLive
    BY <1>1, <1>7, <1>8, <1>9, <1>10, <2>1 DEF Case
  <2>2. CASE ~OuterLive
    BY <1>1, <1>8, <1>9, <2>2 DEF Case, code
  <2>3. QED
    BY <2>1, <2>2
<1>14. /\ OuterLive => (e.state <=> f.live) /\ e.active = -2
       /\ OuterLive => (Last(switches).matched \/ f.live <=> f.done)
       /\ OuterLive /\ f.done /\ ~f.last => f.val \in f.seen
       /\ ~OuterLive => ~f.live
  <2>1. ~g.open /\ v \notin g.seen
    BY <1>1, <1>2
  <2>2. QED
    BY <1>6, <1>7, <1>12, <2>1, Zenon
<1>15. f.kind = "switch" /\ f.at = Top.at /\ f.val = Top.val /\ f.open
  BY <1>1, <1>2, <1>6
<1>16. QED
  BY <1>1, <1>4, <1>5, <1>11, <1>13, <1>14, <1>15, Cased

(* default after break: whatever no case matched.                          *)
LEMMA ChangeDefault ==
  ASSUME PlainInv, PlainPages, TypeOK', DoDefault
  PROVE  PlainInv'
<1>0. CodeOK /\ NestOK
  BY DEF PlainInv, TypeOK, CodeOK, NestOK
<1>1. nest # <<>> /\ Top.kind = "switch" /\ ~Top.last /\ ~Top.open
      /\ Default /\ err = "none"
  BY DEF DoDefault, In, PlainInv, NoErrorReported, PlainPages
<1>2. PICK g \in Frames : g = Top
  BY <1>0, <1>1, TopType
<1>3. PICK f : f = [g EXCEPT !.live = OuterLive /\ ((g.open /\ g.live) \/ ~g.done),
                             !.done = TRUE, !.last = TRUE, !.open = TRUE]
  OBVIOUS
<1>4. SetTop(f)
  BY <1>2, <1>3 DEF DoDefault
<1>5. f \in Frames
  BY <1>0, <1>3, TopType DEF Frames
<1>6. /\ f.kind = g.kind /\ f.at = g.at /\ f.val = g.val /\ f.open /\ f.done /\ f.last
      /\ f.live <=> OuterLive /\ ((g.open /\ g.live) \/ ~g.done)
  BY <1>3 DEF Frames
<1>7. /\ cond # <<>> /\ Last(cond).active = IF ~OuterLive THEN -3 ELSE 1
      /\ g.live <=> OuterLive
      /\ OuterLive => switches # <<>> /\ (Last(switches).matched <=> g.done)
  BY <1>1, <1>2, TopSwitch
<1>8. State <=> OuterLive
  <2>1. PICK n \in Nat \ {0} : n = Len(nest)
    BY <1>0, <1>1, TopOfStack DEF NestOK
  <2>2. State <=> Top.live
    BY <1>1, <2>1, TopOwn
  <2>3. QED
    BY <1>2, <1>7, <2>2
<1>9. GetCurrentActive = (IF ~OuterLive THEN -3 ELSE 1)
  BY <1>7, Zenon DEF GetCurrentActive
<1>10. PICK e : e = Entry(~Last(switches).matched, -2)
  OBVIOUS
<1>11. e \in Entries
  BY <1>10 DEF Entry, Entries
<1>12. (e.state <=> ~Last(switches).matched) /\ e.active = -2
  BY <1>10 DEF Entry
<1>13. /\ OuterLive => cond' = Append(cond, e)
       /\ ~OuterLive => cond' = cond
       /\ UNCHANGED <<match, brace, loops, switches, marks>> /\ err' = "none"
  <2>1. CASE OuterLive
    BY <1>1, <1>7, <1>8, <1>10, <2>1 DEF Default
  <2>2. CASE ~OuterLive
    BY <1>1, <1>8, <1>9, <2>2 DEF Default, code
  <2>3. QED
    BY <2>1, <2>2
<1>14. /\ OuterLive => (e.state <=> f.live) /\ e.active = -2
       /\ OuterLive => (Last(switches).matched \/ f.live <=> f.done)
       /\ OuterLive /\ f.done /\ ~f.last => f.val \in f.seen
       /\ ~OuterLive => ~f.live
  <2>1. ~g.open
    BY <1>1, <1>2
  <2>2. QED
    BY <1>6, <1>7, <1>12, <2>1, Zenon
<1>15. f.kind = "switch" /\ f.at = Top.at /\ f.val = Top.val /\ f.open
  BY <1>1, <1>2, <1>6
<1>16. QED
  BY <1>1, <1>4, <1>5, <1>11, <1>13, <1>14, <1>15, Cased

(* A stack after a pop.                                                    *)
LEMMA Popped ==
  ASSUME NEW S, NEW s, NEW t, NEW h, s \in Seq(S), h \in Nat, Len(s) = h + 1, t = Pop(s)
  PROVE  Len(t) = h /\ s # <<>> /\ Same(s, t, h)
<1>1. s # <<>>
  BY EmptySeq
<1>2. Len(Pop(s)) = h /\ \A i \in 1..h : Pop(s)[i] = s[i]
  BY <1>1, PopStack
<1>3. QED
  BY <1>1, <1>2 DEF Same

(* The stacks popped by the closing tokens.                                *)
LEMMA CondPopped ==
  ASSUME CodeOK, NEW h \in Nat, Len(cond) = h + 1, cond' = Pop(cond)
  PROVE  Len(cond') = h /\ Same(cond, cond', h)
<1>1. cond \in Seq(Entries) /\ h \in Nat
  BY DEF CodeOK
<1>2. QED
  BY <1>1, Popped, Zenon

(* break in a case: the entry of the case goes, and the switch knows       *)
(* whether the case was executed.                                          *)
LEMMA ChangeBreak ==
  ASSUME PlainInv, TypeOK', DoBreak
  PROVE  PlainInv'
<1>0. CodeOK /\ NestOK /\ CodeOK' /\ NestOK'
  BY DEF PlainInv, TypeOK, CodeOK, NestOK
<1>1. nest # <<>> /\ Top.kind = "switch" /\ Top.open /\ Break /\ err = "none"
  BY DEF DoBreak, In, PlainInv, NoErrorReported
<1>2. PICK g \in Frames : g = Top
  BY <1>0, <1>1, TopType
<1>3. PICK f : f = [g EXCEPT !.open = FALSE, !.live = OuterLive]
  OBVIOUS
<1>4. SetTop(f)
  BY <1>2, <1>3 DEF DoBreak
<1>5. f \in Frames
  BY <1>0, <1>3, TopType DEF Frames
<1>6. /\ f.kind = g.kind /\ f.at = g.at /\ f.val = g.val /\ ~f.open /\ f.seen = g.seen
      /\ (f.live <=> OuterLive) /\ (f.done <=> g.done) /\ (f.last <=> g.last)
  BY <1>3 DEF Frames
<1>7. PICK n \in Nat \ {0} : n = Len(nest)
  BY <1>0, <1>1, TopOfStack DEF NestOK
<1>8. (State <=> g.live) /\ (g.live => OuterLive)
  BY <1>1, <1>2, <1>7, TopOwn
<1>9. /\ Len(cond) = g.at.cond + (IF OuterLive THEN 2 ELSE 1)
      /\ Len(match) = g.at.match /\ Len(brace) = g.at.brace + 1
      /\ Len(loops) = g.at.loops
      /\ Len(switches) = g.at.switches + (IF OuterLive THEN 1 ELSE 0)
      /\ Len(marks) = g.at.marks
      /\ cond # <<>> /\ Last(brace) = "ENDSWITCH"
      /\ cond[g.at.cond + 1].active = (IF OuterLive THEN 1 ELSE -3)
      /\ cond[g.at.cond + 1].state <=> OuterLive
      /\ Last(cond).active = IF ~OuterLive THEN -3 ELSE -2
      /\ OuterLive =>
           /\ switches # <<>> /\ Last(switches).val = g.val
           /\ Last(switches).matched \/ g.live <=> g.done
           /\ g.done /\ ~g.last => g.val \in g.seen
  BY <1>1, <1>2, TopSwitch
<1>10. /\ g.at.cond \in Nat /\ g.at.match \in Nat /\ g.at.brace \in Nat
       /\ g.at.loops \in Nat /\ g.at.switches \in Nat /\ g.at.marks \in Nat
  BY DEF Frames
<1>11. GetCurrentActive = IF ~OuterLive THEN -3 ELSE -2
  BY <1>9, Zenon DEF GetCurrentActive
<1>12. PICK x : x = [Last(switches) EXCEPT !.matched = Last(switches).matched \/ State]
  OBVIOUS
<1>13. ASSUME OuterLive
       PROVE  /\ cond' = Pop(cond) /\ switches' = [switches EXCEPT ![Len(switches)] = x]
              /\ UNCHANGED <<match, brace, loops, marks, err>>
  <2>1. /\ cond' = Pop(cond)
        /\ switches' = [switches EXCEPT ![Len(switches)].matched = @ \/ State]
        /\ UNCHANGED <<match, brace, loops, marks, err>>
    BY <1>1, <1>9, <1>11, <1>13 DEF Break
  <2>2. switches[Len(switches)] = Last(switches)
    BY DEF Last
  <2>3. QED
    BY <1>12, <2>1, <2>2
<1>14. ASSUME OuterLive
       PROVE  /\ Len(switches') = Len(switches)
              /\ Last(switches').val = g.val
              /\ Last(switches').matched <=> Last(switches).matched \/ g.live
              /\ Same(switches, switches', g.at.switches)
  <2>1. PICK W : W = [val : Vals, matched : BOOLEAN]
    OBVIOUS
  <2>2. Last(switches) \in W /\ switches \in Seq(W)
    BY <1>0, <1>9, <1>14, <2>1, ReadType DEF CodeOK
  <2>3. x \in W /\ x.val = Last(switches).val /\ (x.matched <=> Last(switches).matched \/ State)
    <3>1. State \in BOOLEAN
      BY <1>0, ReadType
    <3>2. QED
      BY <1>12, <2>1, <2>2, <3>1
  <2>4. PICK k \in Nat : k = Len(switches) - 1 /\ k = g.at.switches
    BY <1>9, <1>10, <1>14
  <2>5. /\ Len(switches') = Len(switches) /\ Last(switches') = x
        /\ \A i \in 1..k : switches'[i] = switches[i]
    BY <1>9, <1>13, <1>14, <2>2, <2>3, <2>4, ReplaceTop
  <2>6. Same(switches, switches', k)
    BY <2>4, <2>5 DEF Same
  <2>7. QED
    BY <1>8, <1>9, <1>14, <2>3, <2>4, <2>5, <2>6
<1>15. ASSUME ~OuterLive PROVE UNCHANGED <<code, err>>
  <2>1. ~State /\ GetCurrentActive = -3
    BY <1>8, <1>11, <1>15
  <2>2. QED
    BY <1>1, <2>1 DEF Break
<1>16. /\ Len(cond') = g.at.cond + 1 /\ cond' # <<>> /\ Same(cond, cond', g.at.cond)
       /\ Last(cond') = cond[g.at.cond + 1] /\ cond'[g.at.cond + 1] = cond[g.at.cond + 1]
  <2>1. PICK h \in Nat : h = g.at.cond
    BY <1>10
  <2>2. Len(cond') = h + 1 /\ Same(cond, cond', h + 1)
    <3>1. CASE OuterLive
      <4>1. h + 1 \in Nat /\ Len(cond) = (h + 1) + 1 /\ cond' = Pop(cond)
        BY <1>9, <1>13, <2>1, <3>1
      <4>2. QED
        BY <1>0, <4>1, CondPopped
    <3>2. CASE ~OuterLive
      <4>1. cond' = cond /\ Len(cond) = h + 1
        BY <1>9, <1>15, <2>1, <3>2 DEF code
      <4>2. QED
        BY <4>1 DEF Same
    <3>3. QED
      BY <3>1, <3>2
  <2>3. Same(cond, cond', h) /\ cond'[h + 1] = cond[h + 1]
    BY <2>2 DEF Same
  <2>4. cond' # <<>> /\ Last(cond') = cond'[h + 1]
    BY <1>0, <2>2, TopEntry DEF CodeOK
  <2>5. QED
    BY <2>1, <2>2, <2>3, <2>4
<1>17. match' = match /\ brace' = brace /\ loops' = loops /\ marks' = marks /\ err' = "none"
       /\ (~OuterLive => switches' = switches)
  BY <1>1, <1>13, <1>15 DEF code
<1>18. /\ Same(brace, brace', g.at.brace) /\ Same(loops, loops', g.at.loops)
       /\ Same(switches, switches', g.at.switches) /\ Same(marks, marks', g.at.marks)
       /\ Same(match, match', g.at.match)
  <2>1. g.at.brace <= Len(brace) /\ g.at.loops <= Len(loops) /\ g.at.marks <= Len(marks) /\ g.at.match <= Len(match)
    <3>1. \A m \in Nat : m <= m /\ m <= m + 1
      OBVIOUS
    <3>2. QED
      BY <1>9, <1>10, <3>1, Zenon
  <2>2. Same(switches, switches', g.at.switches)
    <3>1. CASE OuterLive
      BY <1>14, <3>1
    <3>2. CASE ~OuterLive
      BY <1>9, <1>10, <1>17, <3>2 DEF Same
    <3>3. QED
      BY <3>1, <3>2
  <2>3. QED
    BY <1>17, <2>1, <2>2, SameBelow, Zenon
<1>19. f.at = Top.at /\ f.at = g.at
  BY <1>2, <1>6
<1>20. nest'[n] = f /\ (Outer(n)' <=> OuterLive) /\ At(n + 1)' = Heights' /\ (Own(n)' => PlainInv')
  BY <1>1, <1>4, <1>5, <1>7, <1>16, <1>17, <1>18, <1>19, Changed
<1>21. /\ Len(cond') = f.at.cond + (IF Outer(n)' /\ f.open THEN 2 ELSE 1)
       /\ cond'[f.at.cond + 1].active = (IF Outer(n)' THEN 1 ELSE -3)
       /\ cond'[f.at.cond + 1].state <=> Outer(n)'
       /\ Last(cond').state <=> f.live
  BY <1>6, <1>9, <1>16, <1>20
<1>22. /\ Len(match') = f.at.match /\ Len(brace') = f.at.brace + 1
       /\ Len(loops') = f.at.loops /\ Len(marks') = f.at.marks
       /\ Len(switches') = f.at.switches + (IF Outer(n)' THEN 1 ELSE 0)
       /\ Last(brace') = "ENDSWITCH"
  BY <1>6, <1>9, <1>14, <1>17, <1>20
<1>23. Outer(n)' => /\ Last(switches').val = f.val
                    /\ ~f.open => (Last(switches').matched <=> f.done)
                    /\ f.open => (Last(switches').matched \/ f.live <=> f.done)
                    /\ f.done /\ ~f.last => f.val \in f.seen
  BY <1>6, <1>9, <1>14, <1>20
<1>24. (f.live => Outer(n)') /\ (~f.open => (f.live <=> Outer(n)')) /\ f.kind = "switch" /\ ~f.open
  BY <1>1, <1>2, <1>6, <1>20
<1>25. Own(n)'
  BY <1>0, <1>5, <1>16, <1>20, <1>21, <1>22, <1>23, <1>24, OwnSwitch
<1>26. QED
  BY <1>20, <1>25

(* The while token of the innermost loop, reached again.                   *)
LEMMA ChangeWhileAgain ==
  ASSUME PlainInv, TypeOK', NEW c \in BOOLEAN, DoWhileAgain(c)
  PROVE  PlainInv'
<1>0. CodeOK /\ NestOK /\ CodeOK' /\ NestOK'
  BY DEF PlainInv, TypeOK, CodeOK, NestOK
<1>1. nest # <<>> /\ Top.kind = "while" /\ ~Top.open /\ While(c, FALSE) /\ err = "none"
  BY DEF DoWhileAgain, In, PlainInv, NoErrorReported
<1>2. PICK g \in Frames : g = Top
  BY <1>0, <1>1, TopType
<1>3. PICK f : f = [g EXCEPT !.live = c, !.open = TRUE]
  OBVIOUS
<1>4. SetTop(f)
  BY <1>2, <1>3 DEF DoWhileAgain
<1>5. f \in Frames
  BY <1>0, <1>3, TopType DEF Frames
<1>6. f.kind = g.kind /\ f.at = g.at /\ f.open /\ (f.live <=> c)
  BY <1>3 DEF Frames
<1>7. PICK n \in Nat \ {0} : n = Len(nest)
  BY <1>0, <1>1, TopOfStack DEF NestOK
<1>8. /\ Len(cond) = g.at.cond + 1 /\ Len(match) = g.at.match
      /\ Len(brace) = g.at.brace + 1
      /\ Len(loops) = g.at.loops + 1
      /\ Len(switches) = g.at.switches /\ Len(marks) = g.at.marks
      /\ cond # <<>> /\ brace # <<>> /\ Last(brace) = "ENDWHILE"
      /\ loops # <<>> /\ Last(loops) = n
  BY <1>1, <1>2, <1>7, TopWhile
<1>9. State /\ OuterLive
  BY <1>1, <1>7, TopOwn, TopWhile
<1>10. /\ g.at.cond \in Nat /\ g.at.match \in Nat /\ g.at.brace \in Nat
       /\ g.at.loops \in Nat /\ g.at.switches \in Nat /\ g.at.marks \in Nat
  BY DEF Frames
<1>11. PICK e : e = Entry(c, -4)
  OBVIOUS
<1>12. e \in Entries
  BY <1>11 DEF Entry, Entries
<1>13. (e.state <=> c) /\ e.active = -4
  BY <1>11 DEF Entry
<1>14. /\ cond' = Append(Pop(cond), e)
       /\ loops' = IF c THEN loops ELSE Pop(loops)
       /\ UNCHANGED <<brace, match, switches, marks>> /\ err' = "none"
  BY <1>1, <1>8, <1>9, <1>11 DEF While, CondChange, Pop
<1>15. /\ Len(cond') = g.at.cond + 1 /\ Last(cond') = e /\ cond' # <<>>
       /\ Same(cond, cond', g.at.cond)
  <2>1. PICK h \in Nat : h = g.at.cond
    BY <1>10
  <2>2. Len(cond') = h + 1 /\ Last(cond') = e /\ cond' # <<>> /\ Same(cond, cond', h)
    BY <1>0, <1>8, <1>12, <1>14, <2>1, CondReplaced
  <2>3. QED
    BY <2>1, <2>2
<1>16. /\ Len(loops') = g.at.loops + (IF c THEN 1 ELSE 0) /\ (c => Last(loops') = n)
       /\ Same(loops, loops', g.at.loops)
  <2>1. PICK h \in Nat : h = g.at.loops
    BY <1>10
  <2>2. PICK W : W = 1..MaxDepth
    OBVIOUS
  <2>3. loops \in Seq(W) /\ Len(loops) = h + 1
    BY <1>0, <1>8, <2>1, <2>2 DEF CodeOK
  <2>4. CASE c
    BY <1>8, <1>14, <2>1, <2>3, <2>4 DEF Same
  <2>5. CASE ~c
    <3>1. Len(Pop(loops)) = h /\ Same(loops, Pop(loops), h)
      BY <2>1, <2>3, Popped, Zenon
    <3>2. QED
      BY <1>14, <2>1, <2>5, <3>1
  <2>6. QED
    BY <2>4, <2>5
<1>17. match' = match /\ brace' = brace /\ switches' = switches /\ marks' = marks /\ err' = "none"
  BY <1>14
<1>18. /\ Same(brace, brace', g.at.brace)
       /\ Same(switches, switches', g.at.switches) /\ Same(marks, marks', g.at.marks)
       /\ Same(match, match', g.at.match)
  <2>1. /\ g.at.brace <= Len(brace) /\ g.at.switches <= Len(switches)
        /\ g.at.marks <= Len(marks) /\ g.at.match <= Len(match)
    <3>1. \A m \in Nat : m <= m /\ m <= m + 1
      OBVIOUS
    <3>2. QED
      BY <1>8, <1>10, <3>1, Zenon
  <2>2. QED
    BY <1>17, <2>1, SameBelow, Zenon
<1>19. f.at = Top.at /\ f.at = g.at
  BY <1>2, <1>6
<1>20. nest'[n] = f /\ (Outer(n)' <=> OuterLive) /\ At(n + 1)' = Heights' /\ (Own(n)' => PlainInv')
  BY <1>1, <1>4, <1>5, <1>7, <1>15, <1>16, <1>17, <1>18, <1>19, Changed
<1>21. /\ Len(cond') = f.at.cond + 1 /\ Len(match') = f.at.match
       /\ Len(brace') = f.at.brace + 1 /\ Len(loops') = f.at.loops + (IF f.live THEN 1 ELSE 0)
       /\ Len(switches') = f.at.switches /\ Len(marks') = f.at.marks
  BY <1>6, <1>8, <1>15, <1>16, <1>17
<1>22. /\ Last(cond').state <=> f.live
       /\ Last(cond').active = -4 /\ (f.live => Last(loops') = n) /\ Last(brace') = "ENDWHILE"
       /\ f.live => Outer(n)'
  BY <1>6, <1>8, <1>9, <1>13, <1>15, <1>16, <1>17, <1>20
<1>23. f.kind = "while" /\ f.open
  BY <1>1, <1>2, <1>6
<1>24. Own(n)'
  BY <1>0, <1>5, <1>7, <1>15, <1>20, <1>21, <1>22, <1>23, OwnWhile
<1>25. QED
  BY <1>20, <1>24

-----------------------------------------------------------------------------
(* The constructs, closed. *)

(* Either closing token ends the innermost construct, and leads where it   *)
(* should.                                                                 *)
LEMMA CloseEnds ==
  ASSUME PlainInv, NEW kind \in Inner, nest # <<>>, Top.kind = kind, Close(kind)
  PROVE  End(EndToken[kind])
<1>0. CodeOK /\ NestOK
  BY DEF PlainInv, TypeOK, CodeOK, NestOK
<1>1. PICK n \in Nat \ {0} : n = Len(nest)
  BY <1>0, TopOfStack DEF NestOK
<1>2. EndToken[kind] \in {"ENDIF", "ENDSWITCH", "ENDWHILE"}
  BY DEF EndToken, Inner
<1>3. BraceToken = EndToken[kind]
  <2>1. brace # <<>> /\ Last(brace) = EndToken[kind]
    BY TopIf, TopSwitch, TopWhile DEF EndToken, Inner
  <2>2. QED
    BY <2>1 DEF BraceToken
<1>4. PICK token \in Tokens(kind) :
        CASE JumpTarget(token) # PageTarget(kind) -> Report("wrong jump")
          [] JumpTarget(token) = PageTarget(kind) /\ token = "}" -> Report("parse error")
          [] OTHER -> End(token)
  BY DEF Close
<1>5. token = EndToken[kind]
  BY <1>3 DEF Tokens
<1>6. JumpTarget(EndToken[kind]) = PageTarget(kind)
  <2>1. CASE kind = "while"
    <3>1. (State <=> Top.live) /\ (Live <=> Top.live)
      BY <1>1, TopOwn
    <3>2. cond # <<>> /\ Last(cond).active = -4 /\ (Top.live => loops # <<>> /\ Last(loops) = n)
      BY <1>1, <2>1, TopWhile
    <3>3. JumpsBack <=> Top.live
      BY <3>1, <3>2, Zenon DEF JumpsBack, Active
    <3>4. QED
      BY <1>1, <2>1, <3>1, <3>2, <3>3 DEF JumpTarget, PageTarget, EndToken
  <2>2. CASE kind # "while"
    BY <2>2 DEF JumpTarget, PageTarget, EndToken, Inner
  <2>3. QED
    BY <2>1, <2>2
<1>7. QED
  BY <1>2, <1>4, <1>5, <1>6

(* What an endwhile that jumps back leaves: everything but the text.       *)
LEMMA ChangeEndWhile ==
  ASSUME PlainInv, TypeOK', DoEndWhile, Top.live
  PROVE  PlainInv'
<1>0. CodeOK /\ NestOK /\ CodeOK' /\ NestOK'
  BY DEF PlainInv, TypeOK, CodeOK, NestOK
<1>1. nest # <<>> /\ Top.kind = "while" /\ Close("while") /\ err = "none"
  BY DEF DoEndWhile, In, PlainInv, NoErrorReported
<1>2. PICK g \in Frames : g = Top
  BY <1>0, <1>1, TopType
<1>3. PICK f : f = [g EXCEPT !.open = FALSE]
  OBVIOUS
<1>4. SetTop(f)
  BY <1>2, <1>3 DEF DoEndWhile
<1>5. f \in Frames
  BY <1>0, <1>3, TopType DEF Frames
<1>6. f.kind = g.kind /\ f.at = g.at /\ (f.live <=> g.live)
  BY <1>3 DEF Frames
<1>7. PICK n \in Nat \ {0} : n = Len(nest)
  BY <1>0, <1>1, TopOfStack DEF NestOK
<1>8. /\ Len(cond) = g.at.cond + 1 /\ Len(match) = g.at.match
      /\ Len(brace) = g.at.brace + 1
      /\ Len(loops) = g.at.loops + 1
      /\ Len(switches) = g.at.switches /\ Len(marks) = g.at.marks
      /\ cond # <<>> /\ brace # <<>> /\ Last(brace) = "ENDWHILE"
      /\ loops # <<>> /\ Last(loops) = n /\ Last(cond).active = -4
  BY <1>1, <1>2, <1>7, TopWhile
<1>9. State /\ OuterLive
  BY <1>1, <1>7, TopOwn
<1>10. /\ g.at.cond \in Nat /\ g.at.match \in Nat /\ g.at.brace \in Nat
       /\ g.at.loops \in Nat /\ g.at.switches \in Nat /\ g.at.marks \in Nat
  BY DEF Frames
<1>11. UNCHANGED <<code, err>>
  <2>1. EndWhile
    BY <1>1, CloseEnds DEF End, EndToken, Inner
  <2>2. Active = -4
    BY <1>8 DEF Active
  <2>3. JumpsBack
    BY <1>8, <1>9, <2>2 DEF JumpsBack
  <2>4. QED
    BY <1>8, <1>9, <2>1, <2>2, <2>3 DEF EndWhile
<1>12. cond' = cond /\ match' = match /\ brace' = brace /\ loops' = loops /\ switches' = switches
       /\ marks' = marks /\ err' = "none"
  BY <1>1, <1>11 DEF code
<1>13. /\ Same(brace, brace', g.at.brace) /\ Same(cond, cond', g.at.cond)
       /\ Same(switches, switches', g.at.switches) /\ Same(marks, marks', g.at.marks)
       /\ Same(match, match', g.at.match) /\ Same(loops, loops', g.at.loops)
  <2>1. /\ g.at.brace <= Len(brace) /\ g.at.switches <= Len(switches)
        /\ g.at.marks <= Len(marks) /\ g.at.match <= Len(match)
        /\ g.at.cond <= Len(cond) /\ g.at.loops <= Len(loops)
    <3>1. \A m \in Nat : m <= m /\ m <= m + 1
      OBVIOUS
    <3>2. QED
      BY <1>8, <1>10, <3>1, Zenon
  <2>2. QED
    BY <1>12, <2>1, SameBelow, Zenon
<1>14. f.at = Top.at /\ f.at = g.at
  BY <1>2, <1>6
<1>15. nest'[n] = f /\ (Outer(n)' <=> OuterLive) /\ At(n + 1)' = Heights' /\ (Own(n)' => PlainInv')
  BY <1>1, <1>4, <1>5, <1>7, <1>12, <1>13, <1>14, Changed
<1>16. /\ Len(cond') = f.at.cond + 1 /\ Len(match') = f.at.match
       /\ Len(brace') = f.at.brace + 1 /\ Len(loops') = f.at.loops + (IF f.live THEN 1 ELSE 0)
       /\ Len(switches') = f.at.switches /\ Len(marks') = f.at.marks
  BY <1>2, <1>6, <1>8, <1>12
<1>17. /\ Last(cond').state <=> f.live
       /\ Last(cond').active = -4 /\ (f.live => Last(loops') = n) /\ Last(brace') = "ENDWHILE"
       /\ (f.live => Outer(n)') /\ cond' # <<>>
  BY <1>2, <1>6, <1>8, <1>9, <1>12, <1>15 DEF State
<1>18. f.kind = "while" /\ f.live
  BY <1>1, <1>2, <1>6
<1>19. Own(n)'
  BY <1>0, <1>5, <1>7, <1>15, <1>16, <1>17, <1>18, OwnWhile
<1>20. QED
  BY <1>15, <1>19

(* match without its top.                                                 *)
LEMMA MatchPopped ==
  ASSUME CodeOK, NEW h \in Nat, Len(match) = h + 1, match' = Pop(match)
  PROVE  Len(match') = h /\ match # <<>> /\ Same(match, match', h)
<1>1. PICK W : W = BOOLEAN
  OBVIOUS
<1>2. match \in Seq(W) /\ h \in Nat
  BY <1>1 DEF CodeOK
<1>3. QED
  BY <1>2, Popped, Zenon

(* brace without its top.                                                 *)
LEMMA BracePopped ==
  ASSUME CodeOK, NEW h \in Nat, Len(brace) = h + 1, brace' = Pop(brace)
  PROVE  Len(brace') = h /\ brace # <<>> /\ Same(brace, brace', h)
<1>1. PICK W : W = {"ENDIF", "ENDSWITCH", "ENDWHILE"}
  OBVIOUS
<1>2. brace \in Seq(W) /\ h \in Nat
  BY <1>1 DEF CodeOK
<1>3. QED
  BY <1>2, Popped, Zenon

(* switches without its top.                                              *)
LEMMA SwitchesPopped ==
  ASSUME CodeOK, NEW h \in Nat, Len(switches) = h + 1, switches' = Pop(switches)
  PROVE  Len(switches') = h /\ switches # <<>> /\ Same(switches, switches', h)
<1>1. PICK W : W = [val : Vals, matched : BOOLEAN]
  OBVIOUS
<1>2. switches \in Seq(W) /\ h \in Nat
  BY <1>1 DEF CodeOK
<1>3. QED
  BY <1>2, Popped, Zenon

(* marks without its top.                                                 *)
LEMMA MarksPopped ==
  ASSUME CodeOK, NEW h \in Nat, Len(marks) = h + 1, marks' = Pop(marks)
  PROVE  Len(marks') = h /\ marks # <<>> /\ Same(marks, marks', h)
<1>1. PICK W : W = [cond : Nat, match : Nat]
  OBVIOUS
<1>2. marks \in Seq(W) /\ h \in Nat
  BY <1>1 DEF CodeOK
<1>3. QED
  BY <1>2, Popped, Zenon

(* What follows from LeaveKeeps when the stacks are as high as they were.  *)
LEMMA Left ==
  ASSUME PlainInv, TypeOK', err' = "none", nest # <<>>, nest' = SubSeq(nest, 1, Len(nest) - 1),
         NEW g \in Frames, g = Top,
         Len(cond') = g.at.cond, Len(match') = g.at.match, Len(brace') = g.at.brace,
         Len(loops') = g.at.loops, Len(switches') = g.at.switches, Len(marks') = g.at.marks,
         Same(cond, cond', g.at.cond), Same(match, match', g.at.match),
         Same(brace, brace', g.at.brace), Same(loops, loops', g.at.loops),
         Same(switches, switches', g.at.switches), Same(marks, marks', g.at.marks)
  PROVE  PlainInv' /\ Heights' = nest[Len(nest') + 1].at
<1>0. CodeOK /\ NestOK /\ CodeOK' /\ NestOK'
  BY DEF PlainInv, TypeOK, CodeOK, NestOK
<1>1. Heights' = g.at
  BY DEF Heights, Frames
<1>2. Agree(g.at)
  BY DEF Agree
<1>3. PlainInv'
  BY <1>1, <1>2, LeaveKeeps
<1>4. PICK n \in Nat \ {0} : n = Len(nest)
  BY <1>0, TopOfStack DEF NestOK
<1>5. PICK k \in Nat : k = n - 1
  BY SMT
<1>6. Len(nest') = k /\ k + 1 = n
  BY <1>0, <1>4, <1>5, CutStack DEF NestOK
<1>7. nest[n] = g
  BY <1>0, <1>4, TopOfStack DEF NestOK, Top
<1>8. QED
  BY <1>1, <1>3, <1>6, <1>7

(* What a construct that has pushed nothing on a stack finds there.        *)
LEMMA Untouched ==
  ASSUME NEW s, NEW t, NEW h \in Nat, Len(s) = h, t = s
  PROVE  Len(t) = h /\ Same(s, t, h)
BY DEF Same

(* endif pops what if pushed.                                              *)
LEMMA CloseIf ==
  ASSUME PlainInv, TypeOK', DoEndIf
  PROVE  PlainInv' /\ Heights' = nest[Len(nest') + 1].at
<1>0. CodeOK /\ NestOK
  BY DEF PlainInv, TypeOK, CodeOK, NestOK
<1>1. nest # <<>> /\ Top.kind = "if" /\ Close("if") /\ err = "none"
      /\ nest' = SubSeq(nest, 1, Len(nest) - 1)
  BY DEF DoEndIf, In, Leave, Front, PlainInv, NoErrorReported
<1>2. PICK g \in Frames : g = Top
  BY <1>0, <1>1, TopType
<1>3. /\ Len(cond) = g.at.cond + 1 /\ Len(match) = g.at.match + 1
      /\ Len(brace) = g.at.brace + 1 /\ Len(loops) = g.at.loops
      /\ Len(switches) = g.at.switches /\ Len(marks) = g.at.marks
  BY <1>1, <1>2, TopIf
<1>4. /\ g.at.cond \in Nat /\ g.at.match \in Nat /\ g.at.brace \in Nat
      /\ g.at.loops \in Nat /\ g.at.switches \in Nat /\ g.at.marks \in Nat
  BY DEF Frames
<1>5. EndIf
  BY <1>1, CloseEnds DEF End, EndToken, Inner
<1>6. /\ Len(cond') = g.at.cond /\ Same(cond, cond', g.at.cond)
      /\ Len(match') = g.at.match /\ Same(match, match', g.at.match) /\ match # <<>>
      /\ Len(brace') = g.at.brace /\ Same(brace, brace', g.at.brace) /\ brace # <<>>
  BY <1>0, <1>3, <1>4, <1>5, CondPopped, MatchPopped, BracePopped DEF EndIf
<1>7. loops' = loops /\ switches' = switches /\ marks' = marks /\ err' = "none"
  BY <1>1, <1>5, <1>6 DEF EndIf
<1>8. /\ Len(loops') = g.at.loops /\ Same(loops, loops', g.at.loops)
      /\ Len(switches') = g.at.switches /\ Same(switches, switches', g.at.switches)
      /\ Len(marks') = g.at.marks /\ Same(marks, marks', g.at.marks)
  BY <1>3, <1>4, <1>7, Untouched, Zenon
<1>9. QED
  BY <1>1, <1>2, <1>6, <1>7, <1>8, Left

(* So does endswitch, which comes after the last break,                    *)
LEMMA CloseSwitch ==
  ASSUME PlainInv, PlainPages, TypeOK', DoEndSwitch
  PROVE  PlainInv' /\ Heights' = nest[Len(nest') + 1].at
<1>0. CodeOK /\ NestOK
  BY DEF PlainInv, TypeOK, CodeOK, NestOK
<1>1. nest # <<>> /\ Top.kind = "switch" /\ Close("switch") /\ err = "none" /\ ~Top.open
      /\ nest' = SubSeq(nest, 1, Len(nest) - 1)
  BY DEF DoEndSwitch, In, Leave, Front, PlainInv, NoErrorReported, PlainPages
<1>2. PICK g \in Frames : g = Top
  BY <1>0, <1>1, TopType
<1>3. /\ Len(cond) = g.at.cond + 1 /\ Len(match) = g.at.match
      /\ Len(brace) = g.at.brace + 1 /\ Len(loops) = g.at.loops
      /\ Len(switches) = g.at.switches + (IF OuterLive THEN 1 ELSE 0) /\ Len(marks) = g.at.marks
      /\ cond # <<>> /\ Last(cond).active = IF ~OuterLive THEN -3 ELSE 1
      /\ g.live <=> OuterLive
  BY <1>1, <1>2, TopSwitch
<1>4. /\ g.at.cond \in Nat /\ g.at.match \in Nat /\ g.at.brace \in Nat
      /\ g.at.loops \in Nat /\ g.at.switches \in Nat /\ g.at.marks \in Nat
  BY DEF Frames
<1>5. EndSwitch
  BY <1>1, CloseEnds DEF End, EndToken, Inner
<1>6. State <=> OuterLive
  <2>1. PICK n \in Nat \ {0} : n = Len(nest)
    BY <1>0, <1>1, TopOfStack DEF NestOK
  <2>2. State <=> Top.live
    BY <1>1, <2>1, TopOwn
  <2>3. QED
    BY <1>2, <1>3, <2>2
<1>7. /\ Active = (IF ~OuterLive THEN -3 ELSE 1) /\ GetCurrentActive = (IF ~OuterLive THEN -3 ELSE 1)
  BY <1>3, Zenon DEF Active, GetCurrentActive
<1>8. /\ cond' = Pop(cond) /\ brace' = Pop(brace)
      /\ switches' = IF OuterLive THEN Pop(switches) ELSE switches
      /\ err' = IF brace = <<>> THEN "reported" ELSE err
      /\ UNCHANGED <<match, loops, marks>>
  <2>1. State \/ GetCurrentActive \in {-2, -3}
    BY <1>6, <1>7
  <2>2. Active = -3 <=> ~OuterLive
    BY <1>7
  <2>3. QED
    BY <1>5, <2>1, <2>2 DEF EndSwitch
<1>9. /\ Len(cond') = g.at.cond /\ Same(cond, cond', g.at.cond)
      /\ Len(brace') = g.at.brace /\ Same(brace, brace', g.at.brace) /\ brace # <<>>
  BY <1>0, <1>3, <1>4, <1>8, CondPopped, BracePopped
<1>10. Len(switches') = g.at.switches /\ Same(switches, switches', g.at.switches)
  <2>1. CASE OuterLive
    BY <1>0, <1>3, <1>4, <1>8, <2>1, SwitchesPopped
  <2>2. CASE ~OuterLive
    BY <1>3, <1>4, <1>8, <2>2 DEF Same
  <2>3. QED
    BY <2>1, <2>2
<1>11. match' = match /\ loops' = loops /\ marks' = marks /\ err' = "none"
  BY <1>1, <1>8, <1>9
<1>12. /\ Len(loops') = g.at.loops /\ Same(loops, loops', g.at.loops)
       /\ Len(match') = g.at.match /\ Same(match, match', g.at.match)
       /\ Len(marks') = g.at.marks /\ Same(marks, marks', g.at.marks)
  BY <1>3, <1>4, <1>11, Untouched, Zenon
<1>13. QED
  BY <1>1, <1>2, <1>9, <1>10, <1>11, <1>12, Left

(* endwhile of a loop that is not live,                                    *)
LEMMA CloseWhile ==
  ASSUME PlainInv, TypeOK', DoEndWhile, ~Top.live
  PROVE  PlainInv' /\ Heights' = nest[Len(nest') + 1].at
<1>0. CodeOK /\ NestOK
  BY DEF PlainInv, TypeOK, CodeOK, NestOK
<1>1. nest # <<>> /\ Top.kind = "while" /\ Close("while") /\ err = "none"
      /\ nest' = SubSeq(nest, 1, Len(nest) - 1)
  BY DEF DoEndWhile, In, Leave, Front, PlainInv, NoErrorReported
<1>2. PICK g \in Frames : g = Top
  BY <1>0, <1>1, TopType
<1>3. /\ Len(cond) = g.at.cond + 1 /\ Len(match) = g.at.match
      /\ Len(brace) = g.at.brace + 1 /\ Len(loops) = g.at.loops + 0
      /\ Len(switches) = g.at.switches /\ Len(marks) = g.at.marks
      /\ cond # <<>> /\ Last(cond).active = -4
  BY <1>1, <1>2, TopWhile
<1>4. /\ g.at.cond \in Nat /\ g.at.match \in Nat /\ g.at.brace \in Nat
      /\ g.at.loops \in Nat /\ g.at.switches \in Nat /\ g.at.marks \in Nat
  BY DEF Frames
<1>5. EndWhile
  BY <1>1, CloseEnds DEF End, EndToken, Inner
<1>6. ~State
  <2>1. PICK n \in Nat \ {0} : n = Len(nest)
    BY <1>0, <1>1, TopOfStack DEF NestOK
  <2>2. QED
    BY <1>1, <2>1, TopOwn
<1>7. GetCurrentActive = -4
  BY <1>3, Zenon DEF GetCurrentActive
<1>8. /\ cond' = Pop(cond) /\ brace' = Pop(brace)
      /\ err' = IF brace = <<>> THEN "reported" ELSE err
      /\ UNCHANGED <<match, loops, switches, marks>>
  <2>1. ~JumpsBack
    BY <1>6 DEF JumpsBack
  <2>2. QED
    BY <1>3, <1>5, <1>6, <1>7, <2>1 DEF EndWhile
<1>9. /\ Len(cond') = g.at.cond /\ Same(cond, cond', g.at.cond)
      /\ Len(brace') = g.at.brace /\ Same(brace, brace', g.at.brace) /\ brace # <<>>
  BY <1>0, <1>3, <1>4, <1>8, CondPopped, BracePopped
<1>10. match' = match /\ loops' = loops /\ switches' = switches /\ marks' = marks /\ err' = "none"
  BY <1>1, <1>8, <1>9
<1>11. Len(loops) = g.at.loops
  BY <1>3, <1>4
<1>12. /\ Len(loops') = g.at.loops /\ Same(loops, loops', g.at.loops)
       /\ Len(match') = g.at.match /\ Same(match, match', g.at.match)
       /\ Len(switches') = g.at.switches /\ Same(switches, switches', g.at.switches)
       /\ Len(marks') = g.at.marks /\ Same(marks, marks', g.at.marks)
  BY <1>3, <1>4, <1>10, <1>11, Untouched, Zenon
<1>13. QED
  BY <1>1, <1>2, <1>9, <1>10, <1>12, Left

(* and the end of a function body, which is thereby defined.               *)
LEMMA CloseFunc ==
  ASSUME PlainInv, TypeOK', DoEndFunc
  PROVE  PlainInv' /\ Heights' = nest[Len(nest') + 1].at
<1>0. CodeOK /\ NestOK
  BY DEF PlainInv, TypeOK, CodeOK, NestOK
<1>1. nest # <<>> /\ Top.kind = "func" /\ DefineFunc /\ err = "none"
      /\ nest' = SubSeq(nest, 1, Len(nest) - 1)
  BY DEF DoEndFunc, In, Leave, Front, PlainInv, NoErrorReported
<1>2. PICK g \in Frames : g = Top
  BY <1>0, <1>1, TopType
<1>3. /\ Len(cond) = g.at.cond + 1 /\ Len(match) = g.at.match
      /\ Len(brace) = g.at.brace /\ Len(loops) = g.at.loops
      /\ Len(switches) = g.at.switches /\ Len(marks) = g.at.marks
      /\ cond # <<>> /\ Last(cond).active = -6
  BY <1>1, <1>2, TopFunc
<1>4. /\ g.at.cond \in Nat /\ g.at.match \in Nat /\ g.at.brace \in Nat
      /\ g.at.loops \in Nat /\ g.at.switches \in Nat /\ g.at.marks \in Nat
  BY DEF Frames
<1>5. GetCurrentActive = -6
  BY <1>3, Zenon DEF GetCurrentActive
<1>6. cond' = Pop(cond) /\ UNCHANGED <<match, brace, loops, switches, marks, err>>
  BY <1>1, <1>5 DEF DefineFunc
<1>7. Len(cond') = g.at.cond /\ Same(cond, cond', g.at.cond)
  BY <1>0, <1>3, <1>4, <1>6, CondPopped
<1>8. match' = match /\ brace' = brace /\ loops' = loops /\ switches' = switches /\ marks' = marks
      /\ err' = "none"
  BY <1>1, <1>6
<1>9. /\ Len(loops') = g.at.loops /\ Same(loops, loops', g.at.loops)
      /\ Len(match') = g.at.match /\ Same(match, match', g.at.match)
      /\ Len(brace') = g.at.brace /\ Same(brace, brace', g.at.brace)
      /\ Len(switches') = g.at.switches /\ Same(switches, switches', g.at.switches)
      /\ Len(marks') = g.at.marks /\ Same(marks, marks', g.at.marks)
  BY <1>3, <1>4, <1>8, Untouched, Zenon
<1>10. QED
  BY <1>1, <1>2, <1>7, <1>8, <1>9, Left

(* Unwinding to the height a stack has changes nothing.                    *)
LEMMA Unwound ==
  ASSUME NEW S, NEW s, NEW t, NEW h, s \in Seq(S), h \in Nat, Len(s) = h, t = Unwind(s, h)
  PROVE  Len(t) = h /\ Same(s, t, h)
<1>1. t = SubSeq(s, 1, h)
  BY DEF Unwind
<1>2. Len(t) = h /\ \A i \in 1..h : t[i] = s[i]
  BY <1>1, CutStack
<1>3. QED
  BY <1>2 DEF Same

(* On a plain page a return stands in no other construct of its function,  *)
(* so there is nothing to unwind.                                          *)
LEMMA CloseCall ==
  ASSUME PlainInv, PlainPages, TypeOK', DoReturn
  PROVE  PlainInv' /\ Heights' = nest[Len(nest') + 1].at
<1>0. CodeOK /\ NestOK
  BY DEF PlainInv, TypeOK, CodeOK, NestOK
<1>1. PICK i \in 1..Len(nest) :
        /\ nest[i].kind = "call"
        /\ \A j \in (i + 1)..Len(nest) : nest[j].kind \in ReturnFrom
        /\ nest' = SubSeq(nest, 1, i - 1)
  <2>1. DOMAIN nest = 1..Len(nest)
    BY <1>0, LenProperties DEF NestOK
  <2>2. QED
    BY <2>1 DEF DoReturn
<1>2. i = Len(nest) /\ Len(nest) \in Nat
  <2>1. Len(nest) \in Nat
    BY <1>0, TopType
  <2>2. i # Len(nest) => i + 1 \in (i + 1)..Len(nest)
    BY <2>1
  <2>3. QED
    BY <1>1, <2>1, <2>2 DEF PlainPages
<1>3. nest # <<>> /\ nest' = SubSeq(nest, 1, Len(nest) - 1)
  BY <1>1, <1>2, EmptySeq
<1>4. Top.kind = "call"
  BY <1>1, <1>2 DEF Top, Last
<1>5. PICK g \in Frames : g = Top
  BY <1>0, <1>3, TopType
<1>6. /\ Len(cond) = g.at.cond /\ Len(match) = g.at.match
      /\ Len(brace) = g.at.brace /\ Len(loops) = g.at.loops
      /\ Len(switches) = g.at.switches /\ Len(marks) = g.at.marks + 1
      /\ Last(marks).cond = Len(cond) /\ Last(marks).match = Len(match)
  BY <1>3, <1>4, <1>5, TopCall
<1>7. /\ g.at.cond \in Nat /\ g.at.match \in Nat /\ g.at.brace \in Nat
      /\ g.at.loops \in Nat /\ g.at.switches \in Nat /\ g.at.marks \in Nat
  BY DEF Frames
<1>8. /\ cond' = Unwind(cond, Len(cond)) /\ match' = Unwind(match, Len(match))
      /\ marks' = Pop(marks) /\ UNCHANGED <<brace, loops, switches, err>>
  BY <1>6 DEF DoReturn, PopCondMatchMarks
<1>9. /\ Len(cond') = g.at.cond /\ Same(cond, cond', g.at.cond)
  <2>1. PICK W, h : W = Entries /\ h = g.at.cond
    OBVIOUS
  <2>2. cond \in Seq(W) /\ h \in Nat /\ Len(cond) = h /\ cond' = Unwind(cond, h)
    BY <1>0, <1>6, <1>7, <1>8, <2>1 DEF CodeOK
  <2>3. Len(cond') = h /\ Same(cond, cond', h)
    BY <2>2, Unwound, Zenon
  <2>4. QED
    BY <2>1, <2>3
<1>10. /\ Len(match') = g.at.match /\ Same(match, match', g.at.match)
  <2>1. PICK W, h : W = BOOLEAN /\ h = g.at.match
    OBVIOUS
  <2>2. match \in Seq(W) /\ h \in Nat /\ Len(match) = h /\ match' = Unwind(match, h)
    BY <1>0, <1>6, <1>7, <1>8, <2>1 DEF CodeOK
  <2>3. Len(match') = h /\ Same(match, match', h)
    BY <2>2, Unwound, Zenon
  <2>4. QED
    BY <2>1, <2>3
<1>11. Len(marks') = g.at.marks /\ Same(marks, marks', g.at.marks)
  BY <1>0, <1>6, <1>7, <1>8, MarksPopped
<1>12. brace' = brace /\ loops' = loops /\ switches' = switches /\ err' = "none"
  BY <1>8 DEF PlainInv, NoErrorReported
<1>13. /\ Len(loops') = g.at.loops /\ Same(loops, loops', g.at.loops)
       /\ Len(brace') = g.at.brace /\ Same(brace, brace', g.at.brace)
       /\ Len(switches') = g.at.switches /\ Same(switches, switches', g.at.switches)
  BY <1>6, <1>7, <1>12, Untouched, Zenon
<1>14. QED
  BY <1>3, <1>5, <1>9, <1>10, <1>11, <1>12, <1>13, Left

-----------------------------------------------------------------------------
(* The invariant, and what follows from it. *)

(* A construct is added to those open,                                     *)
LEMMA Longer ==
  ASSUME NestOK, NEW x, nest' = Append(nest, x)
  PROVE  ~(Len(nest') < Len(nest))
BY LenProperties DEF NestOK

(* or the innermost one is changed: none is left.                          *)
LEMMA SameLength ==
  ASSUME NestOK, NestOK', NEW x, SetTop(x)
  PROVE  ~(Len(nest') < Len(nest))
<1>1. /\ Len(nest) \in Nat /\ DOMAIN nest = 1..Len(nest)
      /\ Len(nest') \in Nat /\ DOMAIN nest' = 1..Len(nest')
  BY LenProperties DEF NestOK
<1>2. DOMAIN nest' = DOMAIN nest
  BY DEF SetTop
<1>3. QED
  BY <1>1, <1>2

(* Every token of a plain page keeps the invariant, and one that leaves a  *)
(* construct leaves the stacks as high as they were before it.             *)
LEMMA PlainStep ==
  ASSUME PlainInv, PlainPages, Next
  PROVE  /\ PlainInv'
         /\ Len(nest') < Len(nest) => Heights' = nest[Len(nest') + 1].at
<1>0. TypeOK' /\ NestOK /\ NestOK'
  BY TypeStep DEF PlainInv, TypeOK, NestOK
<1>1. ASSUME NEW c \in BOOLEAN, DoIf(c) PROVE PlainInv' /\ ~(Len(nest') < Len(nest))
  <2>1. \E x : nest' = Append(nest, x)
    BY <1>1 DEF DoIf, Enter
  <2>2. QED
    BY <1>0, <1>1, <2>1, OpenIf, Longer
<1>2. ASSUME NEW c \in BOOLEAN, DoElseIf(c) PROVE PlainInv' /\ ~(Len(nest') < Len(nest))
  <2>1. \E x : SetTop(x)
    BY <1>2 DEF DoElseIf
  <2>2. QED
    BY <1>0, <1>2, <2>1, ChangeElseIf, SameLength
<1>3. ASSUME NEW c \in BOOLEAN, DoWhile(c) PROVE PlainInv' /\ ~(Len(nest') < Len(nest))
  <2>1. \E x : nest' = Append(nest, x)
    BY <1>3 DEF DoWhile, Enter
  <2>2. QED
    BY <1>0, <1>3, <2>1, OpenWhile, Longer
<1>4. ASSUME NEW c \in BOOLEAN, DoWhileAgain(c) PROVE PlainInv' /\ ~(Len(nest') < Len(nest))
  <2>1. \E x : SetTop(x)
    BY <1>4 DEF DoWhileAgain
  <2>2. QED
    BY <1>0, <1>4, <2>1, ChangeWhileAgain, SameLength
<1>5. ASSUME NEW v \in Vals, DoSwitch(v) PROVE PlainInv' /\ ~(Len(nest') < Len(nest))
  <2>1. \E x : nest' = Append(nest, x)
    BY <1>5 DEF DoSwitch, Enter
  <2>2. QED
    BY <1>0, <1>5, <2>1, OpenSwitch, Longer
<1>6. ASSUME NEW v \in Vals, DoCase(v) PROVE PlainInv' /\ ~(Len(nest') < Len(nest))
  <2>1. \E x : SetTop(x)
    BY <1>6 DEF DoCase
  <2>2. QED
    BY <1>0, <1>6, <2>1, ChangeCase, SameLength
<1>7. ASSUME DoElse PROVE PlainInv' /\ ~(Len(nest') < Len(nest))
  <2>1. \E x : SetTop(x)
    BY <1>7 DEF DoElse
  <2>2. QED
    BY <1>0, <1>7, <2>1, ChangeElse, SameLength
<1>8. ASSUME DoEndIf PROVE PlainInv' /\ Heights' = nest[Len(nest') + 1].at
  BY <1>0, <1>8, CloseIf
<1>9. ASSUME DoDefault PROVE PlainInv' /\ ~(Len(nest') < Len(nest))
  <2>1. \E x : SetTop(x)
    BY <1>9 DEF DoDefault
  <2>2. QED
    BY <1>0, <1>9, <2>1, ChangeDefault, SameLength
<1>10. ASSUME DoBreak PROVE PlainInv' /\ ~(Len(nest') < Len(nest))
  <2>1. \E x : SetTop(x)
    BY <1>10 DEF DoBreak
  <2>2. QED
    BY <1>0, <1>10, <2>1, ChangeBreak, SameLength
<1>11. ~DoBreakInside
  BY DEF DoBreakInside, PlainPages
<1>12. ASSUME DoEndSwitch PROVE PlainInv' /\ Heights' = nest[Len(nest') + 1].at
  BY <1>0, <1>12, CloseSwitch
<1>13. ASSUME DoEndWhile PROVE PlainInv' /\ (Len(nest') < Len(nest) => Heights' = nest[Len(nest') + 1].at)
  <2>1. CASE Top.live
    <3>1. \E x : SetTop(x)
      BY <1>13, <2>1 DEF DoEndWhile
    <3>2. QED
      BY <1>0, <1>13, <2>1, <3>1, ChangeEndWhile, SameLength
  <2>2. CASE ~Top.live
    BY <1>0, <1>13, <2>2, CloseWhile
  <2>3. QED
    BY <2>1, <2>2
<1>14. ASSUME DoFunc PROVE PlainInv' /\ ~(Len(nest') < Len(nest))
  <2>1. \E x : nest' = Append(nest, x)
    BY <1>14 DEF DoFunc, Enter
  <2>2. QED
    BY <1>0, <1>14, <2>1, OpenFunc, Longer
<1>15. ASSUME DoEndFunc PROVE PlainInv' /\ Heights' = nest[Len(nest') + 1].at
  BY <1>0, <1>15, CloseFunc
<1>16. ASSUME DoCall PROVE PlainInv' /\ ~(Len(nest') < Len(nest))
  <2>1. \E x : nest' = Append(nest, x)
    BY <1>16 DEF DoCall, Enter
  <2>2. QED
    BY <1>0, <1>16, <2>1, OpenCall, Longer
<1>17. ASSUME DoReturn PROVE PlainInv' /\ Heights' = nest[Len(nest') + 1].at
  BY <1>0, <1>17, CloseCall
<1>18. QED
  BY <1>1, <1>2, <1>3, <1>4, <1>5, <1>6, <1>7, <1>8, <1>9, <1>10, <1>11, <1>12, <1>13,
     <1>14, <1>15, <1>16, <1>17 DEF Next

(* The invariant holds before the first token,                             *)
LEMMA PlainStart == Init => PlainInv
<1> SUFFICES ASSUME Init PROVE PlainInv
  OBVIOUS
<1>1. TypeOK
  <2>1. \A S : <<>> \in Seq(S) /\ Len(<<>>) = 0
    BY EmptySeq
  <2>2. QED
    BY <2>1, ControlAssumption DEF Init, TypeOK
<1>2. Len(nest) = 0 /\ Len(cond) = 0
  BY EmptySeq DEF Init
<1>3. CodeOK
  BY <1>1 DEF TypeOK, CodeOK
<1>4. At(1) = Heights /\ Heights.cond = 0
  BY <1>2, <1>3, HeightsType DEF At
<1>5. Below(At(1), At(1))
  BY <1>4, <1>3, HeightsType DEF Below
<1>6. Stacked
  BY <1>2, <1>4, <1>5 DEF Stacked
<1>7. QED
  BY <1>1, <1>2, <1>6 DEF Init, PlainInv, NoErrorReported, OpenBelow

(* and stays true while nothing happens,                                   *)
LEMMA PlainStutter ==
  ASSUME PlainInv, UNCHANGED vars
  PROVE  PlainInv' /\ ~(Len(nest') < Len(nest))
<1>1. /\ cond' = cond /\ match' = match /\ brace' = brace /\ loops' = loops
      /\ switches' = switches /\ marks' = marks /\ err' = err /\ nest' = nest
  BY DEF vars
<1>2. Len(nest) \in Nat
  BY TopType DEF PlainInv, TypeOK, NestOK
<1>3. (TypeOK /\ NoErrorReported /\ OpenBelow)'
  BY <1>1 DEF PlainInv, TypeOK, NoErrorReported, OpenBelow
<1>4. \A j : At(j)' = At(j) /\ Outer(j)' = Outer(j)
  BY <1>1 DEF At, Heights, Outer
<1>5. Stacked'
  BY <1>1, <1>4 DEF PlainInv, Stacked
<1>6. CodeOK /\ CodeOK' /\ NestOK'
  BY <1>3 DEF PlainInv, TypeOK, CodeOK, NestOK
<1>7. PICK k \in Nat : k = Len(nest)
  BY <1>2
<1>8. Agree(At(k + 1)) /\ At(k + 1)' = At(k + 1)
  <2>1. At(k + 1) = Heights
    BY <1>7 DEF At
  <2>2. QED
    BY <1>1, <1>4, <1>6, <2>1, AgreeNow
<1>9. \A j \in 1..Len(nest') : Own(j)'
  BY <1>1, <1>6, <1>7, <1>8, OwnKept
<1>10. QED
  BY <1>1, <1>2, <1>3, <1>5, <1>9 DEF PlainInv

(* hence always, on a plain page.                                          *)
LEMMA PlainAlways == ASSUME PlainPages PROVE Spec => []PlainInv
<1>1. PlainInv /\ [Next]_vars => PlainInv'
  BY PlainStep, PlainStutter
<1>2. QED
  BY <1>1, PlainStart, PTL DEF Spec

(* On a page the stacks are made for, the program executes exactly what C  *)
(* would: GetCurrentState says whether the constructs around a statement   *)
(* are live.                                                               *)
THEOREM ControlState == ASSUME PlainPages PROVE Spec => []StateFaithful
<1>1. PlainInv => StateFaithful
  BY StateLive DEF StateFaithful
<1>2. QED
  BY <1>1, PlainAlways, PTL

(* On such a page a '}' ends the innermost construct, endwhile leads back  *)
(* to its own while, and case and default ask about their own switch.      *)
THEOREM ControlStacks == ASSUME PlainPages PROVE Spec => []StacksFaithful
<1>1. PlainInv => StacksFaithful
  <2> SUFFICES ASSUME PlainInv, nest # <<>>
               PROVE  /\ Top.kind \in Inner => BraceToken = EndToken[Top.kind]
                      /\ Top.kind = "while" => JumpTarget("ENDWHILE") = PageTarget("while")
                      /\ Top.kind = "switch" /\ OuterLive /\ ~Top.open
                           => switches # <<>> /\ Last(switches) = [val |-> Top.val, matched |-> Top.done]
    BY DEF StacksFaithful, BraceFaithful, JumpFaithful, SwitchFaithful
  <2>0. CodeOK /\ NestOK
    BY DEF PlainInv, TypeOK, CodeOK, NestOK
  <2>1. ASSUME Top.kind \in Inner PROVE BraceToken = EndToken[Top.kind]
    <3>1. brace # <<>> /\ Last(brace) = EndToken[Top.kind]
      BY <2>1, TopIf, TopSwitch, TopWhile DEF EndToken, Inner
    <3>2. QED
      BY <3>1 DEF BraceToken
  <2>2. ASSUME Top.kind = "while" PROVE JumpTarget("ENDWHILE") = PageTarget("while")
    <3>1. (State <=> Top.live) /\ (Live <=> Top.live)
      <4>1. PICK n \in Nat \ {0} : n = Len(nest)
        BY <2>0, TopOfStack DEF NestOK
      <4>2. QED
        BY <4>1, TopOwn
    <3>2. cond # <<>> /\ Last(cond).active = -4 /\ (Top.live => loops # <<>> /\ Last(loops) = Len(nest))
      BY <2>2, TopWhile
    <3>3. JumpsBack <=> Top.live
      BY <3>1, <3>2, Zenon DEF JumpsBack, Active
    <3>4. QED
      BY <3>1, <3>2, <3>3 DEF JumpTarget, PageTarget
  <2>3. ASSUME Top.kind = "switch", OuterLive, ~Top.open
        PROVE  switches # <<>> /\ Last(switches) = [val |-> Top.val, matched |-> Top.done]
    <3>1. switches # <<>> /\ Last(switches).val = Top.val /\ (Last(switches).matched <=> Top.done)
      BY <2>3, TopSwitch
    <3>2. Last(switches) \in [val : Vals, matched : BOOLEAN] /\ Top.done \in BOOLEAN
      BY <2>0, <3>1, ReadType, TopType DEF Frames
    <3>3. QED
      BY <3>1, <3>2
  <2>4. QED
    BY <2>1, <2>2, <2>3
<1>2. QED
  BY <1>1, PlainAlways, PTL

(* On such a page no handler reports an error, dereferences an empty stack *)
(* or loses a function.                                                    *)
THEOREM ControlNoError == ASSUME PlainPages PROVE Spec => []NoErrorReported
<1>1. PlainInv => NoErrorReported
  BY DEF PlainInv
<1>2. QED
  BY <1>1, PlainAlways, PTL

(* On such a page a construct, a function body and a call leave every      *)
(* stack as high as they found it.                                         *)
THEOREM ControlBalanced == ASSUME PlainPages PROVE Spec => Balanced
<1>1. PlainInv /\ [Next]_vars
        => [Len(nest') < Len(nest) /\ err' = "none" => Heights' = nest[Len(nest') + 1].at]_vars
  BY PlainStep
<1>2. QED
  BY <1>1, PlainAlways, PTL DEF Spec, Balanced

=============================================================================
