-------------------------------- MODULE Calls --------------------------------
(***************************************************************************)
(* Calls of functions, include and eval (lex.c), and the variables that a  *)
(* piece of code sees (var.c).                                             *)
(*                                                                         *)
(* There is one stack for the texts that are being read, another for the   *)
(* frames of variables, and a third for the marks on the stacks of         *)
(* Control.  What FilePop takes off them at the end of a text depends on   *)
(* two variables, cur_func and eval_mode, and not on what kind of text has *)
(* ended.                                                                  *)
(*                                                                         *)
(* The environment is the author of the page, who has the habits given by  *)
(* the variable of that name.  Arrays, the values of expressions, functions*)
(* defined twice and the unmapping of files are left out, and variables    *)
(* that a function declares both global and static.                        *)
(***************************************************************************)
EXTENDS Integers, SequencesExt

CONSTANTS
  Names,     \* of variables
  Vals,      \* their values; global gives a new variable the value 0
  Funcs,     \* the functions of the page
  None,      \* no function
  Undef,     \* the value of a variable that is not set
  Pages,     \* what pages do: sets of habits
  MaxDepth   \* bound: texts being read at once, and marks, which evals in evals leave behind

Kinds == {"file", "eval", "call"}

(* first: code calls a function before it has a variable.  top: variables  *)
(* are declared static outside functions.  fail: an include fails, of a    *)
(* file when another was the last one looked up.  reads: functions include *)
(* and evaluate.  evals: so do evaluated texts, and they call functions.   *)
(* creates: functions declare and set global variables the page has not.   *)
AllHabits == {"first", "top", "fail", "reads", "evals", "creates"}

ASSUME CallsAssumption ==
  /\ 0 \in Vals /\ Undef \notin Vals /\ None \notin Funcs
  /\ Pages \subseteq SUBSET AllHabits
  /\ MaxDepth \in Nat \ {0} /\ Funcs \cap Int = {}

VARIABLES
  size,       \* gsize: the place in ctx of the text whose size it is, a function, or 0
  fileSize,   \* CurrentFileSize, likewise
  gfd,        \* is it -1, as in a function that has called another?
  evalMode,   \* eval_mode
  curFunc,    \* cur_func
  files,      \* the FileStack: what was read before
  marks,      \* the marks of Control: the texts they were set for
  frames,     \* fs_top: a tree of variables for each call
  main,       \* var_main: the tree of the page
  inMain,     \* in a call, is var_top var_main?
  statics,    \* the tree of each function
  crashed,    \* has the program run out of C stack?
  ctx,        \* history: kind and function of the texts being read
  habits      \* of the page

reader == <<size, fileSize, gfd, evalMode, curFunc, files, marks>>
trees  == <<frames, main, inMain, statics, crashed>>
page   == <<ctx, habits>>
vars   == <<reader, trees, page>>

Plain == habits = {}

Pop(s) == IF s = <<>> THEN s ELSE Front(s)

-----------------------------------------------------------------------------
(* A tree maps the names that were ever set to what is known of them: an   *)
(* entry that is unset stays, with the value Undef.  The tree that is NULL *)
(* has no entries.                                                         *)

Empty == <<>>
Var(v, scope) == [val |-> v, scope |-> scope]

Put(t, x, var) == [n \in DOMAIN t \union {x} |-> IF n = x THEN var ELSE t[n]]

(* An entry that is there keeps its scope.                                 *)
Assign(t, x, v, scope) ==
  Put(t, x, IF x \in DOMAIN t THEN Var(v, t[x].scope) ELSE Var(v, scope))

Erase(t, x) == [t EXCEPT ![x].val = Undef]

Lookup(t, x) == IF x \in DOMAIN t THEN t[x].val ELSE Undef

InCall == frames # <<>>
InTree == InCall /\ ~inMain
Here   == IF InTree THEN Last(frames) ELSE main

(* The scope that sends SetVar and GetVar to another tree.                 *)
Scope(t, x) == IF InCall /\ x \in DOMAIN t THEN t[x].scope ELSE "local"

PutHere(t) ==
  IF InTree THEN frames' = [frames EXCEPT ![Len(frames)] = t] /\ UNCHANGED main
            ELSE main' = t /\ UNCHANGED frames

(* A static variable is kept in the tree of the function that runs.  If    *)
(* there is none, var_top is NULL, and the new tree becomes that of the    *)
(* frame if this has none, or is lost.                                     *)
PutStatic(x, v) ==
  statics' = IF curFunc = None THEN statics
             ELSE [statics EXCEPT ![curFunc] = Assign(@, x, v, "local")]

Adopt(x, v) ==
  IF curFunc = None /\ InCall /\ Last(frames) = Empty
    THEN [frames EXCEPT ![Len(frames)] = Assign(Empty, x, v, "local")] ELSE frames

(* var_top = fs_top->frame                                                 *)
StaysInMain == inMain' = TRUE
BackToFrame == inMain' = FALSE

(* SetVar with var_top = var_main, from a call.  With main NULL the new    *)
(* tree is lost.  An entry that is global itself leads here again, without *)
(* end.                                                                    *)
SetMain(x, v) ==
  CASE Scope(main, x) = "global" -> crashed' = TRUE /\ UNCHANGED <<main, statics>>
    [] Scope(main, x) = "static" -> PutStatic(x, v) /\ UNCHANGED <<main, crashed>>
    [] OTHER -> /\ main' = IF main = Empty THEN main ELSE Assign(main, x, v, "local")
                /\ UNCHANGED <<statics, crashed>>

(* SetVar, mode 0.  Whatever it did elsewhere, var_top is the frame's tree *)
(* afterwards.                                                             *)
SetVar(x, v) ==
  CASE Scope(Here, x) = "global" -> /\ SetMain(x, v)
                                    /\ BackToFrame /\ UNCHANGED frames
    [] Scope(Here, x) = "static" -> /\ PutStatic(x, v)
                                    /\ frames' = Adopt(x, v)
                                    /\ BackToFrame /\ UNCHANGED <<main, crashed>>
    [] OTHER -> PutHere(Assign(Here, x, v, "local")) /\ UNCHANGED <<inMain, statics, crashed>>

(* GetVar: the tree in which the variable is, and its value.               *)
Where(x) ==
  IF ~InTree \/ Lookup(Here, x) = Undef THEN "here"
  ELSE CASE Here[x].scope = "global" -> "main"
         [] Here[x].scope = "static" -> "static"
         [] OTHER -> "here"

Static(f) == IF f = None THEN Empty ELSE statics[f]

GetVar(x) ==
  CASE Where(x) = "here" -> Lookup(Here, x)
    [] Where(x) = "main" -> Lookup(main, x)
    [] Where(x) = "static" -> Lookup(Static(curFunc), x)

-----------------------------------------------------------------------------
(* Statements on variables. *)

Top  == Last(ctx)
Runs == ~crashed /\ UNCHANGED habits

Declared(x, scope) == x \in DOMAIN Here /\ Here[x].scope = scope

HasGlobal(x) == Lookup(main, x) # Undef \/ "creates" \in habits

Set(x, v) ==
  /\ Runs /\ (InCall /\ Scope(Here, x) = "global" => HasGlobal(x))
  /\ SetVar(x, v) /\ UNCHANGED <<reader, ctx>>

UnSet(x) ==
  /\ Runs /\ GetVar(x) # Undef
  /\ CASE Where(x) = "here" -> PutHere(Erase(Here, x)) /\ UNCHANGED statics
       [] Where(x) = "main" -> main' = Erase(main, x) /\ UNCHANGED <<frames, statics>>
       [] Where(x) = "static" -> /\ statics' = [statics EXCEPT ![curFunc] = Erase(@, x)]
                                 /\ UNCHANGED <<frames, main>>
  /\ UNCHANGED <<inMain, crashed, reader, ctx>>

(* Global: SetVar with mode 4, of variables that have no value.  One that  *)
(* was unset becomes 0 and stays what it was.                              *)
Global(x) ==
  /\ Runs /\ ~Declared(x, "static") /\ (InCall => HasGlobal(x))
  /\ IF InCall /\ GetVar(x) = Undef
       THEN PutHere(Assign(Here, x, 0, "global")) /\ UNCHANGED <<inMain, statics, crashed>>
       ELSE UNCHANGED trees
  /\ UNCHANGED <<reader, ctx>>

(* static x = v: SetVar with mode 8.  A new entry in the tree at hand, and *)
(* one in that of the function unless it has a value there.                *)
StaticVar(x, v) ==
  /\ Runs /\ ~Declared(x, "global")
  /\ InCall \/ "top" \in habits
  /\ IF InCall /\ x \notin DOMAIN Here
       THEN /\ IF Lookup(Static(curFunc), x) = Undef THEN PutStatic(x, v) ELSE UNCHANGED statics
            /\ IF inMain THEN main' = Assign(main, x, v, "static") /\ frames' = Adopt(x, v)
                         ELSE PutHere(Assign(Here, x, v, "static"))
            /\ BackToFrame
       ELSE PutHere(Assign(Here, x, v, "static")) /\ UNCHANGED <<statics, inMain>>
  /\ UNCHANGED <<crashed, reader, ctx>>

-----------------------------------------------------------------------------
(* Texts begin and end. *)

MayRead(kind) ==
  /\ Len(ctx) < MaxDepth /\ Len(marks) < MaxDepth
  /\ CASE Top.kind = "file" -> TRUE
       [] Top.kind = "call" -> kind = "call" \/ "reads" \in habits
       [] Top.kind = "eval" -> "evals" \in habits

(* ParserInit, after FilePush.                                             *)
Read(kind, fn, sz) ==
  /\ MayRead(kind)
  /\ ctx' = Append(ctx, [kind |-> kind, fn |-> fn])
  /\ size' = sz

Depth == Len(ctx) + 1

FilePush(fn, sz, noFd) == files' = Append(files, [fn |-> fn, size |-> sz, noFd |-> noFd])

IncludeSizeLate ==
  /\ Runs /\ Read("file", None, Depth)
  /\ FilePush(None, Depth, gfd)
  /\ fileSize' = Depth /\ gfd' = FALSE
  /\ UNCHANGED <<trees, evalMode, curFunc, marks>>

Include ==
  /\ Runs /\ Read("file", None, Depth)
  /\ FilePush(None, fileSize, gfd)
  /\ fileSize' = Depth /\ gfd' = FALSE
  /\ UNCHANGED <<trees, evalMode, curFunc, marks>>

(* OpenFile sets CurrentFileSize before it knows that there is no such     *)
(* file, from what the last stat that succeeded has left.                  *)
IncludeFails ==
  /\ Runs /\ MayRead("file")
  /\ fileSize' \in {fileSize} \union (IF "fail" \in habits THEN {0} ELSE {})
  /\ UNCHANGED <<trees, size, gfd, evalMode, curFunc, files, marks, ctx>>

EvalUnmarked ==
  /\ Runs /\ Read("eval", None, Depth)
  /\ FilePush(None, fileSize, gfd)
  /\ evalMode' = TRUE
  /\ UNCHANGED <<trees, fileSize, gfd, curFunc, marks>>

Eval ==
  /\ Runs /\ Read("eval", None, Depth)
  /\ FilePush(None, fileSize, gfd)
  /\ evalMode' = TRUE
  /\ marks' = Append(marks, Depth)
  /\ UNCHANGED <<trees, fileSize, gfd, curFunc>>

(* RunFunc.  Parameters without an argument are not set.                   *)
Call(f, args) ==
  /\ Runs /\ Read("call", f, f)
  /\ "first" \notin habits => Here # Empty
  /\ IF curFunc = None THEN FilePush(None, fileSize, gfd) ELSE FilePush(curFunc, size, TRUE)
  /\ curFunc' = f
  /\ marks' = Append(marks, Depth)
  /\ frames' = Append(frames, [n \in DOMAIN args |-> Var(args[n], "local")])
  /\ inMain' = FALSE
  /\ UNCHANGED <<fileSize, gfd, evalMode, main, statics, crashed>>

PopStackFrameToMain ==
  /\ frames' = Pop(frames)
  /\ inMain' = (main # Empty)

(* A frame without a tree is taken for the page.                           *)
PopStackFrame ==
  /\ frames' = Pop(frames)
  /\ inMain' = (Len(frames) > 1 /\ Last(Front(frames)) = Empty /\ main # Empty)

(* Does what ends have a frame, for FilePop?                               *)
UnwindsNoEval == curFunc # None /\ ~evalMode
Unwinds == curFunc # None

(* FilePop.  A name that is no function's gives cur_func NULL as well.     *)
End ==
  LET top == Last(files)
      popped == IF Unwinds THEN Pop(marks) ELSE marks IN
  /\ Runs /\ files # <<>>
  /\ ctx' = Front(ctx) /\ files' = Front(files)
  /\ gfd' = top.noFd
  /\ IF Unwinds THEN PopStackFrame ELSE UNCHANGED <<frames, inMain>>
  /\ IF evalMode
       THEN /\ size' = top.size /\ marks' = Pop(popped)
            /\ UNCHANGED <<curFunc, fileSize>>
       ELSE /\ size' = IF top.fn = None THEN top.size ELSE top.fn
            /\ fileSize' = IF top.noFd THEN fileSize ELSE top.size
            /\ curFunc' = top.fn /\ marks' = popped
  /\ evalMode' = FALSE
  /\ UNCHANGED <<main, statics, crashed>>

Init ==
  /\ habits \in Pages
  /\ ctx = <<[kind |-> "file", fn |-> None]>>
  /\ size = 1 /\ fileSize = 1 /\ gfd = FALSE
  /\ evalMode = FALSE /\ curFunc = None
  /\ files = <<>> /\ marks = <<>> /\ frames = <<>>
  /\ main = Empty /\ inMain = FALSE
  /\ statics = [f \in Funcs |-> Empty]
  /\ crashed = FALSE

Next ==
  \/ \E x \in Names, v \in Vals : Set(x, v)
  \/ \E x \in Names : UnSet(x)
  \/ \E x \in Names : Global(x)
  \/ \E x \in Names, v \in Vals : StaticVar(x, v)
  \/ Include
  \/ IncludeFails
  \/ Eval
  \/ \E f \in Funcs, D \in SUBSET Names : \E args \in [D -> Vals] : Call(f, args)
  \/ End

Spec == Init /\ [][Next]_vars

-----------------------------------------------------------------------------
(* Properties. *)

IsVar(e) ==
  e.val \in Vals \union {Undef} /\ e.scope \in {"local", "global", "static"}
IsTree(t) == DOMAIN t \subseteq Names /\ \A x \in DOMAIN t : IsVar(t[x])

Sizes == Funcs \union 0..MaxDepth

(* The type invariant.  Only a call whose own tree is NULL works in that   *)
(* of the page.                                                            *)
TypeOK ==
  /\ size \in Sizes /\ fileSize \in Sizes
  /\ {gfd, evalMode, inMain, crashed} \subseteq BOOLEAN
  /\ curFunc \in Funcs \union {None}
  /\ Len(files) = Len(ctx) - 1
  /\ \A i \in DOMAIN files : files[i].fn \in Funcs \union {None} /\ files[i].size \in Sizes
  /\ \A i \in DOMAIN marks : marks[i] \in 2..MaxDepth
  /\ IsTree(main) /\ \A i \in DOMAIN frames : IsTree(frames[i])
  /\ \A f \in Funcs : IsTree(statics[f])
  /\ inMain => InCall /\ Last(frames) = Empty /\ main # Empty

InnermostFile(i) ==
  /\ i \in DOMAIN ctx /\ ctx[i].kind = "file"
  /\ \A j \in i + 1 .. Len(ctx) : ctx[j].kind # "file"

(* The text that is read is read to its own end, no less and no more, as   *)
(* what it is; and calls and includes that it makes will come back to the  *)
(* end of the file (lex.c:561, 573; FilePop, RunFunc, Include).            *)
TextFaithful ==
  Plain => /\ size = IF Top.kind = "call" THEN Top.fn ELSE Len(ctx)
           /\ evalMode = (Top.kind = "eval")
           /\ curFunc = Top.fn
           /\ InnermostFile(fileSize)

(* The marks are those of the calls and evals that are still read, so that *)
(* constructs of the caller are never undone by what it has called         *)
(* (cond.c:217-280, lex.c:411, 432).                                       *)
MarksFaithful ==
  Plain => /\ \A i, j \in DOMAIN marks : i < j => marks[i] < marks[j]
           /\ {marks[i] : i \in DOMAIN marks} = {i \in DOMAIN ctx : ctx[i].kind # "file"}

(* Whatever a page does, a frame of variables never outlives its call, so  *)
(* that the code outside functions sees the variables of the page          *)
(* (PopStackFrame in FilePop, lex.c:409).                                  *)
FramesEnd == Len(frames) <= Cardinality({i \in DOMAIN ctx : ctx[i].kind = "call"})

Linked(t) == [n \in Names |-> IF n \in DOMAIN t THEN t[n].scope ELSE "local"]
Own(t)    == [n \in Names |-> IF Linked(t)[n] = "local" THEN Lookup(t, n) ELSE Undef]
Seen(t)   == [n \in Names |-> Lookup(t, n)]

(* The calls are the innermost texts.                                      *)
PageSeen    == Seen(main)
StaticsSeen == [f \in Funcs |-> Seen(statics[f])]
CallSeen(i) ==
  [fn |-> ctx[Len(ctx) - Len(frames) + i].fn, link |-> Linked(frames[i]), val |-> Own(frames[i])]
CallsSeen   == [i \in DOMAIN frames |-> CallSeen(i)]

S == INSTANCE Scopes WITH globals <- PageSeen, statics <- StaticsSeen, calls <- CallsSeen

(* The trees, their marked entries and the switching of var_top between    *)
(* them implement the scopes of the manual, with recursion, missing        *)
(* arguments, unset and repeated declarations (SetVar, GetVar, Global).    *)
Implements == S!Init /\ [][Plain => S!Next]_(S!vars)

(* doc/doc.html:1449: Any variable used inside a function is by default    *)
(* limited to the local function scope.                                    *)
NoStrayGlobal ==
  [][ctx' = ctx /\ Top.kind = "call" =>
       \A x \in Names : Lookup(main, x)' # Lookup(main, x)
                           => x \in DOMAIN Last(frames) /\ Last(frames)[x].scope = "global"]_vars
=============================================================================
