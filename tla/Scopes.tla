------------------------------- MODULE Scopes -------------------------------
(* What the manual promises of variables: a function sees its own, and the *)
(* global and static ones that it declares.                                *)
EXTENDS Integers, Sequences

CONSTANTS
  Names,   \* of variables
  Vals,    \* their values
  Funcs,   \* the functions of the page
  Undef    \* the value of a variable that is not set

VARIABLES
  globals,   \* the variables outside functions
  statics,   \* of each function, those that outlive its calls
  calls      \* the calls under way, the innermost last

vars == <<globals, statics, calls>>

Unset  == [n \in Names |-> Undef]
Mine   == calls[Len(calls)]
Link(x) == IF calls = <<>> THEN "global" ELSE Mine.link[x]

Init ==
  /\ globals = Unset
  /\ statics = [f \in Funcs |-> Unset]
  /\ calls = <<>>

(* Every variable of a new call is local, and set if it is an argument.    *)
Call(f, args) ==
  /\ calls' = Append(calls, [fn |-> f, link |-> [n \in Names |-> "local"], val |-> args])
  /\ UNCHANGED <<globals, statics>>

Return ==
  /\ calls # <<>>
  /\ calls' = SubSeq(calls, 1, Len(calls) - 1)
  /\ UNCHANGED <<globals, statics>>

(* v may be Undef.  No function creates a variable of the page: "You cannot*)
(* create new global variables from within a function" (doc.html:1482).    *)
Set(x, v) ==
  CASE Link(x) = "global" -> /\ calls = <<>> \/ globals[x] # Undef
                             /\ globals' = [globals EXCEPT ![x] = v] /\ UNCHANGED <<statics, calls>>
    [] Link(x) = "static" -> statics' = [statics EXCEPT ![Mine.fn][x] = v] /\ UNCHANGED <<globals, calls>>
    [] OTHER -> calls' = [calls EXCEPT ![Len(calls)].val[x] = v] /\ UNCHANGED <<globals, statics>>

(* A variable that has a value is not declared any more.                   *)
Declare(x, link) ==
  /\ calls # <<>> /\ Mine.link[x] = "local" /\ Mine.val[x] = Undef
  /\ calls' = [calls EXCEPT ![Len(calls)].link[x] = link]

(* "The variable must exist in the global scope" (doc.html:1481).          *)
Global(x) == globals[x] # Undef /\ Declare(x, "global") /\ UNCHANGED <<globals, statics>>

(* The value is that of the first declaration ever.                        *)
Static(x, v) ==
  /\ Declare(x, "static")
  /\ statics' = [statics EXCEPT ![Mine.fn][x] = IF @ = Undef THEN v ELSE @]
  /\ UNCHANGED globals

Next ==
  \/ \E f \in Funcs, args \in [Names -> Vals \union {Undef}] : Call(f, args)
  \/ Return
  \/ \E x \in Names, v \in Vals \union {Undef} : Set(x, v)
  \/ \E x \in Names : Global(x)
  \/ \E x \in Names, v \in Vals : Static(x, v)

Spec == Init /\ [][Next]_vars
=============================================================================
