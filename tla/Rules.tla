-------------------------------- MODULE Rules --------------------------------
(***************************************************************************)
(* The rule-sets of access control as they are stored: acc.c keeps each as *)
(* one string of fields, which CheckAccess and the ?config screen take     *)
(* apart (StrtoAccess), and which the forms of that screen put together    *)
(* again (PostToAccessStr, AddRule).                                       *)
(*                                                                         *)
(* A field is what it is and its value: pub or pri, a letter for what the  *)
(* rule does, a password, or a pattern with its type.                      *)
(***************************************************************************)
EXTENDS Integers, Sequences, SequencesExt, FiniteSets

CONSTANTS
  Texts,           \* patterns and passwords
  Words,           \* passwords, of those that stay as they are
  AddSlashes(_),   \* a text with a backslash before each \ and $, and before quotes
  StripSlashes(_)  \* a text without them

Letters == {"A", "B", "L", "E", "N", "S", "H", "P"}

Field(f, v) == [f |-> f, v |-> v]

NoWord == ""
AnyOne == "any"   \* the pattern that matches every visitor

(* What AddSlashes adds StripSlashes takes off.                            *)
ASSUME TextsAssumption ==
  /\ Words \union {NoWord, AnyOne} \subseteq Texts /\ NoWord \in Words
  /\ \A t \in Texts : StripSlashes(AddSlashes(t)) = t
  /\ \A t \in Words \union {AnyOne} : AddSlashes(t) = t

(* A password is kept only by a rule that asks for one.                    *)
Rule(mode, password, patt) ==
  [mode |-> mode, password |-> IF mode = "P" THEN password ELSE NoWord, patt |-> patt]

(* For an empty password the form puts in a space.                         *)
AllRules ==
  {r \in [mode : Letters, password : Words, patt : Texts] : r.mode = "P" <=> r.password # NoWord}

RuleSets == [def : {"pub", "pri"}, rules : Seq(AllRules)]

AllFields ==
  [f : {"def"}, v : {"pub", "pri"}] \union [f : {"mode"}, v : Letters] \union [f : {"word", "patt"}, v : Texts]

(* What is left of a field that is no pattern when its first three letters *)
(* are taken off.                                                          *)
Garbage == "garbage"

(* _dbmFetch and StrtoAccess, one field.  _dbmFetch adds slashes to all of *)
(* the string; those of patterns are taken off again.  Passwords and       *)
(* patterns begin with small letters and are told from modes by that.      *)
ReadField(a, s) ==
  LET state == IF a.state = "mode" /\ s.f \in {"word", "patt"} THEN "patt" ELSE a.state IN
  CASE state = "def"  -> [a EXCEPT !.def = IF s.v = "pri" THEN "pri" ELSE "pub", !.state = "mode"]
    [] state = "mode" -> [a EXCEPT !.mode = s.v, !.state = IF s.v = "P" THEN "word" ELSE "patt"]
    [] state = "word" -> [a EXCEPT !.password = AddSlashes(s.v), !.state = "patt"]
    [] state = "patt" ->
         LET patt == IF s.f = "patt" THEN StripSlashes(AddSlashes(s.v)) ELSE Garbage IN
         [a EXCEPT !.state = "mode", !.rules = Append(@, Rule(a.mode, a.password, patt))]

(* For TLC, which would evaluate a once for each of its uses.              *)
ReadNext(acc, s) == CHOOSE b \in {ReadField(a, s) : a \in {acc}} : TRUE

StrtoAccess(str) ==
  LET begin == [state |-> "def", def |-> NoWord, mode |-> NoWord, password |-> NoWord, rules |-> <<>>] IN
  CHOOSE set \in {[def |-> a.def, rules |-> a.rules] : a \in {FoldLeft(ReadNext, begin, str)}} : TRUE

Fields(rule) ==
  <<Field("mode", rule.mode)>>
    \o (IF rule.mode = "P" THEN <<Field("word", rule.password)>> ELSE <<>>)
    \o <<Field("patt", rule.patt)>>

Write(set) == FoldLeft(LAMBDA str, rule : str \o Fields(rule), <<Field("def", set.def)>>, set.rules)

(* A string as _dbmFetch returns it.                                       *)
Fetched(str) ==
  [i \in DOMAIN str |->
     IF str[i].f \in {"word", "patt"} THEN [str[i] EXCEPT !.v = AddSlashes(@)] ELSE str[i]]

(* Mutant: pub or pri of the default set is added, too.                    *)
AddedWhole(str, all) == Fetched(str) \o SubSeq(Fetched(all), 1, 3)

(* AddRule: the first rule of the default set is added, as the two fields  *)
(* behind pub or pri.  Both strings are stored with the slashes with which *)
(* they were fetched.                                                      *)
Added(str, all) == Fetched(str) \o SubSeq(Fetched(all), 2, 3)

Initial == Write([def |-> "pub", rules |-> <<Rule("L", NoWord, AnyOne)>>])
=============================================================================
