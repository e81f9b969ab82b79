------------------------------- MODULE MCFiles -------------------------------
(* An instance of Files for TLC: a tag over two lines and code on one; a   *)
(* tag with a ? and a string, a > in the text, and code with brackets over *)
(* two lines.                                                              *)
EXTENDS Files

Read(n) ==
  CASE n = "a" -> << <<"x", "<", "x">>, <<"(", ">", "x", "<", "?", "q", ">", "q", "(", ">", ")", ">">> >>
    [] n = "b" -> << <<">", "<", "x", "?", "q", ">", "x">>, <<"<", "?", "(">>, <<"x", ")", ">", "x">> >>

(* Every property holds with all habits but those that it excludes; here   *)
(* with several combinations of the others.                                *)
Habits ==
  {{"stale", "swap", "leave", "refused", "changes"},
   {"asks", "self", "leave", "refused"},
   {"asks", "missing", "changes", "leave"}, {"asks", "missing", "changes"},
   {"reads", "leave", "stale"}, {"reads", "wanders"}, {"reads", "query", "spread", "bare"}}
=============================================================================
