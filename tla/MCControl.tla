----------------------------- MODULE MCControl -----------------------------
(* Instances of Control for TLC. *)
EXTENDS Control

(* The constructs whose handlers know how to be skipped inside another.    *)
PlainNesting ==
  ({"if", "switch", "while", "func"} \X {"if"})
    \union {<<"switch", "switch">>, <<"while", "while">>}

AnyNesting == {"if", "switch", "while", "func"} \X {"if", "switch", "while"}

=============================================================================
