---------------------------- MODULE MCAccessLog ----------------------------
(* An instance of AccessLog for TLC.                                       *)
EXTENDS AccessLog

Sets(stores, kills) ==
  [store : stores, exists : BOOLEAN, footer : BOOLEAN, kill : kills]

Every == Sets({"flat", "gdbm"}, BOOLEAN) \union
         [store : {"msql"}, exists : BOOLEAN, footer : {FALSE}, kill : BOOLEAN]
=============================================================================
