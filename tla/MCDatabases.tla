----------------------------- MODULE MCDatabases -----------------------------
(* An instance of Databases for TLC.  Every property holds with all habits *)
(* but those that it excludes.                                             *)
EXTENDS Databases

Habits ==
  {[msql |-> {"connects"} \union h, pg |-> {}] : h \in
     {{"frees", "hosts", "port", "gone", "nolog"}, {"frees", "hosts", "gone"},
      {"logs", "port", "frees"}, {"logs", "nolog", "gone", "frees"}, {"hosts", "logs", "lists", "frees"},
      {"lists", "port", "hosts"}, {"switch", "port"}, {"switch", "logs"}}}
    \union
  {[msql |-> {}, pg |-> {"connects"} \union h] : h \in {{}, {"dies"}, {"strays", "typeless"}}}
=============================================================================
