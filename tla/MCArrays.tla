------------------------------- MODULE MCArrays ------------------------------
(* An instance of Arrays for TLC.  Longs have one bit; as strings, whose   *)
(* lengths count, -1 and 0 stand for "10" and "2".                         *)
EXTENDS Arrays

Numbers == {-1, 0}
Keyed   == {"0", "1", "2", "x"}
Decimal(n) == CASE n = 0 -> "0" [] n = 1 -> "1" [] OTHER -> "2"

Digits(v) == IF v < 0 THEN 2 ELSE 1
Arithmetic(op, u, v) == CASE op = "&" -> IF u = v THEN u ELSE 0
                          [] op = "|" -> IF u = v THEN u ELSE -1
                          [] OTHER    -> -((u + v) % 2)
Order(k, u, v) == u <= v

Item(k, v) == [key |-> k, val |-> v]
Assigned ==
  {<<Item("0", v)>> : v \in Numbers}
    \union {<<Item("0", 0), Item("1", -1)>>, <<Item("x", 0), Item("0", -1)>>}

(* Every property holds with all habits but those that it excludes.        *)
Habits == {{"sorts"}, AllHabits \ {"sorts"}, AllHabits \ {"refill"}, AllHabits \ {"refill", "nest"}}
=============================================================================
