------------------------------- MODULE Arena -------------------------------
(* What pool.c promises to the code that calls emalloc and estrdup: memory *)
(* of the size asked for, shared with nobody, until its pool is cleared or *)
(* the request ends.                                                       *)
EXTENDS Integers, Sequences

CONSTANTS
  Pools,   \* the numbers of the pools
  Sizes    \* what is asked for, in bytes

VARIABLES
  request,   \* the pool and size asked for: at most one
  live       \* the regions handed out: block and bytes from up to to

Overlap(r, s) == r.block = s.block /\ r.from < s.to /\ s.from < r.to

Init == request = <<>> /\ live = {}

Ask(p, n) == request = <<>> /\ request' = <<p, n>> /\ UNCHANGED live

Grant ==
  /\ request # <<>> /\ request' = <<>>
  /\ \E r \in live' :
       /\ live' = live \union {r}
       /\ r.pool = request[1] /\ r.to - r.from >= request[2]
       /\ \A s \in live : ~Overlap(r, s)

Clear(p) == live' = {r \in live : r.pool # p} /\ UNCHANGED request

EndRequest == live' = {} /\ UNCHANGED request

Next ==
  \/ \E p \in Pools, n \in Sizes : Ask(p, n)
  \/ Grant
  \/ \E p \in Pools : Clear(p)
  \/ EndRequest

Spec == Init /\ [][Next]_<<request, live>>
=============================================================================
