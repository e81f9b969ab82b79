----------------------------- MODULE MCDbmLock -----------------------------
(* An instance of DbmLock for TLC. *)
EXTENDS DbmLock

Plain(db, lock) ==
  [db |-> db, nfs |-> FALSE, lock |-> lock, resident |-> TRUE,
   logging |-> FALSE, many |-> FALSE, kill |-> FALSE]

(* The builds that lock, resident or not, logging or not, with and without *)
(* killed pages; NFS_HACK; and pages that open several files.              *)
AllSetups ==
  {[Plain("flat", lock) EXCEPT !.resident = r] : lock \in {"lockf", "flock"}, r \in BOOLEAN}
    \union {[Plain(db, "flock") EXCEPT !.resident = r, !.logging = TRUE, !.kill = ~r] :
              db \in {"gdbm", "flat"}, r \in BOOLEAN}
    \union {[Plain("flat", lock) EXCEPT !.resident = FALSE, !.many = TRUE] :
              lock \in {"lockf", "flock"}}
    \union {[Plain(db, "lockf") EXCEPT !.nfs = TRUE] : db \in {"ndbm", "flat"}}
=============================================================================
