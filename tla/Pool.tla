-------------------------------- MODULE Pool --------------------------------
(***************************************************************************)
(* The memory pools, pool.c, in the builds that are not an Apache module.  *)
(*                                                                         *)
(* A pool is a chain of blocks; memory is handed out from the last one and *)
(* given back by clearing the whole pool, which moves all blocks but the   *)
(* first to one free list.  Addresses are offsets behind the header of a   *)
(* block.  A pool is never made below another one, so that there are no    *)
(* sub-pools.  The quota (already_over) reports an error and ends the page,*)
(* but hands out the memory all the same: it is left out.                  *)
(***************************************************************************)
EXTENDS Integers, SequencesExt

CONSTANTS
  Blocks,    \* the blocks malloc can return
  Sizes,     \* requested sizes in bytes
  Align,     \* PHP_ALIGN
  Hdr,       \* PHP_POOL_HDR_BYTES
  MinFree    \* PHP_BLOCK_MINFREE

ASSUME PoolAssumption ==
  /\ Sizes \subseteq Nat
  /\ Align \in Nat \ {0} /\ Hdr \in Nat /\ MinFree \in Nat /\ Hdr <= MinFree /\ MinFree > 0

Pools == 0..2

VARIABLES
  request,   \* what is being allocated: a pool and a size, at most one
  free,      \* php_block_freelist
  chain,     \* the blocks of each pool; none if php_pool[num] is NULL
  size,      \* endp of a block, 0 for one malloc has not returned yet
  avail,     \* first_avail of a block
  used,      \* is php_pool_size not 0? (its value matters to the quota only)
  live       \* history: the memory handed out and not yet given back

vars == <<request, free, chain, size, avail, used, live>>

(* What a request is rounded up to; nothing becomes one byte.              *)
Rounded(n) ==
  LET clicks == 1 + ((n - 1) \div Align) IN IF clicks * Align <= 0 THEN 1 ELSE clicks * Align

(* A block of the free list is taken only if MinFree bytes would be left.  *)
Fits(b, bytes) == bytes + MinFree <= size[b] - avail[b]

(* php_new_block: the first block of the free list that fits, or malloc.   *)
FromFreeList(b, bytes) ==
  \E i \in DOMAIN free :
    /\ b = free[i] /\ Fits(b, bytes)
    /\ \A j \in 1..i - 1 : ~Fits(free[j], bytes)
    /\ free' = RemoveAt(free, i)
    /\ UNCHANGED size

FromMalloc(b, bytes) ==
  /\ \A i \in DOMAIN free : ~Fits(free[i], bytes)
  /\ size[b] = 0
  /\ size' = [size EXCEPT ![b] = bytes + MinFree]
  /\ UNCHANGED free

php_new_block(b, bytes) == FromFreeList(b, bytes) \/ FromMalloc(b, bytes)

(* php_pool_alloc and php_pool_strdup, first half: the pool is made if     *)
(* there is none; its header takes the start of its first block.           *)
Alloc(p, n) ==
  /\ request = <<>>
  /\ request' = <<p, n>>
  /\ used' = [used EXCEPT ![p] = @ \/ n # 0]
  /\ IF chain[p] # <<>> THEN UNCHANGED <<free, chain, size, avail>>
     ELSE \E b \in Blocks :
            /\ php_new_block(b, 0)
            /\ chain' = [chain EXCEPT ![p] = <<b>>]
            /\ avail' = [avail EXCEPT ![b] = @ + Hdr]
  /\ UNCHANGED live

(* Mutant: first_avail of the block is not moved.                          *)
HandOutAgain(b, bytes) ==
  /\ UNCHANGED avail
  /\ live' = live \union {[pool |-> request[1], block |-> b,
                           from |-> avail[b], to |-> avail[b] + bytes]}

(* The memory is handed out and first_avail moved behind it.               *)
HandOut(b, bytes) ==
  /\ avail' = [avail EXCEPT ![b] = @ + bytes]
  /\ live' = live \union {[pool |-> request[1], block |-> b,
                           from |-> avail[b], to |-> avail[b] + bytes]}

(* php_palloc: from the last block of the pool, or from a new one behind.  *)
php_palloc ==
  /\ request # <<>>
  /\ LET p == request[1]  bytes == Rounded(request[2])  b == Last(chain[p]) IN
       IF avail[b] + bytes <= size[b]
         THEN HandOut(b, bytes) /\ UNCHANGED <<free, chain, size>>
         ELSE \E c \in Blocks :
                /\ php_new_block(c, bytes)
                /\ chain' = [chain EXCEPT ![p] = Append(@, c)]
                /\ HandOut(c, bytes)
  /\ request' = <<>>
  /\ UNCHANGED used

(* php_free_blocks: the freed blocks, empty again, before those free so far*)
Emptied(s) == [b \in Blocks |-> IF b \in ToSet(s) THEN 0 ELSE avail[b]]

(* Mutant: the blocks free so far are not linked behind the freed ones.    *)
ForgetFree(s) == IF s = <<>> THEN free ELSE s

FreeList(s) == s \o free

(* Mutant: the blocks stay chained to the pool as well.                    *)
ClearedChain(p) == chain

ChainAfterClear(p) == [chain EXCEPT ![p] = <<Head(@)>>]

(* php_pool_clear.  The first block keeps the header of the pool.          *)
Clear(p) ==
  /\ request = <<>>
  /\ p # 0 /\ used[p]
  /\ used' = [used EXCEPT ![p] = FALSE]
  /\ free' = FreeList(Tail(chain[p]))
  /\ chain' = ChainAfterClear(p)
  /\ avail' = [Emptied(Tail(chain[p])) EXCEPT ![Head(chain[p])] = Hdr]
  /\ live' = {r \in live : r.pool # p}
  /\ UNCHANGED <<request, size>>

(* The end of a FastCGI request: main frees pools 1, 2 and 0, and for the  *)
(* next request php_init_pool forgets all pools.  php_pool_free returns at *)
(* once for pool 0 and for a pool whose size is 0.                         *)
Freed(p) == IF p = 0 \/ ~used[p] THEN <<>> ELSE chain[p]

EndRequest ==
  /\ request = <<>>
  /\ free' = FreeList(Freed(2) \o Freed(1))
  /\ avail' = Emptied(Freed(2) \o Freed(1))
  /\ chain' = [p \in Pools |-> <<>>]
  /\ used' = [p \in Pools |-> FALSE]
  /\ live' = {}
  /\ UNCHANGED <<request, size>>

-----------------------------------------------------------------------------

Init ==
  /\ request = <<>>
  /\ free = <<>>
  /\ chain = [p \in Pools |-> <<>>]
  /\ size = [b \in Blocks |-> 0]
  /\ avail = [b \in Blocks |-> 0]
  /\ used = [p \in Pools |-> FALSE]
  /\ live = {}

Next ==
  \/ \E p \in Pools, n \in Sizes : Alloc(p, n)
  \/ php_palloc
  \/ \E p \in Pools : Clear(p)
  \/ EndRequest

Spec == Init /\ [][Next]_vars

-----------------------------------------------------------------------------
(* Properties. *)

Region == [pool : Pools, block : Blocks, from : Nat, to : Nat]

(* Requests, blocks and regions are of their kinds.                        *)
TypeOK ==
  /\ request = <<>> \/ request \in Pools \X Sizes
  /\ free \in Seq(Blocks)
  /\ chain \in [Pools -> Seq(Blocks)]
  /\ size \in [Blocks -> Nat] /\ avail \in [Blocks -> Nat]
  /\ used \in [Pools -> BOOLEAN]
  /\ live \subseteq Region

(* A block is in one place: once on the free list or once in one pool.     *)
OwnedOnce ==
  /\ IsInjective(free)
  /\ \A p \in Pools : IsInjective(chain[p]) /\ ToSet(chain[p]) \cap ToSet(free) = {}
  /\ \A p, q \in Pools : p # q => ToSet(chain[p]) \cap ToSet(chain[q]) = {}

(* Memory that is in use lies in a block of its pool, behind the pool's    *)
(* header and below first_avail and the end of the block.                  *)
Inside ==
  \A r \in live :
    /\ r.block \in ToSet(chain[r.pool])
    /\ r.block = Head(chain[r.pool]) => Hdr <= r.from
    /\ r.from < r.to /\ r.to <= avail[r.block] /\ avail[r.block] <= size[r.block]

(* Blocks are of their type, each is in one place, and what is handed out  *)
(* lies within its block and overlaps nothing (pool.c:255-405).            *)
PoolInv == TypeOK /\ OwnedOnce /\ Inside

(* The pools hand out memory as Arena promises: never two regions that     *)
(* overlap, whatever was cleared, freed and reused before.                 *)
A == INSTANCE Arena
Implements == A!Spec

(* Blocks obtained from malloc that nothing leads to any more.             *)
Leaked == {b \in Blocks : size[b] # 0} \ (ToSet(free) \union UNION {ToSet(chain[p]) : p \in Pools})

(* Within a request no block gets lost, and at its end only those of pool 0*)
(* and of pools that were cleared and not used again.                      *)
LeaksAtEndOnly ==
  [][\A b \in Leaked' \ Leaked :
       EndRequest /\ \E p \in Pools : b \in ToSet(chain[p]) /\ (p = 0 \/ ~used[p])]_vars
=============================================================================
