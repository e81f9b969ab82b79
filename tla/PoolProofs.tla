----------------------------- MODULE PoolProofs -----------------------------
(* Theorems about Pool, for every value of its constants: however many     *)
(* blocks malloc has and whatever sizes are asked for, memory that is in   *)
(* use is never handed out again.                                          *)
EXTENDS Pool, SequenceTheorems, TLAPS

-----------------------------------------------------------------------------
(* What a request is rounded up to is enough for it.                       *)

LEMMA RoundedEnough ==
  ASSUME NEW n \in Nat, Align \in Nat \ {0}
  PROVE  Rounded(n) \in Nat \ {0} /\ n <= Rounded(n)
<1> DEFINE q == (n - 1) \div Align
<1>1. q \in Int /\ q * Align <= n - 1 /\ n - 1 < (q + 1) * Align
  OBVIOUS
<1>2. Rounded(n) = IF (1 + q) * Align <= 0 THEN 1 ELSE (1 + q) * Align
  BY DEF Rounded
<1> HIDE DEF q
<1>3. (1 + q) * Align \in Int /\ (1 + q) * Align = (q + 1) * Align
  BY <1>1
<1>4. QED
  BY <1>1, <1>2, <1>3

-----------------------------------------------------------------------------
(* Sequences whose elements are all different. *)

LEMMA InSeq ==
  ASSUME NEW T, NEW s \in Seq(T), NEW n, n = Len(s)
  PROVE  /\ n \in Nat
         /\ ToSet(s) = {s[i] : i \in 1..n}
         /\ ToSet(s) \subseteq T
         /\ IsInjective(s) <=> \A i, j \in 1..n : s[i] = s[j] => i = j
<1>1. n \in Nat /\ DOMAIN s = 1..n /\ \A i \in 1..n : s[i] \in T
  BY LenProperties, ElementOfSeq
<1>2. ToSet(s) = {s[i] : i \in 1..n}
  BY <1>1 DEF ToSet
<1>3. IsInjective(s) <=> \A i, j \in 1..n : s[i] = s[j] => i = j
  BY <1>1 DEF IsInjective
<1>4. QED
  BY <1>1, <1>2, <1>3

(* The empty one. *)
LEMMA OfNone == ToSet(<<>>) = {} /\ IsInjective(<<>>)
  BY DEF ToSet, IsInjective

(* Two such sequences that have no element in common, one behind the other *)
LEMMA Joined ==
  ASSUME NEW T, NEW s \in Seq(T), NEW t \in Seq(T)
  PROVE  /\ s \o t \in Seq(T)
         /\ ToSet(s \o t) = ToSet(s) \union ToSet(t)
         /\ IsInjective(s) /\ IsInjective(t) /\ ToSet(s) \cap ToSet(t) = {} => IsInjective(s \o t)
<1> DEFINE u == s \o t
           m == Len(s)
           n == Len(t)
<1>1. /\ u \in Seq(T) /\ Len(u) = m + n /\ m \in Nat /\ n \in Nat
      /\ \A i \in 1 .. m + n : u[i] = IF i <= m THEN s[i] ELSE t[i - m]
  BY ConcatProperties, LenProperties
<1>a. /\ ToSet(u) = {u[i] : i \in 1 .. m + n}
      /\ IsInjective(u) <=> \A i, j \in 1 .. m + n : u[i] = u[j] => i = j
  <2> HIDE DEF u
  <2>1. PICK k : k = m + n
    OBVIOUS
  <2>2. /\ ToSet(u) = {u[i] : i \in 1..k}
        /\ IsInjective(u) <=> \A i, j \in 1..k : u[i] = u[j] => i = j
    <3>1. k = Len(u) /\ u \in Seq(T)
      BY <1>1, <2>1
    <3>2. QED
      BY <3>1, InSeq
  <2>3. QED
    BY <2>1, <2>2
<1>b. /\ ToSet(s) = {s[i] : i \in 1..m}
      /\ IsInjective(s) <=> \A i, j \in 1..m : s[i] = s[j] => i = j
  BY InSeq
<1>c. /\ ToSet(t) = {t[i] : i \in 1..n}
      /\ IsInjective(t) <=> \A i, j \in 1..n : t[i] = t[j] => i = j
  BY InSeq
<1>2. /\ ToSet(u) = {u[i] : i \in 1 .. m + n}
      /\ ToSet(s) = {s[i] : i \in 1..m} /\ ToSet(t) = {t[i] : i \in 1..n}
      /\ IsInjective(u) <=> \A i, j \in 1 .. m + n : u[i] = u[j] => i = j
      /\ IsInjective(s) <=> \A i, j \in 1..m : s[i] = s[j] => i = j
      /\ IsInjective(t) <=> \A i, j \in 1..n : t[i] = t[j] => i = j
  BY <1>a, <1>b, <1>c
<1> HIDE DEF u, m, n
<1>3. ToSet(u) \subseteq ToSet(s) \union ToSet(t)
  <2> SUFFICES ASSUME NEW i \in 1 .. m + n
               PROVE  u[i] \in ToSet(s) \union ToSet(t)
    BY <1>2
  <2>1. CASE i <= m
    BY <1>1, <1>2, <2>1
  <2>2. CASE ~(i <= m)
    <3>1. i - m \in 1..n /\ u[i] = t[i - m]
      BY <1>1, <2>2
    <3>2. QED
      BY <1>2, <3>1
  <2>3. QED
    BY <2>1, <2>2
<1>4. ToSet(s) \subseteq ToSet(u)
  <2> SUFFICES ASSUME NEW i \in 1..m
               PROVE  s[i] \in ToSet(u)
    BY <1>2
  <2>1. i \in 1 .. m + n /\ u[i] = s[i]
    BY <1>1
  <2>2. QED
    BY <1>2, <2>1
<1>5. ToSet(t) \subseteq ToSet(u)
  <2> SUFFICES ASSUME NEW i \in 1..n
               PROVE  t[i] \in ToSet(u)
    BY <1>2
  <2>1. i + m \in 1 .. m + n /\ u[i + m] = t[i]
    BY <1>1
  <2>2. QED
    BY <1>2, <2>1
<1>6. ASSUME IsInjective(s), IsInjective(t), ToSet(s) \cap ToSet(t) = {}
      PROVE  IsInjective(u)
  <2> SUFFICES ASSUME NEW i \in 1 .. m + n, NEW j \in 1 .. m + n, u[i] = u[j]
               PROVE  i = j
    BY <1>2
  <2>1. CASE i <= m /\ j <= m
    BY <1>1, <1>2, <1>6, <2>1
  <2>2. CASE ~(i <= m) /\ ~(j <= m)
    <3>1. i - m \in 1..n /\ j - m \in 1..n /\ t[i - m] = t[j - m]
      BY <1>1, <2>2
    <3>2. \A k, l \in 1..n : t[k] = t[l] => k = l
      BY <1>2, <1>6
    <3>3. i - m = j - m
      BY <3>1, <3>2
    <3>4. QED
      BY <1>1, <3>3
  <2>3. \A k \in 1..m, l \in 1..n : s[k] # t[l]
    <3> TAKE k \in 1..m, l \in 1..n
    <3>1. s[k] \in ToSet(s) /\ t[l] \in ToSet(t)
      BY <1>2
    <3>2. QED
      BY <1>6, <3>1
  <2>4. CASE i <= m /\ ~(j <= m)
    <3>1. i \in 1..m /\ j - m \in 1..n /\ s[i] = t[j - m]
      BY <1>1, <2>4
    <3>2. QED
      BY <2>3, <3>1
  <2>5. CASE j <= m /\ ~(i <= m)
    <3>1. j \in 1..m /\ i - m \in 1..n /\ s[j] = t[i - m]
      BY <1>1, <2>5
    <3>2. QED
      BY <2>3, <3>1
  <2>6. QED
    BY <2>1, <2>2, <2>4, <2>5
<1>7. QED
  BY <1>1, <1>3, <1>4, <1>5, <1>6 DEF u

(* An element taken out of such a sequence.                                *)
LEMMA Removed ==
  ASSUME NEW T, NEW s \in Seq(T), IsInjective(s), NEW i \in 1..Len(s)
  PROVE  /\ RemoveAt(s, i) \in Seq(T) /\ IsInjective(RemoveAt(s, i))
         /\ ToSet(RemoveAt(s, i)) = ToSet(s) \ {s[i]}
<1> DEFINE n == Len(s)
           a == SubSeq(s, 1, i - 1)
           b == SubSeq(s, i + 1, n)
<1>1. n \in Nat /\ \A j \in 1..n : s[j] \in T
  BY LenProperties, ElementOfSeq
<1>2. a \in Seq(T) /\ Len(a) = i - 1 /\ \A j \in 1 .. i - 1 : a[j] = s[j]
  <2>1. \A j \in 1 .. i - 1 : s[j] \in T
    BY <1>1
  <2>2. /\ a \in Seq(T) /\ Len(a) = IF 1 <= i - 1 THEN (i - 1) - 1 + 1 ELSE 0
        /\ \A j \in 1 .. (i - 1) - 1 + 1 : a[j] = s[1 + j - 1]
    BY <1>1, <2>1, SubSeqProperties
  <2> HIDE DEF a
  <2>3. \A j \in 1 .. i - 1 : a[j] = s[j]
    <3> TAKE j \in 1 .. i - 1
    <3>1. j \in 1 .. (i - 1) - 1 + 1 /\ 1 + j - 1 = j
      BY <1>1
    <3>2. QED
      BY <2>2, <3>1
  <2>4. QED
    BY <1>1, <2>2, <2>3
<1>3. b \in Seq(T) /\ Len(b) = n - i /\ \A j \in 1 .. n - i : b[j] = s[i + j]
  <2>1. \A j \in i + 1 .. n : s[j] \in T
    BY <1>1
  <2>2. /\ b \in Seq(T) /\ Len(b) = IF i + 1 <= n THEN n - (i + 1) + 1 ELSE 0
        /\ \A j \in 1 .. n - (i + 1) + 1 : b[j] = s[(i + 1) + j - 1]
    BY <1>1, <2>1, SubSeqProperties
  <2> HIDE DEF b
  <2>3. \A j \in 1 .. n - i : b[j] = s[i + j]
    <3> TAKE j \in 1 .. n - i
    <3>1. j \in 1 .. n - (i + 1) + 1 /\ (i + 1) + j - 1 = i + j
      BY <1>1
    <3>2. QED
      BY <2>2, <3>1
  <2>4. QED
    BY <1>1, <2>2, <2>3
<1>4. RemoveAt(s, i) = a \o b
  BY DEF RemoveAt
<1> HIDE DEF a, b
<1>0. i - 1 \in Nat /\ n - i \in Nat
  BY <1>1
<1>a. /\ ToSet(a) = {a[j] : j \in 1 .. i - 1}
      /\ IsInjective(a) <=> \A j, k \in 1 .. i - 1 : a[j] = a[k] => j = k
  <2>1. PICK l : l = i - 1
    OBVIOUS
  <2>2. /\ ToSet(a) = {a[j] : j \in 1..l}
        /\ IsInjective(a) <=> \A j, k \in 1..l : a[j] = a[k] => j = k
    <3>1. l = Len(a) /\ a \in Seq(T)
      BY <1>2, <2>1
    <3>2. QED
      BY <3>1, InSeq
  <2>3. QED
    BY <2>1, <2>2
<1>b. /\ ToSet(b) = {b[j] : j \in 1 .. n - i}
      /\ IsInjective(b) <=> \A j, k \in 1 .. n - i : b[j] = b[k] => j = k
  <2>1. PICK l : l = n - i
    OBVIOUS
  <2>2. /\ ToSet(b) = {b[j] : j \in 1..l}
        /\ IsInjective(b) <=> \A j, k \in 1..l : b[j] = b[k] => j = k
    <3>1. l = Len(b) /\ b \in Seq(T)
      BY <1>3, <2>1
    <3>2. QED
      BY <3>1, InSeq
  <2>3. QED
    BY <2>1, <2>2
<1>c. /\ ToSet(s) = {s[j] : j \in 1..n}
      /\ \A j, k \in 1..n : s[j] = s[k] => j = k
  BY InSeq
<1>5. /\ ToSet(a) = {a[j] : j \in 1 .. i - 1} /\ ToSet(b) = {b[j] : j \in 1 .. n - i}
      /\ ToSet(s) = {s[j] : j \in 1..n}
      /\ \A j, k \in 1..n : s[j] = s[k] => j = k
      /\ IsInjective(a) <=> \A j, k \in 1 .. i - 1 : a[j] = a[k] => j = k
      /\ IsInjective(b) <=> \A j, k \in 1 .. n - i : b[j] = b[k] => j = k
  BY <1>a, <1>b, <1>c
<1> HIDE DEF n
<1>6. i \in 1..n
  BY DEF n
<1>7. ToSet(a) = {s[j] : j \in 1 .. i - 1}
  BY <1>2, <1>5
<1>8. ToSet(b) = {s[j] : j \in i + 1 .. n}
  <2>1. \A j \in 1 .. n - i : i + j \in i + 1 .. n /\ b[j] = s[i + j]
    BY <1>1, <1>3, <1>6
  <2>2. \A j \in i + 1 .. n : j - i \in 1 .. n - i /\ b[j - i] = s[j]
    <3> TAKE j \in i + 1 .. n
    <3>1. j - i \in 1 .. n - i /\ i + (j - i) = j
      BY <1>1, <1>6
    <3>2. QED
      BY <1>3, <3>1
  <2>3. QED
    BY <1>5, <2>1, <2>2
<1>9. IsInjective(a) /\ IsInjective(b)
  <2>1. \A j, k \in 1 .. i - 1 : a[j] = a[k] => j = k
    BY <1>1, <1>2, <1>5, <1>6
  <2>2. \A j, k \in 1 .. n - i : b[j] = b[k] => j = k
    <3> TAKE j, k \in 1 .. n - i
    <3>1. i + j \in 1..n /\ i + k \in 1..n /\ b[j] = s[i + j] /\ b[k] = s[i + k]
      BY <1>1, <1>3, <1>6
    <3>2. s[i + j] = s[i + k] => i + j = i + k
      BY <1>5, <3>1
    <3>3. QED
      BY <1>6, <3>1, <3>2
  <2>3. QED
    BY <1>5, <2>1, <2>2
<1>10. ToSet(a) \cap ToSet(b) = {} /\ s[i] \notin ToSet(a) /\ s[i] \notin ToSet(b)
  <2>0. (\A j \in 1 .. i - 1 : s[j] # s[i]) /\ (\A k \in i + 1 .. n : s[k] # s[i])
    BY <1>1, <1>5, <1>6
  <2>1. \A j \in 1 .. i - 1, k \in i + 1 .. n : s[j] # s[k] /\ s[j] # s[i] /\ s[k] # s[i]
    BY <1>1, <1>5, <1>6
  <2>2. ToSet(a) \cap ToSet(b) = {}
    BY <1>7, <1>8, <2>1
  <2>3. s[i] \notin ToSet(a)
    BY <1>7, <2>1, <1>6, <1>1, <2>0
  <2>4. s[i] \notin ToSet(b)
    BY <1>8, <2>0
  <2>5. QED
    BY <2>2, <2>3, <2>4
<1>11. ToSet(a) \union ToSet(b) = ToSet(s) \ {s[i]}
  <2>1. \A j \in 1..n : j \in 1 .. i - 1 \/ j = i \/ j \in i + 1 .. n
    BY <1>1, <1>6
  <2>2. \A j \in 1 .. i - 1 : j \in 1..n
    BY <1>1, <1>6
  <2>3. \A j \in i + 1 .. n : j \in 1..n
    BY <1>1, <1>6
  <2>4. ToSet(a) \union ToSet(b) \subseteq ToSet(s) \ {s[i]}
    BY <1>5, <1>7, <1>8, <1>10, <2>2, <2>3
  <2>5. ToSet(s) \ {s[i]} \subseteq ToSet(a) \union ToSet(b)
    BY <1>5, <1>7, <1>8, <2>1
  <2>6. QED
    BY <2>4, <2>5
<1>12. QED
  BY <1>2, <1>3, <1>4, <1>9, <1>10, <1>11, Joined

(* The first element of such a sequence and those behind it.               *)
LEMMA FirstAndRest ==
  ASSUME NEW T, NEW s \in Seq(T), s # <<>>, IsInjective(s)
  PROVE  /\ Head(s) \in T /\ Tail(s) \in Seq(T) /\ IsInjective(Tail(s))
         /\ ToSet(s) = {Head(s)} \union ToSet(Tail(s)) /\ Head(s) \notin ToSet(Tail(s))
<1>1. Len(s) \in Nat /\ 1 \in 1..Len(s) /\ Head(s) = s[1] /\ Head(s) \in T
  BY EmptySeq, LenProperties, HeadTailProperties
<1>2. RemoveAt(s, 1) = Tail(s)
  <2> DEFINE a == SubSeq(s, 1, 1 - 1)
             b == SubSeq(s, 1 + 1, Len(s))
  <2>1. a = <<>>
    BY <1>1
  <2>a. b = Tail(s) /\ b \in Seq(T)
    <3>1. Tail(s) = SubSeq(s, 2, Len(s)) /\ Tail(s) \in Seq(T) /\ 1 + 1 = 2
      BY TailIsSubSeq, HeadTailProperties
    <3>2. QED
      BY <3>1
  <2>2. RemoveAt(s, 1) = a \o b
    BY DEF RemoveAt
  <2> HIDE DEF a, b
  <2>3. QED
    BY <2>1, <2>a, <2>2, ConcatEmptySeq
<1>3. Tail(s) \in Seq(T) /\ IsInjective(Tail(s)) /\ ToSet(Tail(s)) = ToSet(s) \ {s[1]}
  <2>1. /\ RemoveAt(s, 1) \in Seq(T) /\ IsInjective(RemoveAt(s, 1))
        /\ ToSet(RemoveAt(s, 1)) = ToSet(s) \ {s[1]}
    BY <1>1, Removed
  <2>2. QED
    BY <1>2, <2>1
<1>4. s[1] \in ToSet(s)
  <2>1. ToSet(s) = {s[i] : i \in 1..Len(s)}
    BY InSeq
  <2>2. QED
    BY <1>1, <2>1
<1>5. QED
  BY <1>1, <1>3, <1>4

(* A sequence of one element, and the last element of any sequence.        *)
LEMMA OfOne ==
  ASSUME NEW T, NEW b \in T
  PROVE  /\ <<b>> \in Seq(T) /\ IsInjective(<<b>>) /\ ToSet(<<b>>) = {b}
         /\ <<b>> # <<>> /\ Head(<<b>>) = b
  BY DEF ToSet, IsInjective

LEMMA LastOf ==
  ASSUME NEW T, NEW s \in Seq(T), s # <<>>
  PROVE  Last(s) \in ToSet(s) /\ Last(s) \in T
<1>1. Len(s) \in 1..Len(s) /\ Last(s) = s[Len(s)]
  BY EmptySeq, LenProperties DEF Last
<1>2. QED
  BY <1>1, InSeq

(* An element put behind such a sequence it is not in yet.                 *)
LEMMA Behind ==
  ASSUME NEW T, NEW s \in Seq(T), IsInjective(s), NEW b \in T, b \notin ToSet(s)
  PROVE  /\ Append(s, b) \in Seq(T) /\ IsInjective(Append(s, b)) /\ Append(s, b) # <<>>
         /\ ToSet(Append(s, b)) = ToSet(s) \union {b}
         /\ s # <<>> => Head(Append(s, b)) = Head(s)
<1>1. Append(s, b) = s \o <<b>>
  BY AppendIsConcat
<1>2. /\ Append(s, b) \in Seq(T) /\ Append(s, b) # <<>>
      /\ s # <<>> => Head(Append(s, b)) = Head(s)
  BY AppendProperties, HeadTailAppend
<1>3. QED
  <2> DEFINE t == <<b>>
  <2>1. t \in Seq(T) /\ IsInjective(t) /\ ToSet(t) = {b}
    BY OfOne
  <2>2. Append(s, b) = s \o t
    BY <1>1
  <2> HIDE DEF t
  <2>3. IsInjective(s \o t) /\ ToSet(s \o t) = ToSet(s) \union ToSet(t)
    BY <2>1, Joined
  <2>4. QED
    BY <1>2, <2>1, <2>2, <2>3

-----------------------------------------------------------------------------
(* The inductive invariant: PoolInv does not say that a block of the free  *)
(* list is empty, nor that a pool that is used or asked has a block.       *)

Support ==
  /\ \A b \in ToSet(free) : size[b] # 0 /\ avail[b] = 0
  /\ \A p \in Pools : \A b \in ToSet(chain[p]) : size[b] # 0 /\ avail[b] <= size[b]
  /\ \A b \in Blocks : size[b] = 0 => avail[b] = 0
  /\ \A p \in Pools : chain[p] # <<>> => Hdr <= avail[Head(chain[p])]
  /\ \A p \in Pools : used[p] => chain[p] # <<>>
  /\ request # <<>> => chain[request[1]] # <<>>

IInv == PoolInv /\ Support

(* What php_new_block returns is in no pool, empty and large enough.       *)
LEMMA NewBlock ==
  ASSUME IInv, NEW b \in Blocks, NEW bytes \in Nat, php_new_block(b, bytes)
  PROVE  /\ free' \in Seq(Blocks) /\ IsInjective(free') /\ ToSet(free') = ToSet(free) \ {b}
         /\ size' \in [Blocks -> Nat] /\ \A c \in Blocks \ {b} : size'[c] = size[c]
         /\ avail[b] = 0 /\ size'[b] # 0 /\ bytes + MinFree <= size'[b]
         /\ \A p \in Pools : b \notin ToSet(chain[p])
<1> USE PoolAssumption
<1>1. /\ free \in Seq(Blocks) /\ IsInjective(free)
      /\ size \in [Blocks -> Nat] /\ avail \in [Blocks -> Nat]
      /\ \A p \in Pools : ToSet(chain[p]) \cap ToSet(free) = {}
      /\ \A p \in Pools : \A c \in ToSet(chain[p]) : size[c] # 0
      /\ \A c \in ToSet(free) : size[c] # 0 /\ avail[c] = 0
      /\ \A c \in Blocks : size[c] = 0 => avail[c] = 0
  BY DEF IInv, PoolInv, TypeOK, OwnedOnce, Support
<1>2. CASE FromFreeList(b, bytes)
  <2>1. PICK i \in DOMAIN free : b = free[i] /\ Fits(b, bytes) /\ free' = RemoveAt(free, i)
    BY <1>2 DEF FromFreeList
  <2>2. size' = size
    BY <1>2 DEF FromFreeList
  <2>3. i \in 1..Len(free)
    BY <1>1, LenProperties
  <2>4. b \in ToSet(free)
    BY <1>1, <2>1 DEF ToSet
  <2>5. free' \in Seq(Blocks) /\ IsInjective(free') /\ ToSet(free') = ToSet(free) \ {b}
    BY <1>1, <2>1, <2>3, Removed
  <2>6. bytes + MinFree <= size[b] /\ avail[b] = 0 /\ size[b] # 0
    BY <1>1, <2>1, <2>4 DEF Fits
  <2>7. \A p \in Pools : b \notin ToSet(chain[p])
    BY <1>1, <2>4
  <2>8. QED
    BY <1>1, <2>2, <2>5, <2>6, <2>7
<1>3. CASE FromMalloc(b, bytes)
  <2>1. size[b] = 0 /\ size' = [size EXCEPT ![b] = bytes + MinFree] /\ free' = free
    BY <1>3 DEF FromMalloc
  <2>2. b \notin ToSet(free) /\ avail[b] = 0 /\ \A p \in Pools : b \notin ToSet(chain[p])
    BY <1>1, <2>1
  <2>3. size' \in [Blocks -> Nat] /\ size'[b] = bytes + MinFree
        /\ \A c \in Blocks \ {b} : size'[c] = size[c]
    BY <1>1, <2>1
  <2>4. QED
    BY <1>1, <2>1, <2>2, <2>3
<1>4. QED
  BY <1>2, <1>3 DEF php_new_block

(* Everything the pools and the free list hold is a block.                 *)
LEMMA OfBlocks ==
  ASSUME free \in Seq(Blocks), chain \in [Pools -> Seq(Blocks)]
  PROVE  /\ ToSet(free) \subseteq Blocks
         /\ \A p \in Pools :
              /\ chain[p] \in Seq(Blocks) /\ ToSet(chain[p]) \subseteq Blocks
              /\ chain[p] # <<>> => Head(chain[p]) \in ToSet(chain[p])
<1>1. ToSet(free) \subseteq Blocks
  BY InSeq
<1>2. ASSUME NEW p \in Pools
      PROVE  /\ chain[p] \in Seq(Blocks) /\ ToSet(chain[p]) \subseteq Blocks
             /\ chain[p] # <<>> => Head(chain[p]) \in ToSet(chain[p])
  <2>1. chain[p] \in Seq(Blocks)
    OBVIOUS
  <2>2. ToSet(chain[p]) \subseteq Blocks
    BY <2>1, InSeq
  <2>3. ASSUME chain[p] # <<>>
        PROVE  Head(chain[p]) \in ToSet(chain[p])
    <3> DEFINE s == chain[p]
    <3>1. s \in Seq(Blocks) /\ s # <<>>
      BY <2>3
    <3> HIDE DEF s
    <3>2. Head(s) = s[1] /\ Len(s) \in Nat \ {0}
      BY <3>1, EmptySeq
    <3>3. s[1] \in ToSet(s)
      BY <3>1, <3>2, InSeq
    <3>4. QED
      BY <3>2, <3>3 DEF s
  <2>4. QED
    BY <2>1, <2>2, <2>3
<1>3. QED
  BY <1>1, <1>2

(* At the start there is nothing.                                          *)
LEMMA InitIInv == Init => IInv
<1> SUFFICES ASSUME Init
             PROVE  IInv
  OBVIOUS
<1>1. /\ free = <<>> /\ live = {} /\ request = <<>>
      /\ \A p \in Pools : chain[p] = <<>> /\ ~used[p]
  BY DEF Init
<1>2. TypeOK
  BY DEF Init, TypeOK
<1>3. OwnedOnce /\ Inside
  BY <1>1, OfNone DEF OwnedOnce, Inside
<1>4. Support
  BY <1>1, OfNone DEF Support, Init
<1>5. QED
  BY <1>2, <1>3, <1>4 DEF IInv, PoolInv

(* Alloc makes at most one new block the only one of its pool.             *)
LEMMA AllocKeeps ==
  ASSUME IInv, NEW p \in Pools, NEW n \in Sizes, Alloc(p, n)
  PROVE  IInv'
<1> USE PoolAssumption
<1>1. TypeOK /\ OwnedOnce /\ Inside /\ Support
  BY DEF IInv, PoolInv
<1>2. /\ request' = <<p, n>> /\ live' = live
      /\ used' = [used EXCEPT ![p] = @ \/ n # 0]
  BY DEF Alloc
<1>3. request' \in Pools \X Sizes /\ request'[1] = p /\ used' \in [Pools -> BOOLEAN] /\ live' \subseteq Region
      /\ \A q \in Pools \ {p} : used'[q] = used[q]
  BY <1>1, <1>2 DEF TypeOK
<1>4. CASE chain[p] # <<>>
  <2>1. UNCHANGED <<free, chain, size, avail>>
    BY <1>4 DEF Alloc
  <2>2. TypeOK'
    BY <1>1, <1>3, <2>1 DEF TypeOK
  <2>3. OwnedOnce' /\ Inside'
    BY <1>1, <1>2, <2>1 DEF OwnedOnce, Inside
  <2>4. Support'
    BY <1>1, <1>2, <1>3, <1>4, <2>1 DEF Support
  <2>5. QED
    BY <2>2, <2>3, <2>4 DEF IInv, PoolInv
<1>5. CASE chain[p] = <<>>
  <2>1. PICK b \in Blocks : /\ php_new_block(b, 0)
                            /\ chain' = [chain EXCEPT ![p] = <<b>>]
                            /\ avail' = [avail EXCEPT ![b] = @ + Hdr]
    BY <1>5 DEF Alloc
  <2>2. /\ free' \in Seq(Blocks) /\ IsInjective(free') /\ ToSet(free') = ToSet(free) \ {b}
        /\ size' \in [Blocks -> Nat] /\ \A c \in Blocks \ {b} : size'[c] = size[c]
        /\ avail[b] = 0 /\ size'[b] # 0 /\ MinFree <= size'[b]
        /\ \A q \in Pools : b \notin ToSet(chain[q])
    BY <2>1, NewBlock DEF IInv, PoolInv
  <2>3. /\ avail' \in [Blocks -> Nat] /\ avail'[b] = Hdr
        /\ \A c \in Blocks \ {b} : avail'[c] = avail[c]
    BY <1>1, <2>1, <2>2 DEF TypeOK
  <2>4. /\ chain' \in [Pools -> Seq(Blocks)] /\ chain'[p] = <<b>>
        /\ \A q \in Pools \ {p} : chain'[q] = chain[q]
        /\ ToSet(chain'[p]) = {b} /\ IsInjective(chain'[p]) /\ chain'[p] # <<>> /\ Head(chain'[p]) = b
    BY <1>1, <2>1, OfOne DEF TypeOK
  <2>5. TypeOK'
    BY <1>3, <2>2, <2>3, <2>4 DEF TypeOK
  <2>a. ToSet(free) \subseteq Blocks /\ \A q \in Pools : ToSet(chain[q]) \subseteq Blocks
    BY <1>1, OfBlocks DEF TypeOK
  <2>b. \A q \in Pools : chain[q] # <<>> => Head(chain[q]) \in ToSet(chain[q])
    BY <1>1, OfBlocks DEF TypeOK
  <2>6. OwnedOnce'
    <3>1. \A q \in Pools \ {p} : IsInjective(chain'[q]) /\ ToSet(chain'[q]) \cap ToSet(free') = {}
      BY <1>1, <2>2, <2>4 DEF OwnedOnce
    <3>2. IsInjective(chain'[p]) /\ ToSet(chain'[p]) \cap ToSet(free') = {}
      BY <2>2, <2>4
    <3>3. \A q, o \in Pools \ {p} : q # o => ToSet(chain'[q]) \cap ToSet(chain'[o]) = {}
      BY <1>1, <2>4 DEF OwnedOnce
    <3>4. \A q \in Pools \ {p} : ToSet(chain'[q]) \cap ToSet(chain'[p]) = {}
      BY <2>2, <2>4
    <3>5. \A q, o \in Pools : q # o => ToSet(chain'[q]) \cap ToSet(chain'[o]) = {}
      BY <3>3, <3>4
    <3>6. QED
      BY <2>2, <3>1, <3>2, <3>5 DEF OwnedOnce
  <2>7. \A r \in live : r.pool \in Pools /\ r.pool # p /\ r.block \in Blocks \ {b}
    BY <1>1, <1>5, <2>2, OfNone DEF TypeOK, Inside, Region
  <2>8. Inside'
    <3> SUFFICES ASSUME NEW r \in live
                 PROVE  /\ r.block \in ToSet(chain'[r.pool])
                        /\ r.block = Head(chain'[r.pool]) => Hdr <= r.from
                        /\ r.from < r.to /\ r.to <= avail'[r.block] /\ avail'[r.block] <= size'[r.block]
      BY <1>2 DEF Inside
    <3>1. chain'[r.pool] = chain[r.pool] /\ avail'[r.block] = avail[r.block] /\ size'[r.block] = size[r.block]
      BY <2>2, <2>3, <2>4, <2>7
    <3>2. QED
      BY <1>1, <3>1 DEF Inside
  <2>9. Support'
    <3>1. (\A c \in ToSet(free) : size[c] # 0 /\ avail[c] = 0)'
      BY <1>1, <2>2, <2>3, <2>a DEF Support, TypeOK
    <3>2. (\A q \in Pools : \A c \in ToSet(chain[q]) : size[c] # 0 /\ avail[c] <= size[c])'
      <4>1. size'[b] # 0 /\ avail'[b] <= size'[b]
        BY <2>2, <2>3
      <4>2. ASSUME NEW q \in Pools \ {p}, NEW c \in ToSet(chain[q])
            PROVE  size'[c] # 0 /\ avail'[c] <= size'[c]
        <5>1. c \in Blocks \ {b} /\ size[c] # 0 /\ avail[c] <= size[c]
          BY <1>1, <2>2, <2>a DEF Support
        <5>2. QED
          BY <2>2, <2>3, <5>1
      <4>3. QED
        BY <2>4, <4>1, <4>2
    <3>3. (\A c \in Blocks : size[c] = 0 => avail[c] = 0)'
      BY <1>1, <2>2, <2>3 DEF Support, TypeOK
    <3>4. (\A q \in Pools : chain[q] # <<>> => Hdr <= avail[Head(chain[q])])'
      <4>1. ASSUME NEW q \in Pools \ {p}, chain'[q] # <<>>
            PROVE  Hdr <= avail'[Head(chain'[q])]
        <5>1. chain'[q] = chain[q] /\ Head(chain[q]) \in Blocks \ {b} /\ Hdr <= avail[Head(chain[q])]
          BY <1>1, <2>2, <2>4, <2>a, <2>b, <4>1 DEF Support
        <5>2. QED
          BY <2>3, <5>1
      <4>2. Hdr <= avail'[Head(chain'[p])]
        BY <2>3, <2>4
      <4>3. QED
        BY <4>1, <4>2
    <3>5. (\A q \in Pools : used[q] => chain[q] # <<>>)'
      BY <1>1, <1>3, <2>4 DEF Support
    <3>6. QED
      BY <1>3, <2>4, <3>1, <3>2, <3>3, <3>4, <3>5 DEF Support
  <2>10. QED
    BY <2>5, <2>6, <2>8, <2>9 DEF IInv, PoolInv
<1>6. QED
  BY <1>4, <1>5

(* The request php_palloc answers.                                         *)
LEMMA Asked ==
  ASSUME IInv, request # <<>>
  PROVE  /\ request[1] \in Pools /\ request[2] \in Sizes /\ request = <<request[1], request[2]>>
         /\ Rounded(request[2]) \in Nat \ {0} /\ request[2] <= Rounded(request[2])
         /\ chain[request[1]] # <<>> /\ Last(chain[request[1]]) \in ToSet(chain[request[1]])
<1>1. request[1] \in Pools /\ request[2] \in Sizes /\ request = <<request[1], request[2]>>
  BY DEF IInv, PoolInv, TypeOK
<1>2. request[2] \in Nat /\ Align \in Nat \ {0}
  BY <1>1, PoolAssumption
<1>3. Rounded(request[2]) \in Nat \ {0} /\ request[2] <= Rounded(request[2])
  BY <1>2, RoundedEnough
<1>4. chain[request[1]] # <<>> /\ chain[request[1]] \in Seq(Blocks)
  BY <1>1 DEF IInv, PoolInv, TypeOK, Support
<1>5. Last(chain[request[1]]) \in ToSet(chain[request[1]])
  BY <1>4, LastOf
<1>6. QED
  BY <1>1, <1>3, <1>4, <1>5

(* php_palloc hands out a part of the last block that nobody has yet, or   *)
(* of a new block.                                                         *)
LEMMA PallocKeeps ==
  ASSUME IInv, php_palloc
  PROVE  IInv'
<1> USE PoolAssumption
<1>1. TypeOK /\ OwnedOnce /\ Inside /\ Support
  BY DEF IInv, PoolInv
<1>2. request # <<>> /\ request' = <<>> /\ used' = used
  BY DEF php_palloc
<1>3. PICK p \in Pools : p = request[1]
  BY <1>2, Asked
<1>4. PICK bytes \in Nat \ {0} : bytes = Rounded(request[2])
  BY <1>2, Asked
<1>5. PICK b \in ToSet(chain[p]) : b = Last(chain[p])
  BY <1>2, <1>3, Asked
<1>6. chain[p] # <<>>
  BY <1>2, <1>3, Asked
<1>7. ToSet(free) \subseteq Blocks /\ \A q \in Pools : ToSet(chain[q]) \subseteq Blocks
  BY <1>1, OfBlocks DEF TypeOK
<1>8. \A q \in Pools : chain[q] # <<>> => Head(chain[q]) \in ToSet(chain[q])
  BY <1>1, OfBlocks DEF TypeOK
<1>9. \A r \in live : r.pool \in Pools /\ r.block \in Blocks /\ r.from \in Nat /\ r.to \in Nat
  BY <1>1 DEF TypeOK, Region
<1>10. CASE avail[b] + bytes <= size[b]
  <2>1. HandOut(b, bytes) /\ UNCHANGED <<free, chain, size>>
    BY <1>2, <1>3, <1>4, <1>5, <1>10 DEF php_palloc
  <2>2. PICK new \in Region : /\ new = [pool |-> p, block |-> b, from |-> avail[b], to |-> avail[b] + bytes]
                              /\ live' = live \union {new}
    <3> DEFINE reg == [pool |-> p, block |-> b, from |-> avail[b], to |-> avail[b] + bytes]
    <3>1. avail[b] \in Nat /\ b \in Blocks
      BY <1>1, <1>7 DEF TypeOK
    <3>2. reg \in Region
      BY <3>1 DEF Region
    <3>3. live' = live \union {reg}
      BY <1>3, <2>1 DEF HandOut
    <3>4. QED
      BY <3>2, <3>3
  <2>3. /\ avail' \in [Blocks -> Nat] /\ avail'[b] = avail[b] + bytes
        /\ \A c \in Blocks \ {b} : avail'[c] = avail[c]
    BY <1>1, <1>7, <2>1 DEF HandOut, TypeOK
  <2>4. TypeOK'
    BY <1>1, <1>2, <2>1, <2>2, <2>3 DEF TypeOK
  <2>5. OwnedOnce'
    BY <1>1, <2>1 DEF OwnedOnce
  <2>6. avail[b] \in Nat /\ size[b] \in Nat /\ b \in Blocks
    BY <1>1, <1>7 DEF TypeOK
  <2>7. \A c \in Blocks : avail[c] \in Nat /\ avail'[c] \in Nat /\ avail[c] <= avail'[c]
                          /\ (avail[c] <= size[c] => avail'[c] <= size[c])
    <3> TAKE c \in Blocks
    <3>1. avail[c] \in Nat
      BY <1>1 DEF TypeOK
    <3>2. CASE c = b
      BY <1>10, <2>3, <2>6, <3>2
    <3>3. CASE c # b
      BY <2>3, <3>1, <3>3
    <3>4. QED
      BY <3>2, <3>3
  <2>8. Inside'
    <3>1. ASSUME NEW r \in live
          PROVE  /\ r.block \in ToSet(chain[r.pool])
                 /\ r.block = Head(chain[r.pool]) => Hdr <= r.from
                 /\ r.from < r.to /\ r.to <= avail'[r.block] /\ avail'[r.block] <= size[r.block]
      <4>1. /\ r.block \in ToSet(chain[r.pool])
            /\ r.block = Head(chain[r.pool]) => Hdr <= r.from
            /\ r.from < r.to /\ r.to <= avail[r.block] /\ avail[r.block] <= size[r.block]
        BY <1>1 DEF Inside
      <4>2. QED
        BY <1>9, <2>7, <4>1
    <3>2. /\ b \in ToSet(chain[p])
          /\ b = Head(chain[p]) => Hdr <= avail[b]
          /\ avail[b] < avail[b] + bytes /\ avail[b] + bytes <= avail'[b] /\ avail'[b] <= size[b]
      BY <1>1, <1>6, <1>10, <2>3, <2>6 DEF Support
    <3>3. /\ new.block = b /\ new.pool = p /\ new.from = avail[b] /\ new.to = avail[b] + bytes
      BY <2>2
    <3>4. \A r \in live' :
             /\ r.block \in ToSet(chain[r.pool])
             /\ r.block = Head(chain[r.pool]) => Hdr <= r.from
             /\ r.from < r.to /\ r.to <= avail'[r.block] /\ avail'[r.block] <= size[r.block]
      BY <2>2, <3>1, <3>2, <3>3
    <3>5. QED
      BY <2>1, <3>4 DEF Inside
  <2>9. Support'
    <3>1. \A c \in ToSet(free) : c \in Blocks \ {b} /\ size[c] # 0 /\ avail[c] = 0
      BY <1>1, <1>5, <1>7 DEF Support, OwnedOnce
    <3>2. \A q \in Pools : \A c \in ToSet(chain[q]) : size[c] # 0 /\ avail'[c] <= size[c]
      BY <1>1, <1>7, <2>7 DEF Support
    <3>3. \A c \in Blocks : size[c] = 0 => avail'[c] = 0
      BY <1>1, <1>10, <2>3, <2>6 DEF Support
    <3>4. ASSUME NEW q \in Pools, chain[q] # <<>>
          PROVE  Hdr <= avail'[Head(chain[q])]
      <4>1. Head(chain[q]) \in Blocks /\ Hdr <= avail[Head(chain[q])]
        BY <1>1, <1>7, <1>8, <3>4 DEF Support
      <4>2. QED
        BY <2>7, <4>1
    <3>5. \A c \in ToSet(free) : size[c] # 0 /\ avail'[c] = 0
      BY <2>3, <3>1
    <3>6. \A q \in Pools : used[q] => chain[q] # <<>>
      BY <1>1 DEF Support
    <3>7. QED
      BY <1>2, <2>1, <3>2, <3>3, <3>4, <3>5, <3>6 DEF Support
  <2>10. QED
    BY <2>4, <2>5, <2>8, <2>9 DEF IInv, PoolInv
<1>11. CASE ~(avail[b] + bytes <= size[b])
  <2>1. PICK c \in Blocks : /\ php_new_block(c, bytes)
                            /\ chain' = [chain EXCEPT ![p] = Append(@, c)]
                            /\ HandOut(c, bytes)
    BY <1>2, <1>3, <1>4, <1>5, <1>11 DEF php_palloc
  <2>2. /\ free' \in Seq(Blocks) /\ IsInjective(free') /\ ToSet(free') = ToSet(free) \ {c}
        /\ size' \in [Blocks -> Nat] /\ \A d \in Blocks \ {c} : size'[d] = size[d]
        /\ avail[c] = 0 /\ size'[c] # 0 /\ bytes + MinFree <= size'[c]
        /\ \A q \in Pools : c \notin ToSet(chain[q])
    BY <2>1, NewBlock
  <2>3. /\ avail' \in [Blocks -> Nat] /\ avail'[c] = bytes
        /\ \A d \in Blocks \ {c} : avail'[d] = avail[d]
    BY <1>1, <2>1, <2>2 DEF HandOut, TypeOK
  <2>4. PICK new \in Region : /\ new = [pool |-> p, block |-> c, from |-> 0, to |-> bytes]
                              /\ live' = live \union {new}
    <3> DEFINE reg == [pool |-> p, block |-> c, from |-> 0, to |-> bytes]
    <3>1. reg \in Region
      BY DEF Region
    <3>2. live' = live \union {reg}
      BY <1>3, <2>1, <2>2 DEF HandOut
    <3>3. QED
      BY <3>1, <3>2
  <2>5. /\ Append(chain[p], c) \in Seq(Blocks) /\ IsInjective(Append(chain[p], c))
        /\ Append(chain[p], c) # <<>> /\ ToSet(Append(chain[p], c)) = ToSet(chain[p]) \union {c}
        /\ Head(Append(chain[p], c)) = Head(chain[p])
    <3>1. chain[p] \in Seq(Blocks) /\ IsInjective(chain[p]) /\ c \notin ToSet(chain[p])
      BY <1>1, <2>2 DEF TypeOK, OwnedOnce
    <3>2. QED
      BY <1>6, <3>1, Behind
  <2>6. /\ chain' \in [Pools -> Seq(Blocks)] /\ IsInjective(chain'[p])
        /\ chain'[p] # <<>> /\ ToSet(chain'[p]) = ToSet(chain[p]) \union {c}
        /\ Head(chain'[p]) = Head(chain[p])
        /\ \A q \in Pools \ {p} : chain'[q] = chain[q]
    BY <1>1, <2>1, <2>5 DEF TypeOK
  <2>7. TypeOK'
    BY <1>1, <1>2, <2>2, <2>3, <2>4, <2>6 DEF TypeOK
  <2>8. OwnedOnce'
    <3>1. \A q \in Pools : IsInjective(chain'[q]) /\ ToSet(chain'[q]) \cap ToSet(free') = {}
      BY <1>1, <2>2, <2>6 DEF OwnedOnce
    <3>2. \A q, o \in Pools \ {p} : q # o => ToSet(chain'[q]) \cap ToSet(chain'[o]) = {}
      BY <1>1, <2>6 DEF OwnedOnce
    <3>3. \A q \in Pools \ {p} : ToSet(chain'[q]) \cap ToSet(chain'[p]) = {}
      <4> TAKE q \in Pools \ {p}
      <4>1. ToSet(chain[q]) \cap ToSet(chain[p]) = {} /\ c \notin ToSet(chain[q])
        BY <1>1, <2>2 DEF OwnedOnce
      <4>2. chain'[q] = chain[q] /\ ToSet(chain'[p]) = ToSet(chain[p]) \union {c}
        BY <2>6
      <4>3. QED
        BY <4>1, <4>2
    <3>4. \A q, o \in Pools : q # o => ToSet(chain'[q]) \cap ToSet(chain'[o]) = {}
      BY <3>2, <3>3
    <3>5. QED
      BY <2>2, <3>1, <3>4 DEF OwnedOnce
  <2>9. ASSUME NEW q \in Pools, chain[q] # <<>>
        PROVE  chain'[q] # <<>> /\ Head(chain'[q]) = Head(chain[q]) /\ Head(chain[q]) \in Blocks \ {c}
    BY <1>7, <1>8, <2>2, <2>6, <2>9
  <2>10. Inside'
    <3>1. ASSUME NEW r \in live
          PROVE  /\ r.block \in ToSet(chain'[r.pool])
                 /\ r.block = Head(chain'[r.pool]) => Hdr <= r.from
                 /\ r.from < r.to /\ r.to <= avail'[r.block] /\ avail'[r.block] <= size'[r.block]
      <4>1. /\ r.block \in ToSet(chain[r.pool])
            /\ r.block = Head(chain[r.pool]) => Hdr <= r.from
            /\ r.from < r.to /\ r.to <= avail[r.block] /\ avail[r.block] <= size[r.block]
        BY <1>1 DEF Inside
      <4>2. r.block # c /\ avail'[r.block] = avail[r.block] /\ size'[r.block] = size[r.block]
        BY <1>9, <2>2, <2>3, <4>1
      <4>3. chain[r.pool] # <<>>
        BY <4>1, OfNone
      <4>4. r.block \in ToSet(chain'[r.pool]) /\ Head(chain'[r.pool]) = Head(chain[r.pool])
        BY <1>9, <2>6, <4>1
      <4>5. QED
        BY <4>1, <4>2, <4>4
    <3>2. c \in ToSet(chain'[p]) /\ c # Head(chain'[p])
      BY <1>6, <2>6, <2>9
    <3>3. 0 < bytes /\ bytes <= avail'[c] /\ avail'[c] <= size'[c]
      BY <2>2, <2>3
    <3>4. /\ new.block = c /\ new.pool = p /\ new.from = 0 /\ new.to = bytes
      BY <2>4
    <3>5. QED
      BY <2>4, <3>1, <3>2, <3>3, <3>4 DEF Inside
  <2>11. Support'
    <3>1. \A d \in ToSet(free') : size'[d] # 0 /\ avail'[d] = 0
      BY <1>1, <1>7, <2>2, <2>3 DEF Support
    <3>2. \A q \in Pools : \A d \in ToSet(chain[q]) : size'[d] # 0 /\ avail'[d] <= size'[d]
      <4> TAKE q \in Pools
      <4> TAKE d \in ToSet(chain[q])
      <4>1. d \in Blocks \ {c} /\ size[d] # 0 /\ avail[d] <= size[d]
        BY <1>1, <1>7, <2>2 DEF Support
      <4>2. QED
        BY <2>2, <2>3, <4>1
    <3>3. size'[c] # 0 /\ avail'[c] <= size'[c]
      BY <2>2, <2>3
    <3>4. \A q \in Pools : \A d \in ToSet(chain'[q]) : size'[d] # 0 /\ avail'[d] <= size'[d]
      BY <2>6, <3>2, <3>3
    <3>5. \A d \in Blocks : size'[d] = 0 => avail'[d] = 0
      BY <1>1, <2>2, <2>3 DEF Support
    <3>6. ASSUME NEW q \in Pools, chain'[q] # <<>>
          PROVE  Hdr <= avail'[Head(chain'[q])]
      <4>1. chain[q] # <<>>
        BY <1>6, <2>6, <3>6
      <4>2. Hdr <= avail[Head(chain[q])] /\ Head(chain'[q]) = Head(chain[q]) /\ Head(chain[q]) \in Blocks \ {c}
        BY <1>1, <2>9, <4>1 DEF Support
      <4>3. QED
        BY <2>3, <4>2
    <3>7. \A q \in Pools : used'[q] => chain'[q] # <<>>
      BY <1>1, <1>2, <2>9 DEF Support
    <3>8. QED
      BY <1>2, <3>1, <3>4, <3>5, <3>6, <3>7 DEF Support
  <2>12. QED
    BY <2>7, <2>8, <2>10, <2>11 DEF IInv, PoolInv
<1>12. QED
  BY <1>10, <1>11

(* What Clear does: the first block stays with the header in it, the others*)
(* move to the free list, empty.                                           *)
LEMMA Cleared ==
  ASSUME IInv, NEW p \in Pools, Clear(p)
  PROVE  \E h \in Blocks, t \in Seq(Blocks) :
           /\ ToSet(chain[p]) = {h} \union ToSet(t) /\ h \notin ToSet(t) /\ h = Head(chain[p])
           /\ chain[p] # <<>>
           /\ free' \in Seq(Blocks) /\ IsInjective(free') /\ ToSet(free') = ToSet(free) \union ToSet(t)
           /\ chain' = [chain EXCEPT ![p] = <<h>>]
           /\ avail' \in [Blocks -> Nat] /\ avail'[h] = Hdr
           /\ \A b \in ToSet(t) : b \in Blocks /\ avail'[b] = 0
           /\ \A b \in Blocks : b # h /\ b \notin ToSet(t) => avail'[b] = avail[b]
<1> USE PoolAssumption
<1> DEFINE h == Head(chain[p])
           t == Tail(chain[p])
<1>1. TypeOK /\ OwnedOnce /\ Support
  BY DEF IInv, PoolInv
<1>2. chain[p] \in Seq(Blocks) /\ chain[p] # <<>> /\ IsInjective(chain[p])
  BY <1>1 DEF TypeOK, OwnedOnce, Support, Clear
<1>3. /\ h \in Blocks /\ t \in Seq(Blocks) /\ IsInjective(t)
      /\ ToSet(chain[p]) = {h} \union ToSet(t) /\ h \notin ToSet(t)
  BY <1>2, FirstAndRest
<1>4. free' = t \o free /\ avail' = [Emptied(t) EXCEPT ![h] = Hdr] /\ chain' = [chain EXCEPT ![p] = <<h>>]
  BY <1>1 DEF Clear, FreeList, ChainAfterClear, TypeOK
<1>5. h = Head(chain[p])
  OBVIOUS
<1> HIDE DEF h, t
<1>6. free' \in Seq(Blocks) /\ IsInjective(free') /\ ToSet(free') = ToSet(free) \union ToSet(t)
  <2>1. free \in Seq(Blocks) /\ IsInjective(free) /\ ToSet(t) \cap ToSet(free) = {}
    BY <1>1, <1>3 DEF TypeOK, OwnedOnce
  <2>2. t \o free \in Seq(Blocks) /\ IsInjective(t \o free) /\ ToSet(t \o free) = ToSet(t) \union ToSet(free)
    BY <1>3, <2>1, Joined
  <2>3. QED
    BY <1>4, <2>2
<1>7. ToSet(t) \subseteq Blocks
  BY <1>3, InSeq
<1>8. /\ avail' \in [Blocks -> Nat] /\ avail'[h] = Hdr
      /\ \A b \in Blocks : b # h => avail'[b] = IF b \in ToSet(t) THEN 0 ELSE avail[b]
  BY <1>1, <1>3, <1>4 DEF Emptied, TypeOK
<1>9. (\A b \in ToSet(t) : b \in Blocks /\ avail'[b] = 0)
      /\ \A b \in Blocks : b # h /\ b \notin ToSet(t) => avail'[b] = avail[b]
  BY <1>3, <1>7, <1>8
<1>10. QED
  BY <1>2, <1>3, <1>4, <1>5, <1>6, <1>8, <1>9

LEMMA ClearKeeps ==
  ASSUME IInv, NEW p \in Pools, Clear(p)
  PROVE  IInv'
<1> USE PoolAssumption
<1>1. TypeOK /\ OwnedOnce /\ Inside /\ Support
  BY DEF IInv, PoolInv
<1>2. PICK h \in Blocks, t \in Seq(Blocks) :
           /\ ToSet(chain[p]) = {h} \union ToSet(t) /\ h \notin ToSet(t) /\ h = Head(chain[p])
           /\ chain[p] # <<>>
           /\ free' \in Seq(Blocks) /\ IsInjective(free') /\ ToSet(free') = ToSet(free) \union ToSet(t)
           /\ chain' = [chain EXCEPT ![p] = <<h>>]
           /\ avail' \in [Blocks -> Nat] /\ avail'[h] = Hdr
           /\ \A b \in ToSet(t) : b \in Blocks /\ avail'[b] = 0
           /\ \A b \in Blocks : b # h /\ b \notin ToSet(t) => avail'[b] = avail[b]
  BY Cleared
<1>3. /\ request = <<>> /\ request' = <<>> /\ used[p] /\ used' = [used EXCEPT ![p] = FALSE]
      /\ live' = {r \in live : r.pool # p} /\ size' = size
  BY DEF Clear
<1>4. /\ chain' \in [Pools -> Seq(Blocks)] /\ IsInjective(chain'[p])
      /\ chain'[p] # <<>> /\ ToSet(chain'[p]) = {h} /\ Head(chain'[p]) = h
      /\ \A q \in Pools \ {p} : chain'[q] = chain[q]
  BY <1>1, <1>2, OfOne DEF TypeOK
<1>5. ToSet(free) \subseteq Blocks /\ \A q \in Pools : ToSet(chain[q]) \subseteq Blocks
  BY <1>1, OfBlocks DEF TypeOK
<1>6. \A q \in Pools : chain[q] # <<>> => Head(chain[q]) \in ToSet(chain[q])
  BY <1>1, OfBlocks DEF TypeOK
<1>7. \A q \in Pools \ {p} : \A b \in ToSet(chain[q]) : b \in Blocks /\ avail'[b] = avail[b]
  <2> TAKE q \in Pools \ {p}
  <2> TAKE b \in ToSet(chain[q])
  <2>1. b \notin ToSet(chain[p]) /\ b \in Blocks
    BY <1>1, <1>5 DEF OwnedOnce
  <2>2. QED
    BY <1>2, <2>1
<1>8. TypeOK'
  BY <1>1, <1>2, <1>3, <1>4 DEF TypeOK
<1>9. OwnedOnce'
  <2>1. \A q \in Pools \ {p} : IsInjective(chain'[q]) /\ ToSet(chain'[q]) \cap ToSet(free') = {}
    <3> TAKE q \in Pools \ {p}
    <3>1. IsInjective(chain[q]) /\ ToSet(chain[q]) \cap ToSet(free) = {} /\ ToSet(chain[q]) \cap ToSet(chain[p]) = {}
      BY <1>1 DEF OwnedOnce
    <3>2. QED
      BY <1>2, <1>4, <3>1
  <2>2. ToSet(chain'[p]) \cap ToSet(free') = {}
    BY <1>1, <1>2, <1>4 DEF OwnedOnce
  <2>3. \A q, o \in Pools \ {p} : q # o => ToSet(chain'[q]) \cap ToSet(chain'[o]) = {}
    BY <1>1, <1>4 DEF OwnedOnce
  <2>4. \A q \in Pools \ {p} : ToSet(chain'[q]) \cap ToSet(chain'[p]) = {}
    <3> TAKE q \in Pools \ {p}
    <3>1. ToSet(chain[q]) \cap ToSet(chain[p]) = {}
      BY <1>1 DEF OwnedOnce
    <3>2. QED
      BY <1>2, <1>4, <3>1
  <2>5. \A q, o \in Pools : q # o => ToSet(chain'[q]) \cap ToSet(chain'[o]) = {}
    <3>1. ASSUME NEW q \in Pools, NEW o \in Pools, q # o, o = p
          PROVE  ToSet(chain'[q]) \cap ToSet(chain'[o]) = {}
      BY <2>4, <3>1
    <3>2. ASSUME NEW q \in Pools, NEW o \in Pools, q # o, q = p
          PROVE  ToSet(chain'[q]) \cap ToSet(chain'[o]) = {}
      BY <3>1, <3>2
    <3>3. QED
      BY <2>3, <3>1, <3>2
  <2>6. QED
    BY <1>2, <1>4, <2>1, <2>2, <2>5 DEF OwnedOnce
<1>10. Inside'
  <2> SUFFICES ASSUME NEW r \in live, r.pool # p
               PROVE  /\ r.block \in ToSet(chain'[r.pool])
                      /\ r.block = Head(chain'[r.pool]) => Hdr <= r.from
                      /\ r.from < r.to /\ r.to <= avail'[r.block] /\ avail'[r.block] <= size[r.block]
    BY <1>3 DEF Inside
  <2>1. r.pool \in Pools \ {p}
    BY <1>1 DEF TypeOK, Region
  <2>2. /\ r.block \in ToSet(chain[r.pool])
        /\ r.block = Head(chain[r.pool]) => Hdr <= r.from
        /\ r.from < r.to /\ r.to <= avail[r.block] /\ avail[r.block] <= size[r.block]
    BY <1>1 DEF Inside
  <2>3. avail'[r.block] = avail[r.block] /\ chain'[r.pool] = chain[r.pool]
    BY <1>4, <1>7, <2>1, <2>2
  <2>4. QED
    BY <2>2, <2>3
<1>11. Support'
  <2>1. \A b \in ToSet(chain[p]) : size[b] # 0 /\ avail[b] <= size[b]
    BY <1>1 DEF Support
  <2>2. \A b \in ToSet(free') : size[b] # 0 /\ avail'[b] = 0
    <3> TAKE b \in ToSet(free')
    <3>1. CASE b \in ToSet(t)
      BY <1>2, <2>1, <3>1
    <3>2. CASE b \in ToSet(free) /\ b \notin ToSet(t)
      <4>1. b \in Blocks /\ b \notin ToSet(chain[p]) /\ size[b] # 0 /\ avail[b] = 0
        BY <1>1, <1>5, <3>2 DEF OwnedOnce, Support
      <4>2. QED
        BY <1>2, <4>1
    <3>3. QED
      BY <1>2, <3>1, <3>2
  <2>3. Hdr <= avail[h] /\ avail[h] <= size[h] /\ avail[h] \in Nat /\ size[h] \in Nat /\ size[h] # 0
    BY <1>1, <1>2, <2>1 DEF Support, TypeOK
  <2>4. \A q \in Pools : \A b \in ToSet(chain'[q]) : size[b] # 0 /\ avail'[b] <= size[b]
    <3> TAKE q \in Pools
    <3> TAKE b \in ToSet(chain'[q])
    <3>1. CASE q = p
      BY <1>2, <1>4, <2>3, <3>1
    <3>2. CASE q # p
      BY <1>1, <1>4, <1>7, <3>2 DEF Support
    <3>3. QED
      BY <3>1, <3>2
  <2>5. \A b \in Blocks : size[b] = 0 => avail'[b] = 0
    <3> TAKE b \in Blocks
    <3>1. b \in ToSet(chain[p]) => size[b] # 0
      BY <2>1
    <3>2. size[b] = 0 => avail[b] = 0
      BY <1>1 DEF Support
    <3>3. QED
      BY <1>2, <3>1, <3>2
  <2>6. \A q \in Pools : chain'[q] # <<>> => Hdr <= avail'[Head(chain'[q])]
    <3> TAKE q \in Pools
    <3>1. CASE q = p
      BY <1>2, <1>4, <3>1
    <3>2. CASE q # p /\ chain[q] # <<>>
      <4>1. Head(chain[q]) \in ToSet(chain[q]) /\ Hdr <= avail[Head(chain[q])]
        BY <1>1, <1>6, <3>2 DEF Support
      <4>2. QED
        BY <1>4, <1>7, <3>2, <4>1
    <3>3. QED
      BY <1>4, <3>1, <3>2
  <2>7. \A q \in Pools : used'[q] => chain'[q] # <<>>
    BY <1>1, <1>3, <1>4 DEF Support, TypeOK
  <2>8. QED
    BY <1>3, <2>2, <2>4, <2>5, <2>6, <2>7 DEF Support
<1>12. QED
  BY <1>8, <1>9, <1>10, <1>11 DEF IInv, PoolInv

(* What EndRequest does: the blocks it frees are those of pools 1 and 2    *)
(* that are used, and no pool has a block any more.                        *)
LEMMA Ended ==
  ASSUME IInv, EndRequest
  PROVE  \E s \in Seq(Blocks) :
           /\ ToSet(s) = ToSet(Freed(2)) \union ToSet(Freed(1))
           /\ \A b \in ToSet(s) : b \in Blocks /\ size[b] # 0
           /\ free' \in Seq(Blocks) /\ IsInjective(free') /\ ToSet(free') = ToSet(free) \union ToSet(s)
           /\ avail' = Emptied(s)
<1>1. TypeOK /\ OwnedOnce /\ Support
  BY DEF IInv, PoolInv
<1>2. 1 \in Pools /\ 2 \in Pools
  BY DEF Pools
<1>3. ASSUME NEW p \in {1, 2}
      PROVE  /\ Freed(p) \in Seq(Blocks) /\ IsInjective(Freed(p)) /\ ToSet(Freed(p)) \subseteq ToSet(chain[p])
             /\ \A b \in ToSet(Freed(p)) : b \in Blocks /\ size[b] # 0
  <2>1. /\ chain[p] \in Seq(Blocks) /\ IsInjective(chain[p]) /\ ToSet(chain[p]) \subseteq Blocks
        /\ \A b \in ToSet(chain[p]) : size[b] # 0
    BY <1>1, <1>2, OfBlocks DEF TypeOK, OwnedOnce, Support
  <2>2. <<>> \in Seq(Blocks)
    BY EmptySeq
  <2>3. QED
    BY <2>1, <2>2, OfNone DEF Freed
<1>4. ToSet(chain[2]) \cap ToSet(chain[1]) = {}
  BY <1>1, <1>2 DEF OwnedOnce
<1>5. PICK s : s = Freed(2) \o Freed(1)
  OBVIOUS
<1>6. /\ s \in Seq(Blocks) /\ IsInjective(s) /\ ToSet(s) = ToSet(Freed(2)) \union ToSet(Freed(1))
  BY <1>3, <1>4, <1>5, Joined
<1>7. free \in Seq(Blocks) /\ IsInjective(free) /\ ToSet(s) \cap ToSet(free) = {}
  <2>1. ToSet(chain[1]) \cap ToSet(free) = {} /\ ToSet(chain[2]) \cap ToSet(free) = {}
    BY <1>1, <1>2 DEF OwnedOnce
  <2>2. QED
    BY <1>1, <1>3, <1>6, <2>1 DEF TypeOK, OwnedOnce
<1>8. free' = s \o free /\ avail' = Emptied(s)
  BY <1>5 DEF EndRequest, FreeList
<1>9. free' \in Seq(Blocks) /\ IsInjective(free') /\ ToSet(free') = ToSet(free) \union ToSet(s)
  BY <1>6, <1>7, <1>8, Joined
<1>10. \A b \in ToSet(s) : b \in Blocks /\ size[b] # 0
  BY <1>3, <1>6
<1>11. QED
  BY <1>6, <1>8, <1>9, <1>10

LEMMA EndKeeps ==
  ASSUME IInv, EndRequest
  PROVE  IInv'
<1>1. TypeOK /\ OwnedOnce /\ Support
  BY DEF IInv, PoolInv
<1>2. PICK s \in Seq(Blocks) :
           /\ \A b \in ToSet(s) : b \in Blocks /\ size[b] # 0
           /\ free' \in Seq(Blocks) /\ IsInjective(free') /\ ToSet(free') = ToSet(free) \union ToSet(s)
           /\ avail' = Emptied(s)
  BY Ended
<1>3. /\ request = <<>> /\ request' = <<>> /\ size' = size /\ live' = {}
      /\ \A p \in Pools : chain'[p] = <<>> /\ ~used'[p]
      /\ chain' \in [Pools -> Seq(Blocks)] /\ used' \in [Pools -> BOOLEAN]
  BY EmptySeq DEF EndRequest
<1>4. avail' \in [Blocks -> Nat] /\ \A b \in Blocks : avail'[b] = IF b \in ToSet(s) THEN 0 ELSE avail[b]
  BY <1>1, <1>2 DEF Emptied, TypeOK
<1>5. TypeOK'
  BY <1>1, <1>2, <1>3, <1>4 DEF TypeOK
<1>6. OwnedOnce' /\ Inside'
  BY <1>2, <1>3, OfNone DEF OwnedOnce, Inside
<1>7. Support'
  <2>1. ToSet(free) \subseteq Blocks
    BY <1>1, OfBlocks DEF TypeOK
  <2>2. \A b \in ToSet(free') : size[b] # 0 /\ avail'[b] = 0
    BY <1>1, <1>2, <1>4, <2>1 DEF Support
  <2>3. \A b \in Blocks : size[b] = 0 => avail'[b] = 0
    BY <1>1, <1>2, <1>4 DEF Support
  <2>4. QED
    BY <1>3, <2>2, <2>3, OfNone DEF Support
<1>8. QED
  BY <1>5, <1>6, <1>7 DEF IInv, PoolInv

-----------------------------------------------------------------------------
(* The theorems. *)

(* The inductive invariant holds in every state: every block is in one     *)
(* place, and the blocks that are free are empty (pool.c:255-405).         *)
THEOREM PoolInvariant == Spec => []IInv
<1>1. ASSUME IInv, [Next]_vars
      PROVE  IInv'
  <2>1. ASSUME NEW p \in Pools, NEW n \in Sizes, Alloc(p, n)
        PROVE  IInv'
    BY <1>1, <2>1, AllocKeeps
  <2>2. CASE php_palloc
    BY <1>1, <2>2, PallocKeeps
  <2>3. ASSUME NEW p \in Pools, Clear(p)
        PROVE  IInv'
    BY <1>1, <2>3, ClearKeeps
  <2>4. CASE EndRequest
    BY <1>1, <2>4, EndKeeps
  <2>5. CASE UNCHANGED vars
    BY <1>1, <2>5 DEF vars, IInv, PoolInv, TypeOK, OwnedOnce, Inside, Support
  <2>6. QED
    BY <1>1, <2>1, <2>2, <2>3, <2>4, <2>5 DEF Next
<1>2. QED
  BY <1>1, InitIInv, PTL DEF Spec

(* What is handed out lies within a block of its own pool, and no block is *)
(* in two pools, or in a pool and free, or free twice: clearing a pool     *)
(* never takes memory away from another one (pool.c:338-405).              *)
THEOREM PoolOwned == Spec => []PoolInv
<1>1. IInv => PoolInv
  BY DEF IInv
<1>2. QED
  BY <1>1, PoolInvariant, PTL

(* The pools implement an arena: each request is answered by as many bytes *)
(* as were asked for, and they overlap no region that is still in use,     *)
(* whatever was cleared, freed and taken again before (pool.c:207-405).    *)
THEOREM PoolImplements == Spec => Implements
<1>1. Init => A!Init
  BY DEF Init, A!Init
<1>2. ASSUME IInv, [Next]_vars
      PROVE  [A!Next]_<<request, live>>
  <2>1. ASSUME NEW p \in Pools, NEW n \in Sizes, Alloc(p, n)
        PROVE  A!Next
    <3>1. A!Ask(p, n)
      BY <2>1 DEF Alloc, A!Ask
    <3>2. QED
      BY <3>1 DEF A!Next
  <2>2. CASE php_palloc
    <3>1. request # <<>> /\ request' = <<>>
      BY <2>2 DEF php_palloc
    <3>2. PICK bytes \in Nat \ {0} : bytes = Rounded(request[2]) /\ request[2] <= bytes
      BY <1>2, <3>1, Asked
    <3>3. TypeOK /\ Inside /\ Support
      BY <1>2 DEF IInv, PoolInv
    <3>4. \E b \in Blocks : HandOut(b, bytes)
      <4>1. Last(chain[request[1]]) \in Blocks
        <5>1. request[1] \in Pools /\ Last(chain[request[1]]) \in ToSet(chain[request[1]])
          BY <1>2, <3>1, Asked
        <5>2. QED
          BY <3>3, <5>1, OfBlocks DEF TypeOK
      <4>2. QED
        BY <2>2, <3>2, <4>1 DEF php_palloc
    <3>5. PICK b \in Blocks : HandOut(b, bytes)
      BY <3>4
    <3>6. avail[b] \in Nat
      BY <3>3 DEF TypeOK
    <3>7. PICK r : r = [pool |-> request[1], block |-> b, from |-> avail[b], to |-> avail[b] + bytes]
      OBVIOUS
    <3>8. live' = live \union {r} /\ r.pool = request[1] /\ r.block = b /\ r.from = avail[b] /\ r.to = avail[b] + bytes
      BY <3>5, <3>7 DEF HandOut
    <3>9. r.to - r.from >= request[2]
      <4>1. request[2] \in Int
        BY <1>2, <3>1, Asked, PoolAssumption
      <4>2. QED
        BY <3>2, <3>6, <3>8, <4>1
    <3>10. \A s \in live : ~A!Overlap(r, s)
      <4> TAKE s \in live
      <4>1. s.to <= avail[s.block] /\ s.to \in Nat /\ s.block \in Blocks
        BY <3>3 DEF Inside, TypeOK, Region
      <4>2. s.block = b => ~(avail[b] < s.to)
        BY <3>6, <4>1
      <4>3. QED
        BY <3>8, <4>2 DEF A!Overlap
    <3>11. A!Grant
      BY <3>1, <3>8, <3>9, <3>10 DEF A!Grant
    <3>12. QED
      BY <3>11 DEF A!Next
  <2>3. ASSUME NEW p \in Pools, Clear(p)
        PROVE  A!Next
    <3>1. A!Clear(p)
      BY <2>3 DEF Clear, A!Clear
    <3>2. QED
      BY <3>1 DEF A!Next
  <2>4. CASE EndRequest
    <3>1. A!EndRequest
      BY <2>4 DEF EndRequest, A!EndRequest
    <3>2. QED
      BY <3>1 DEF A!Next
  <2>5. CASE UNCHANGED vars
    BY <2>5 DEF vars
  <2>6. QED
    BY <1>2, <2>1, <2>2, <2>3, <2>4, <2>5 DEF Next
<1>3. QED
  BY <1>1, <1>2, PoolInvariant, PTL DEF Spec, Implements, A!Spec

-----------------------------------------------------------------------------
(* Blocks that get lost. *)

Owned == ToSet(free) \union UNION {ToSet(chain[p]) : p \in Pools}

(* What makes a step lose no block.                                        *)
LEMMA NothingLost ==
  ASSUME \A b \in Blocks : b \in Owned \/ size'[b] # size[b] => b \in Owned'
  PROVE  Leaked' \subseteq Leaked
<1> SUFFICES ASSUME NEW b \in Leaked'
             PROVE  b \in Leaked
  OBVIOUS
<1>1. b \in Blocks /\ size'[b] # 0 /\ b \notin Owned'
  BY DEF Leaked, Owned
<1>2. b \notin Owned /\ size[b] # 0
  BY <1>1
<1>3. QED
  BY <1>1, <1>2 DEF Leaked, Owned

(* Within a request no block gets lost, and its end loses only blocks of   *)
(* pool 0 and of pools that were cleared and not used since (pool.c:364).  *)
THEOREM PoolLeaks == Spec => LeaksAtEndOnly
<1> DEFINE Step == \A b \in Leaked' \ Leaked :
                     EndRequest /\ \E p \in Pools : b \in ToSet(chain[p]) /\ (p = 0 \/ ~used[p])
<1>1. ASSUME IInv, Next
      PROVE  Step
  <2> USE DEF Step
  <2>0. TypeOK
    BY <1>1 DEF IInv, PoolInv
  <2>1. ASSUME NEW p \in Pools, NEW n \in Sizes, Alloc(p, n)
        PROVE  Step
    <3>1. CASE chain[p] # <<>>
      <4>1. free' = free /\ chain' = chain /\ size' = size
        BY <2>1, <3>1 DEF Alloc
      <4>2. Owned' = Owned
        BY <4>1 DEF Owned
      <4>3. QED
        BY <4>1, <4>2, NothingLost
    <3>2. CASE chain[p] = <<>>
      <4>1. PICK b \in Blocks : php_new_block(b, 0) /\ chain' = [chain EXCEPT ![p] = <<b>>]
        BY <2>1, <3>2 DEF Alloc
      <4>2. ToSet(free') = ToSet(free) \ {b} /\ \A c \in Blocks \ {b} : size'[c] = size[c]
        BY <1>1, <4>1, NewBlock
      <4>3. ToSet(chain'[p]) = {b} /\ ToSet(chain[p]) = {} /\ \A q \in Pools \ {p} : chain'[q] = chain[q]
        BY <2>0, <3>2, <4>1, OfOne, OfNone DEF TypeOK
      <4>4. \A c \in Blocks : c \in Owned \/ size'[c] # size[c] => c \in Owned'
        BY <4>2, <4>3 DEF Owned
      <4>5. QED
        BY <4>4, NothingLost
    <3>3. QED
      BY <3>1, <3>2
  <2>2. CASE php_palloc
    <3>1. PICK p \in Pools : p = request[1]
      BY <1>1, <2>2, Asked DEF php_palloc
    <3>2. CASE UNCHANGED <<free, chain, size>>
      <4>1. Owned' = Owned
        BY <3>2 DEF Owned
      <4>2. QED
        BY <3>2, <4>1, NothingLost
    <3>3. CASE ~UNCHANGED <<free, chain, size>>
      <4>1. PICK bytes \in Nat : bytes = Rounded(request[2])
        BY <1>1, <2>2, Asked DEF php_palloc
      <4>2. PICK b \in Blocks : php_new_block(b, bytes) /\ chain' = [chain EXCEPT ![p] = Append(@, b)]
        BY <2>2, <3>1, <3>3, <4>1 DEF php_palloc
      <4>3. /\ ToSet(free') = ToSet(free) \ {b} /\ \A c \in Blocks \ {b} : size'[c] = size[c]
            /\ \A q \in Pools : b \notin ToSet(chain[q])
        BY <1>1, <4>2, NewBlock
      <4>4. chain[p] \in Seq(Blocks) /\ IsInjective(chain[p])
        BY <1>1 DEF IInv, PoolInv, TypeOK, OwnedOnce
      <4>5. ToSet(chain'[p]) = ToSet(chain[p]) \union {b} /\ \A q \in Pools \ {p} : chain'[q] = chain[q]
        BY <2>0, <4>2, <4>3, <4>4, Behind DEF TypeOK
      <4>6. \A c \in Blocks : c \in Owned \/ size'[c] # size[c] => c \in Owned'
        BY <4>3, <4>5 DEF Owned
      <4>7. QED
        BY <4>6, NothingLost
    <3>4. QED
      BY <3>2, <3>3
  <2>3. ASSUME NEW p \in Pools, Clear(p)
        PROVE  Step
    <3>1. PICK h \in Blocks, t \in Seq(Blocks) :
             /\ ToSet(chain[p]) = {h} \union ToSet(t)
             /\ ToSet(free') = ToSet(free) \union ToSet(t) /\ chain' = [chain EXCEPT ![p] = <<h>>]
      BY <1>1, <2>3, Cleared
    <3>2. size' = size
      BY <2>3 DEF Clear
    <3>3. ToSet(chain'[p]) = {h} /\ \A q \in Pools \ {p} : chain'[q] = chain[q]
      BY <2>0, <3>1, OfOne DEF TypeOK
    <3>4. \A c \in Blocks : c \in Owned \/ size'[c] # size[c] => c \in Owned'
      BY <3>1, <3>2, <3>3 DEF Owned
    <3>5. QED
      BY <3>4, NothingLost
  <2>4. CASE EndRequest
    <3> SUFFICES ASSUME NEW b \in Leaked' \ Leaked
                 PROVE  \E p \in Pools : b \in ToSet(chain[p]) /\ (p = 0 \/ ~used[p])
      BY <2>4
    <3>1. ToSet(free') = ToSet(free) \union ToSet(Freed(2)) \union ToSet(Freed(1))
      BY <1>1, <2>4, Ended
    <3>2. size' = size
      BY <2>4 DEF EndRequest
    <3>3. b \in Owned /\ b \notin ToSet(free')
      BY <3>2 DEF Leaked, Owned
    <3>4. PICK p \in Pools : b \in ToSet(chain[p])
      BY <3>1, <3>3 DEF Owned
    <3>5. p = 0 \/ ~used[p]
      BY <3>1, <3>3, <3>4 DEF Pools, Freed
    <3>6. QED
      BY <3>4, <3>5
  <2>5. QED
    BY <1>1, <2>1, <2>2, <2>3, <2>4 DEF Next
<1>2. ASSUME IInv, [Next]_vars
      PROVE  [Step]_vars
  BY <1>1, <1>2
<1> HIDE DEF Step
<1>3. Spec => [][Step]_vars
  BY <1>2, PoolInvariant, PTL DEF Spec
<1>4. QED
  BY <1>3 DEF Step, LeaksAtEndOnly
=============================================================================
