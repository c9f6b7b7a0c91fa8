-------------------------- MODULE WriteQueueProofs --------------------------
(***************************************************************************)
(* Facts about the write queue: what appending, acknowledging, applying    *)
(* and resending a write do to the value a read returns.                   *)
(***************************************************************************)
EXTENDS WriteQueue, SequenceTheorems, WellFoundedInduction, TLAPS

\* A non-empty set of numbers has a least one: the naturals are well founded.
\* It is the form of induction the proofs about queues of any length use.
LEMMA Least ==
  ASSUME NEW T, T \subseteq Nat, T # {}
  PROVE  \E m \in T : \A j \in T : m <= j
<1> DEFINE R == OpToRel(<, Nat)
<1>1. IsWellFoundedOn(R, Nat)
  BY NatLessThanWellFounded
<1>2. \A x, y \in Nat : <<y, x>> \in R <=> y < x
  BY DEF OpToRel
<1> HIDE DEF R
<1>3. PICK m \in T : \A j \in T : ~ (<<j, m>> \in R)
  BY <1>1, WFMin
<1>4. \A j \in T : ~ (j < m) /\ j \in Nat /\ m \in Nat
  BY <1>2, <1>3
<1> QED BY <1>4

\* A non-empty set of positions has a greatest one.
LEMMA Greatest ==
  ASSUME NEW n \in Nat, NEW T, T \subseteq 1 .. n, T # {}
  PROVE  \E m \in T : \A j \in T : j <= m
<1> DEFINE D == {n - j : j \in T}
<1>1. ASSUME NEW j \in T PROVE n - j \in Nat
  OBVIOUS
<1>2. PICK t \in T : TRUE
  OBVIOUS
<1>3. n - t \in D
  OBVIOUS
<1>4. D \subseteq Nat /\ D # {}
  BY <1>1, <1>3
<1> HIDE DEF D
<1>5. PICK x \in D : \A y \in D : x <= y
  BY <1>4, Least
<1>6. PICK m \in T : x = n - m
  BY <1>5 DEF D
<1>7. ASSUME NEW j \in T PROVE j <= m
  <2>1. n - j \in D /\ j \in Int /\ m \in Int
    BY DEF D
  <2> QED BY <1>5, <1>6, <2>1
<1> QED BY <1>7

\* Every key with a queued write has a last one.
LEMMA LastExists ==
  ASSUME NEW S, NEW q \in Seq(S), NEW i \in DOMAIN q, NEW k \in DOMAIN q[i]
  PROVE  \E j \in DOMAIN q : IsLast(q, k, j)
<1> DEFINE T == {j \in DOMAIN q : k \in DOMAIN q[j]}
<1>1. DOMAIN q = 1 .. Len(q) /\ Len(q) \in Nat
  BY LenProperties
<1>2. T \subseteq 1 .. Len(q) /\ T # {}
  BY <1>1
<1>3. PICK m \in T : \A j \in T : j <= m
  <2> HIDE DEF T
  <2> QED BY <1>1, <1>2, Greatest
<1> QED BY <1>3 DEF IsLast

\* A key has at most one last write, so Overlay returns its value.
LEMMA OverlayLast ==
  ASSUME NEW S, NEW q \in Seq(S), NEW base, NEW k \in DOMAIN base, NEW i,
         IsLast(q, k, i)
  PROVE  Overlay(base, q)[k] = q[i][k]
<1>1. \A j \in DOMAIN q : IsLast(q, k, j) => j = i
  BY DEF IsLast
<1>2. i \in DOMAIN q
  BY DEF IsLast
<1> QED BY <1>1, <1>2 DEF Overlay

\* A key without a queued write has the server's value.
LEMMA OverlayNone ==
  ASSUME NEW q, NEW base, NEW k \in DOMAIN base,
         \A i \in DOMAIN q : ~ IsLast(q, k, i)
  PROVE  Overlay(base, q)[k] = base[k]
BY DEF Overlay

\* An empty queue changes nothing.
LEMMA OverlayEmpty ==
  ASSUME NEW base, base = [k \in DOMAIN base |-> base[k]]
  PROVE  Overlay(base, <<>>) = base
BY DEF Overlay

\* setValue: a read sees the new write at once (read your writes).
LEMMA OverlayAppend ==
  ASSUME NEW S, NEW q \in Seq(S), NEW w \in S, NEW base
  PROVE  Overlay(base, Append(q, w)) = Written(Overlay(base, q), w)
<1> DEFINE n == Len(q) + 1
           a == Append(q, w)
<1>1. /\ a \in Seq(S) /\ DOMAIN a = 1 .. n /\ DOMAIN q = 1 .. Len(q) /\ Len(q) \in Nat
      /\ a[n] = w /\ \A i \in 1 .. Len(q) : a[i] = q[i]
  BY AppendProperties, LenProperties
<1> HIDE DEF a
<1>2. DOMAIN Overlay(base, q) = DOMAIN base
  BY DEF Overlay
<1>3. ASSUME NEW k \in DOMAIN base
      PROVE  Overlay(base, a)[k] = Written(Overlay(base, q), w)[k]
  <2>1. CASE k \in DOMAIN w
    <3>1. IsLast(a, k, n)
      BY <1>1, <2>1 DEF IsLast
    <3>2. Overlay(base, a)[k] = w[k]
      BY <3>1, <1>1, OverlayLast
    <3> QED BY <3>2, <2>1, <1>2 DEF Written
  <2>2. CASE k \notin DOMAIN w
    <3>1. \A i \in DOMAIN q : IsLast(q, k, i) <=> IsLast(a, k, i)
      BY <1>1, <2>2 DEF IsLast
    <3>2. ~ IsLast(a, k, n)
      BY <1>1, <2>2 DEF IsLast
    <3>3. Written(Overlay(base, q), w)[k] = Overlay(base, q)[k]
      BY <1>2, <2>2 DEF Written
    <3>4. CASE \E i \in DOMAIN q : IsLast(q, k, i)
      <4>1. PICK i \in DOMAIN q : IsLast(q, k, i)
        BY <3>4
      <4>2. Overlay(base, q)[k] = q[i][k]
        BY <4>1, OverlayLast
      <4>3. Overlay(base, a)[k] = a[i][k]
        BY <4>1, <3>1, <1>1, OverlayLast
      <4> QED BY <4>2, <4>3, <3>3, <1>1
    <3>5. CASE ~ \E i \in DOMAIN q : IsLast(q, k, i)
      <4>1. \A i \in DOMAIN a : ~ IsLast(a, k, i)
        BY <3>5, <3>1, <3>2, <1>1
      <4> QED BY <4>1, <3>5, <3>3, OverlayNone
    <3> QED BY <3>4, <3>5
  <2> QED BY <2>1, <2>2
<1>4. /\ Overlay(base, a) = [k \in DOMAIN base |-> Overlay(base, a)[k]]
      /\ Written(Overlay(base, q), w) = [k \in DOMAIN base |-> Written(Overlay(base, q), w)[k]]
  BY <1>2 DEF Overlay, Written
<1>5. Overlay(base, a) = Written(Overlay(base, q), w)
  BY <1>3, <1>4
<1> QED BY <1>5 DEF a

\* Dropping the oldest write renumbers the last writes of the other keys.
LEMMA LastTail ==
  ASSUME NEW S, NEW q \in Seq(S), q # <<>>, NEW k, NEW i
  PROVE  IsLast(Tail(q), k, i) <=> (i \in Int /\ i >= 1 /\ IsLast(q, k, i + 1))
<1>1. /\ DOMAIN q = 1 .. Len(q) /\ Len(q) \in Nat /\ Len(q) >= 1
      /\ DOMAIN Tail(q) = 1 .. (Len(q) - 1)
      /\ \A j \in 1 .. (Len(q) - 1) : Tail(q)[j] = q[j + 1]
  BY HeadTailProperties, LenProperties, EmptySeq
<1>2. ASSUME IsLast(Tail(q), k, i)
      PROVE  i \in Int /\ i >= 1 /\ IsLast(q, k, i + 1)
  <2>1. i \in 1 .. (Len(q) - 1) /\ k \in DOMAIN q[i + 1]
    BY <1>1, <1>2 DEF IsLast
  <2>2. ASSUME NEW j \in DOMAIN q, k \in DOMAIN q[j]
        PROVE  j <= i + 1
    <3>1. CASE j = 1
      BY <3>1, <2>1
    <3>2. CASE j # 1
      <4>1. j - 1 \in DOMAIN Tail(q) /\ k \in DOMAIN Tail(q)[j - 1]
        BY <3>2, <2>2, <1>1
      <4> QED BY <4>1, <1>2, <1>1, <2>1 DEF IsLast
    <3> QED BY <3>1, <3>2
  <2> QED BY <2>1, <2>2, <1>1 DEF IsLast
<1>3. ASSUME i \in Int, i >= 1, IsLast(q, k, i + 1)
      PROVE  IsLast(Tail(q), k, i)
  <2>1. i \in 1 .. (Len(q) - 1) /\ k \in DOMAIN q[i + 1]
    BY <1>1, <1>3 DEF IsLast
  <2>2. ASSUME NEW j \in DOMAIN Tail(q), k \in DOMAIN Tail(q)[j]
        PROVE  j <= i
    <3>1. j + 1 \in DOMAIN q /\ k \in DOMAIN q[j + 1]
      BY <2>2, <1>1
    <3>2. j + 1 <= i + 1
      BY <3>1, <1>3 DEF IsLast
    <3> QED BY <3>2, <2>1, <1>1
  <2> QED BY <2>1, <2>2, <1>1 DEF IsLast
<1> QED BY <1>2, <1>3

\* Acknowledgement: the oldest write may leave the queue when the server has
\* its value, or when its key belongs to another store.
LEMMA OverlayTail ==
  ASSUME NEW S, NEW q \in Seq(S), q # <<>>, NEW base,
         \A k \in DOMAIN base : IsLast(q, k, 1) => base[k] = q[1][k]
  PROVE  Overlay(base, Tail(q)) = Overlay(base, q)
<1> DEFINE t == Tail(q)
<1>1. /\ DOMAIN q = 1 .. Len(q) /\ Len(q) \in Nat /\ Len(q) >= 1
      /\ t \in Seq(S) /\ DOMAIN t = 1 .. (Len(q) - 1)
      /\ \A j \in 1 .. (Len(q) - 1) : t[j] = q[j + 1]
      /\ \A k, i : IsLast(t, k, i) <=> (i \in Int /\ i >= 1 /\ IsLast(q, k, i + 1))
  BY HeadTailProperties, LenProperties, EmptySeq, LastTail
<1> HIDE DEF t
<1>2. ASSUME NEW k \in DOMAIN base
      PROVE  Overlay(base, t)[k] = Overlay(base, q)[k]
  <2>1. CASE \E i \in DOMAIN t : IsLast(t, k, i)
    <3>1. PICK i \in DOMAIN t : IsLast(t, k, i)
      BY <2>1
    <3>2. IsLast(q, k, i + 1)
      BY <3>1, <1>1
    <3>3. Overlay(base, t)[k] = t[i][k]
      BY <3>1, <1>1, OverlayLast
    <3>4. Overlay(base, q)[k] = q[i + 1][k]
      BY <3>2, OverlayLast
    <3> QED BY <3>1, <3>3, <3>4, <1>1
  <2>2. CASE \A i \in DOMAIN t : ~ IsLast(t, k, i)
    <3>1. ASSUME NEW i \in DOMAIN q, IsLast(q, k, i)
          PROVE  i = 1
      <4>1. CASE i # 1
        <5>1. i - 1 \in DOMAIN t /\ (i - 1) + 1 = i
          BY <4>1, <1>1
        <5>2. IsLast(t, k, i - 1)
          BY <5>1, <1>1, <3>1
        <5> QED BY <5>1, <5>2, <2>2
      <4> QED BY <4>1
    <3>2. Overlay(base, t)[k] = base[k]
      BY <2>2, OverlayNone
    <3>3. CASE IsLast(q, k, 1)
      BY <3>2, <3>3, OverlayLast
    <3>4. CASE ~ IsLast(q, k, 1)
      <4>1. \A i \in DOMAIN q : ~ IsLast(q, k, i)
        BY <3>1, <3>4
      <4> QED BY <3>2, <4>1, OverlayNone
    <3> QED BY <3>3, <3>4
  <2> QED BY <2>1, <2>2
<1>3. /\ Overlay(base, t) = [k \in DOMAIN base |-> Overlay(base, t)[k]]
      /\ Overlay(base, q) = [k \in DOMAIN base |-> Overlay(base, q)[k]]
  BY DEF Overlay
<1>4. Overlay(base, t) = Overlay(base, q)
  BY <1>2, <1>3
<1> QED BY <1>4 DEF t

\* Applying, or applying again, any queued write is invisible to reads.
LEMMA OverlayWritten ==
  ASSUME NEW S, NEW q \in Seq(S), NEW base, NEW n \in DOMAIN q
  PROVE  Overlay(Written(base, q[n]), q) = Overlay(base, q)
<1> DEFINE b == Written(base, q[n])
<1>1. DOMAIN b = DOMAIN base
  BY DEF Written
<1>2. ASSUME NEW k \in DOMAIN base
      PROVE  Overlay(b, q)[k] = Overlay(base, q)[k]
  <2>1. CASE \E i \in DOMAIN q : IsLast(q, k, i)
    <3>1. PICK i \in DOMAIN q : IsLast(q, k, i)
      BY <2>1
    <3> HIDE DEF b
    <3> QED BY <3>1, <1>1, OverlayLast
  <2>2. CASE \A i \in DOMAIN q : ~ IsLast(q, k, i)
    <3>1. k \notin DOMAIN q[n]
      BY <2>2, LastExists
    <3>2. b[k] = base[k]
      BY <3>1 DEF Written
    <3> HIDE DEF b
    <3> QED BY <2>2, <3>2, <1>1, OverlayNone
  <2> QED BY <2>1, <2>2
<1> HIDE DEF b
<1>3. /\ Overlay(b, q) = [k \in DOMAIN base |-> Overlay(b, q)[k]]
      /\ Overlay(base, q) = [k \in DOMAIN base |-> Overlay(base, q)[k]]
  BY <1>1 DEF Overlay
<1>4. Overlay(b, q) = Overlay(base, q)
  BY <1>2, <1>3
<1> QED BY <1>4 DEF b

\* The server applies the next write.
LEMMA AppliedStep ==
  ASSUME NEW S, NEW q \in Seq(S), NEW base, NEW n \in Nat, n < Len(q),
         Applied(base, q, n)
  PROVE  Applied(Written(base, q[n + 1]), q, n + 1)
<1> DEFINE b == Written(base, q[n + 1])
<1>1. DOMAIN q = 1 .. Len(q) /\ Len(q) \in Nat
  BY LenProperties
<1>2. DOMAIN b = DOMAIN base
  BY DEF Written
<1>3. ASSUME NEW i \in 1 .. (n + 1), NEW k \in DOMAIN base, IsLast(q, k, i)
      PROVE  b[k] = q[i][k]
  <2>1. CASE k \in DOMAIN q[n + 1]
    <3>1. i = n + 1
      BY <2>1, <1>3, <1>1 DEF IsLast
    <3> QED BY <3>1, <2>1 DEF Written
  <2>2. CASE k \notin DOMAIN q[n + 1]
    <3>1. i \in 1 .. n
      BY <2>2, <1>3 DEF IsLast
    <3>2. b[k] = base[k]
      BY <2>2 DEF Written
    <3> QED BY <3>1, <3>2, <1>3 DEF Applied
  <2> QED BY <2>1, <2>2
<1> HIDE DEF b
<1>4. Applied(b, q, n + 1)
  BY <1>2, <1>3 DEF Applied
<1> QED BY <1>4 DEF b

\* The server's acknowledgement of the oldest write.
LEMMA AppliedTail ==
  ASSUME NEW S, NEW q \in Seq(S), q # <<>>, NEW base, NEW n \in Nat, n > 0, n <= Len(q),
         Applied(base, q, n)
  PROVE  Applied(base, Tail(q), n - 1)
<1>1. /\ DOMAIN q = 1 .. Len(q) /\ Len(q) \in Nat
      /\ \A j \in 1 .. (Len(q) - 1) : Tail(q)[j] = q[j + 1]
  BY HeadTailProperties, LenProperties, EmptySeq
<1>2. ASSUME NEW i \in 1 .. (n - 1), NEW k \in DOMAIN base, IsLast(Tail(q), k, i)
      PROVE  base[k] = Tail(q)[i][k]
  <2>1. IsLast(q, k, i + 1)
    BY <1>2, LastTail
  <2>2. base[k] = q[i + 1][k]
    BY <2>1 DEF Applied
  <2> QED BY <2>2, <1>1
<1> QED BY <1>2 DEF Applied

\* A new write does not disturb the applied ones.
LEMMA AppliedAppend ==
  ASSUME NEW S, NEW q \in Seq(S), NEW w \in S, NEW base, NEW n \in Nat, n <= Len(q),
         Applied(base, q, n)
  PROVE  Applied(base, Append(q, w), n)
<1> DEFINE a == Append(q, w)
<1>1. /\ DOMAIN a = 1 .. (Len(q) + 1) /\ DOMAIN q = 1 .. Len(q) /\ Len(q) \in Nat
      /\ \A i \in 1 .. Len(q) : a[i] = q[i]
  BY AppendProperties, LenProperties
<1> HIDE DEF a
<1>2. ASSUME NEW i \in 1 .. n, NEW k \in DOMAIN base, IsLast(a, k, i)
      PROVE  base[k] = a[i][k]
  <2>1. IsLast(q, k, i)
    BY <1>1, <1>2 DEF IsLast
  <2> QED BY <2>1, <1>1 DEF Applied
<1> QED BY <1>2 DEF Applied, a

\* A read lays over its answer only the writes that have reached the client:
\* for a key that the others leave alone it makes no difference.
LEMMA OverlayCut ==
  ASSUME NEW S, NEW q \in Seq(S), NEW base, NEW n \in 0 .. Len(q), NEW k \in DOMAIN base,
         \A i \in DOMAIN q : i > n => k \notin DOMAIN q[i]
  PROVE  Overlay(base, SubSeq(q, 1, n))[k] = Overlay(base, q)[k]
<1> DEFINE t == SubSeq(q, 1, n)
<1>1. DOMAIN q = 1 .. Len(q) /\ Len(q) \in Nat /\ n \in Int
  BY LenProperties
<1>2. t \in Seq(S) /\ DOMAIN t = 1 .. n /\ \A i \in 1 .. n : t[i] = q[i]
  <2>1. \A i \in 1 .. n : q[i] \in S
    BY <1>1, ElementOfSeq
  <2>2. t \in Seq(S) /\ Len(t) = IF 1 <= n THEN n - 1 + 1 ELSE 0
    BY <1>1, <2>1, SubSeqProperties
  <2>3. \A i \in 1 .. n - 1 + 1 : t[i] = q[1 + i - 1]
    BY <1>1, <2>1, SubSeqProperties
  <2> HIDE DEF t
  <2> QED BY <1>1, <2>2, <2>3, LenProperties
<1> HIDE DEF t
<1>3. \A i : IsLast(q, k, i) <=> IsLast(t, k, i)
  BY <1>1, <1>2 DEF IsLast
<1>4. CASE \E i : IsLast(q, k, i)
  <2>1. PICK i : IsLast(q, k, i)
    BY <1>4
  <2>2. Overlay(base, q)[k] = q[i][k]
    BY <2>1, OverlayLast
  <2>3. Overlay(base, t)[k] = t[i][k]
    BY <1>2, <1>3, <2>1, OverlayLast
  <2>4. q[i] = t[i]
    BY <1>2, <1>3, <2>1 DEF IsLast
  <2> QED BY <2>2, <2>3, <2>4 DEF t
<1>5. CASE ~ \E i : IsLast(q, k, i)
  BY <1>3, <1>5, OverlayNone DEF t
<1> QED BY <1>4, <1>5

-----------------------------------------------------------------------------
(***************************************************************************)
(* What the overlay stands for.                                            *)
(***************************************************************************)

\* With every queued write in effect there is nothing to lay over.
LEMMA AppliedAll ==
  ASSUME NEW S, NEW q \in Seq(S), NEW base, Applied(base, q, Len(q)),
         base = [k \in DOMAIN base |-> base[k]]
  PROVE  Overlay(base, q) = base
<1>1. ASSUME NEW k \in DOMAIN base
      PROVE  Overlay(base, q)[k] = base[k]
  <2>1. CASE \E i \in DOMAIN q : IsLast(q, k, i)
    <3>1. PICK i \in DOMAIN q : IsLast(q, k, i)
      BY <2>1
    <3>2. i \in 1 .. Len(q)
      BY LenProperties
    <3>3. base[k] = q[i][k]
      BY <3>1, <3>2 DEF Applied
    <3> QED BY <3>1, <3>3, OverlayLast
  <2>2. CASE \A i \in DOMAIN q : ~ IsLast(q, k, i)
    BY <2>2, OverlayNone
  <2> QED BY <2>1, <2>2
<1>2. Overlay(base, q) = [k \in DOMAIN base |-> Overlay(base, q)[k]]
  BY DEF Overlay
<1> QED BY <1>1, <1>2

\* What a read returns is what the server will hold: apply the queue to the
\* end, from any point up to which its writes are in effect (from the start,
\* when a new connection resends them all), and the store is the overlay.
THEOREM QueueDrains ==
  ASSUME NEW S, NEW q \in Seq(S), NEW n \in 0 .. Len(q), NEW base,
         base = [k \in DOMAIN base |-> base[k]], Applied(base, q, n),
         NEW store, store[n] = base,
         \A i \in 0 .. Len(q) : i > n => store[i] = Written(store[i - 1], q[i])
  PROVE  store[Len(q)] = Overlay(base, q)
<1> DEFINE Good(i) == /\ store[i] = [k \in DOMAIN store[i] |-> store[i][k]]
                      /\ Applied(store[i], q, i)
                      /\ Overlay(store[i], q) = Overlay(base, q)
           Bad == {i \in 0 .. Len(q) : i >= n /\ ~ Good(i)}
<1>1. DOMAIN q = 1 .. Len(q) /\ Len(q) \in Nat /\ n \in Nat
  BY LenProperties
<1>2. Good(n)
  OBVIOUS
<1>3. ASSUME NEW i \in 0 .. Len(q), i > n, Good(i - 1)
      PROVE  Good(i)
  <2>1. /\ i - 1 \in Nat /\ i - 1 < Len(q) /\ (i - 1) + 1 = i /\ i \in DOMAIN q
        /\ store[i] = Written(store[i - 1], q[i])
    BY <1>1, <1>3
  <2>2. store[i] = [k \in DOMAIN store[i] |-> store[i][k]]
    BY <2>1 DEF Written
  <2>3. Applied(Written(store[i - 1], q[(i - 1) + 1]), q, (i - 1) + 1)
    <3> DEFINE b == store[i - 1]
               j == i - 1
    <3>1. j \in Nat /\ j < Len(q) /\ Applied(b, q, j)
      BY <1>3, <2>1
    <3> HIDE DEF b, j
    <3>2. Applied(Written(b, q[j + 1]), q, j + 1)
      BY <3>1, AppliedStep
    <3> QED BY <3>2 DEF b, j
  <2>4. Overlay(Written(store[i - 1], q[i]), q) = Overlay(store[i - 1], q)
    BY <2>1, OverlayWritten
  <2> QED BY <1>3, <2>1, <2>2, <2>3, <2>4
<1> HIDE DEF Good
<1>4. Bad = {}
  <2> SUFFICES ASSUME Bad # {} PROVE FALSE
    OBVIOUS
  <2>1. Bad \subseteq Nat
    BY <1>1
  <2> HIDE DEF Bad
  <2>2. PICK m \in Bad : \A j \in Bad : m <= j
    BY <2>1, Least
  <2>3. m \in 0 .. Len(q) /\ m >= n /\ ~ Good(m) /\ m # n
    BY <1>2, <2>2 DEF Bad
  <2>4. m > n /\ m - 1 \in 0 .. Len(q) /\ m - 1 >= n /\ ~ (m <= m - 1)
    BY <1>1, <2>3
  <2>5. Good(m - 1)
    BY <2>2, <2>4 DEF Bad
  <2> QED BY <1>3, <2>3, <2>4, <2>5
<1>5. Good(Len(q))
  <2>1. Len(q) \in 0 .. Len(q) /\ Len(q) >= n
    BY <1>1
  <2> QED BY <1>4, <2>1
<1>6. Overlay(store[Len(q)], q) = store[Len(q)]
  <2> DEFINE b == store[Len(q)]
  <2>1. b = [k \in DOMAIN b |-> b[k]] /\ Applied(b, q, Len(q))
    BY <1>5 DEF Good
  <2> HIDE DEF b
  <2>2. Overlay(b, q) = b
    BY <2>1, AppliedAll
  <2> QED BY <2>2 DEF b
<1> QED BY <1>5, <1>6 DEF Good

=============================================================================
