------------------------- MODULE WriteStreamProofs -------------------------
(***************************************************************************)
(* Proofs about WriteStream, for any number of writes and of connections.  *)
(***************************************************************************)
EXTENDS WriteStream, SequenceTheorems, TLAPS

\* Where the queue's entries stand after a write joins it or leaves it.
LEMMA QueueAppend ==
  ASSUME NEW q \in Seq(Nat), NEW x \in Nat
  PROVE  /\ Append(q, x) \in Seq(Nat) /\ Len(Append(q, x)) = Len(q) + 1
         /\ Append(q, x) # <<>> /\ Append(q, x)[Len(q) + 1] = x
         /\ \A i \in 1 .. Len(q) : Append(q, x)[i] = q[i]
OBVIOUS

LEMMA QueueTail ==
  ASSUME NEW q \in Seq(Nat), Len(q) > 0
  PROVE  /\ Tail(q) \in Seq(Nat) /\ Len(Tail(q)) = Len(q) - 1
         /\ \A i \in 1 .. Len(q) - 1 : Tail(q)[i] = q[i + 1]
         /\ Tail(q) = <<>> => Len(q) = 1
<1>1. q # <<>> /\ Len(q) \in Nat
  BY EmptySeq, LenProperties
<1>2. /\ Tail(q) \in Seq(Nat) /\ Len(Tail(q)) = Len(q) - 1
      /\ \A i \in 1 .. Len(q) - 1 : Tail(q)[i] = q[i + 1]
  BY <1>1, HeadTailProperties
<1>3. Tail(q) = <<>> => Len(Tail(q)) = 0
  BY EmptySeq
<1> QED BY <1>1, <1>2, <1>3

\* The queue always holds the latest writes, in order, and the store the last
\* one of them that was applied.
THEOREM StreamInvariant == Spec => []StreamInv
<1>1. Init => StreamInv
  BY DEF Init, StreamInv, LastWins
<1>2. StreamInv /\ [Next]_vars => StreamInv'
  <2> SUFFICES ASSUME StreamInv, [Next]_vars PROVE StreamInv'
    OBVIOUS
  <2> DEFINE n == Len(queue)
  <2>1. /\ made \in Nat /\ store \in Nat /\ queue \in Seq(Nat) /\ n \in Nat /\ done \in 0 .. n
        /\ \A i \in 1 .. n : queue[i] = made - n + i
        /\ done > 0 => store = queue[done]
        /\ queue = <<>> => store = made
        /\ queue = <<>> <=> n = 0
    BY DEF StreamInv, LastWins
  <2>2. CASE Make
    <3>1. /\ queue' \in Seq(Nat) /\ Len(queue') = n + 1 /\ queue' # <<>>
          /\ queue'[n + 1] = made + 1 /\ \A i \in 1 .. n : queue'[i] = queue[i]
      BY <2>1, <2>2, QueueAppend DEF Make
    <3> QED BY <2>1, <2>2, <3>1 DEF Make, StreamInv, LastWins
  <2>3. CASE Apply
    BY <2>1, <2>3 DEF Apply, StreamInv, LastWins
  <2>4. CASE Answer
    <3>0. n > 0 /\ queue' = Tail(queue) /\ store' = store /\ made' = made /\ done' = done - 1
          /\ done > 0
      BY <2>1, <2>4 DEF Answer
    <3>1. /\ queue' \in Seq(Nat) /\ Len(queue') = n - 1
          /\ \A i \in 1 .. n - 1 : queue'[i] = queue[i + 1]
          /\ queue' = <<>> => n = 1
      BY <2>1, <3>0, QueueTail
    <3>2. queue' = <<>> => store = made
      <4>1. n = 1 => done = 1 /\ queue[1] = made - 1 + 1
        BY <2>1, <3>0
      <4> QED BY <2>1, <3>0, <3>1, <4>1
    <3>3. /\ done' \in 0 .. Len(queue') /\ made' = made /\ store' = store
          /\ done' > 0 => store' = queue'[done']
      BY <2>1, <3>0, <3>1
    <3>4. \A i \in 1 .. Len(queue') : queue'[i] = made' - Len(queue') + i
      <4>1. \A i \in 1 .. n - 1 : queue[i + 1] = made - n + (i + 1)
        BY <2>1
      <4> QED BY <2>1, <3>1, <3>3, <4>1
    <3> QED BY <2>1, <3>1, <3>2, <3>3, <3>4 DEF StreamInv, LastWins
  <2>5. CASE StartOver
    <3>1. made' = made /\ queue' = queue /\ store' = store /\ done' = 0
      BY <2>5 DEF StartOver
    <3> QED BY <2>1, <3>1 DEF StreamInv, LastWins
  <2>6. CASE UNCHANGED vars
    BY <2>1, <2>6 DEF vars, StreamInv, LastWins
  <2> QED BY <2>2, <2>3, <2>4, <2>5, <2>6 DEF Next
<1> QED BY <1>1, <1>2, PTL DEF Spec

\* When every write has been answered the server holds the last one made,
\* however often the unanswered ones were sent again.
THEOREM LastWriteHolds == Spec => []LastWins
<1>1. StreamInv => LastWins
  BY DEF StreamInv
<1> QED BY <1>1, StreamInvariant, PTL

=============================================================================
