---------------------------- MODULE WriteStream ----------------------------
(***************************************************************************)
(* What the Firebase client promises about writes, whatever happens to the *)
(* connection: the server applies them in the order in which they were     *)
(* made, answers them in that order, and starts over with the oldest       *)
(* unanswered one on every new connection.  A write is a number; writes    *)
(* are made in increasing order.  The queues of Automation and FarmControl *)
(* take these steps.                                                       *)
(***************************************************************************)
EXTENDS Integers, Sequences

VARIABLES
  made,    \* how many writes have been made
  queue,   \* writes without an answer, oldest first
  done,    \* how many of them the server has applied on this connection
  store    \* server: the last write applied, 0 for none

vars == <<made, queue, done, store>>

Init == made = 0 /\ queue = <<>> /\ done = 0 /\ store = 0

Make ==
  /\ made' = made + 1
  /\ queue' = Append(queue, made + 1)
  /\ UNCHANGED <<done, store>>

Apply ==
  /\ done < Len(queue)
  /\ store' = queue[done + 1]
  /\ done' = done + 1
  /\ UNCHANGED <<made, queue>>

Answer ==
  /\ done > 0
  /\ queue' = Tail(queue) /\ done' = done - 1
  /\ UNCHANGED <<made, store>>

StartOver ==
  /\ done' = 0
  /\ UNCHANGED <<made, queue, store>>

Next == Make \/ Apply \/ Answer \/ StartOver

Spec == Init /\ [][Next]_vars

\* When every write has been answered the server holds the last one made.
LastWins == queue = <<>> => store = made

\* Its inductive strengthening: the queue is the latest writes in order, and
\* the store holds the last one of them that has been applied.
StreamInv ==
  /\ made \in Nat /\ store \in Nat /\ queue \in Seq(Nat) /\ done \in 0 .. Len(queue)
  /\ \A i \in 1 .. Len(queue) : queue[i] = made - Len(queue) + i
  /\ done > 0 => store = queue[done]
  /\ LastWins

=============================================================================
