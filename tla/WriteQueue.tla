----------------------------- MODULE WriteQueue -----------------------------
(***************************************************************************)
(* The part of the Firebase client that the application relies on: the     *)
(* queue of writes the server has not acknowledged.  setValue applies a    *)
(* write to the client's write tree and puts it at the end of              *)
(* outstandingPuts; the server applies the puts in that order and          *)
(* acknowledges them in that order; after a lost connection every put that *)
(* is still unacknowledged is sent again.                                  *)
(*                                                                         *)
(* A write is a function from the keys it sets to their values: a value    *)
(* that has children sets their keys too, or takes them away.  "sent" is   *)
(* how many writes at the front of the queue the server has applied on the *)
(* current connection.                                                     *)
(***************************************************************************)
EXTENDS Integers, Sequences

\* Position i holds the last queued write of key k.
IsLast(q, k, i) ==
  /\ i \in DOMAIN q
  /\ k \in DOMAIN q[i]
  /\ \A j \in DOMAIN q : k \in DOMAIN q[j] => j <= i

\* The value a read returns for every key of base: the client lays the
\* unacknowledged writes over what the server sent.
Overlay(base, q) ==
  [k \in DOMAIN base |->
     IF \E i \in DOMAIN q : IsLast(q, k, i)
       THEN q[CHOOSE i \in DOMAIN q : IsLast(q, k, i)][k]
       ELSE base[k]]

\* The server's store after it applies one write; a write of a key that
\* belongs to another store leaves this one alone.
Written(base, w) == [k \in DOMAIN base |-> IF k \in DOMAIN w THEN w[k] ELSE base[k]]

\* The writes the server has applied on this connection are in effect, unless
\* a later queued write overwrites them anyway.
Applied(base, q, n) ==
  \A i \in 1 .. n : \A k \in DOMAIN base : IsLast(q, k, i) => base[k] = q[i][k]

=============================================================================
