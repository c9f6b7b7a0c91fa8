----------------------------- MODULE FarmPanel -----------------------------
(***************************************************************************)
(* What a window promises its user: the farm's equipment ends up doing     *)
(* what was last chosen for it.  The Manual window's equipment are the     *)
(* lamps and motors behind its switches, the Automation window's is the    *)
(* growth programme as a whole.  While a choice is on its way the          *)
(* equipment may pass through earlier ones; once it is settled the         *)
(* equipment does what was chosen, until someone else changes it, the      *)
(* server refuses the choice, or the application restarts.                 *)
(***************************************************************************)
CONSTANTS
  Choice,   \* what the user can set
  Bit,      \* what it can be set to
  NoGoal    \* the user has no choice that counts

VARIABLES
  farm,     \* what each equipment does
  wish,     \* what the user last chose for it, or NoGoal
  settled   \* no choice for it is on its way

vars == <<farm, wish, settled>>

Init ==
  /\ farm \in [Choice -> Bit]
  /\ wish = [c \in Choice |-> NoGoal] /\ settled = [c \in Choice |-> TRUE]

Choose(c, v) ==
  /\ wish' = [wish EXCEPT ![c] = v] /\ settled' = [settled EXCEPT ![c] = FALSE]
  /\ UNCHANGED farm

Waver(c, v) ==
  /\ ~ settled[c]
  /\ farm' = [farm EXCEPT ![c] = v]
  /\ UNCHANGED <<wish, settled>>

Settle(c) ==
  /\ wish[c] # NoGoal => farm[c] = wish[c]
  /\ settled' = [settled EXCEPT ![c] = TRUE]
  /\ UNCHANGED <<farm, wish>>

Challenge(c, v) ==
  /\ farm' = [farm EXCEPT ![c] = v] /\ wish' = [wish EXCEPT ![c] = NoGoal]
  /\ UNCHANGED settled

GiveUp(c, s) ==
  /\ wish' = [wish EXCEPT ![c] = NoGoal] /\ settled' = [settled EXCEPT ![c] = s]
  /\ UNCHANGED farm

Restart ==
  /\ wish' = [c \in Choice |-> NoGoal] /\ settled' = [c \in Choice |-> TRUE]
  /\ UNCHANGED farm

Next ==
  \/ \E c \in Choice, v \in Bit : Choose(c, v) \/ Waver(c, v) \/ Challenge(c, v)
  \/ \E c \in Choice : Settle(c) \/ \E s \in BOOLEAN : GiveUp(c, s)
  \/ Restart

Spec == Init /\ [][Next]_vars

=============================================================================
