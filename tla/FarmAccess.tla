----------------------------- MODULE FarmAccess -----------------------------
(***************************************************************************)
(* What signing in and out promise of the farm's windows: they open only   *)
(* behind a sign-in that is under way, for the one who holds the sign-in,  *)
(* all of them close together when he signs out, and nothing of an earlier *)
(* sign-in opens them afterwards.  Being expelled ends the sign-in and     *)
(* closes no window.  Only another user's sign-in while somebody is        *)
(* entering or inside can make a window show a farm that is not the        *)
(* holder's; it leaves its mark until everyone has left.                   *)
(***************************************************************************)
CONSTANTS
  Account,  \* who can sign in
  NoUser,   \* nobody
  Door      \* ways in

VARIABLES
  who,       \* who is signed in
  holder,    \* who signed in last and did not sign out since
  entering,  \* doors with a sign-in under way
  inside,    \* whose farm is shown behind each door
  contested  \* a sign-in replaced the holder somebody entering or inside relied on

vars == <<who, holder, entering, inside, contested>>

Empty == [d \in Door |-> NoUser]

Init ==
  /\ who \in Account \cup {NoUser} /\ holder = who
  /\ entering = {} /\ inside = Empty /\ contested = FALSE

SignIn(a) ==
  /\ who' = a /\ holder' = a
  /\ contested' = (contested \/ (holder # a /\ (entering # {} \/ inside # Empty)))
  /\ UNCHANGED inside

Begin(d, a) == SignIn(a) /\ entering' = entering \cup {d}

Replace(a) == SignIn(a) /\ UNCHANGED entering

Expel ==
  /\ who # NoUser /\ who' = NoUser
  /\ UNCHANGED <<holder, entering, inside, contested>>

Abandon(d) ==
  /\ entering' = entering \ {d}
  /\ UNCHANGED <<who, holder, inside, contested>>

Enter(d, a) ==
  /\ d \in entering /\ holder # NoUser
  /\ contested \/ a = holder
  /\ inside' = [inside EXCEPT ![d] = a]
  /\ entering' \in {entering, entering \ {d}}
  /\ UNCHANGED <<who, holder, contested>>

Leave(u) ==
  /\ who' = u /\ holder' = u
  /\ entering' = {} /\ inside' = Empty /\ contested' = FALSE

Next ==
  \/ \E d \in Door, a \in Account : Begin(d, a) \/ Enter(d, a)
  \/ \E a \in Account : Replace(a)
  \/ \E d \in Door : Abandon(d)
  \/ Expel
  \/ \E u \in Account \cup {NoUser} : Leave(u)

Spec == Init /\ [][Next]_vars

=============================================================================
