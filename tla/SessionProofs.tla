--------------------------- MODULE SessionProofs ---------------------------
(***************************************************************************)
(* Proofs about Session, for every set of accounts, any number of login    *)
(* windows and any number of login chains under way.                       *)
(***************************************************************************)
EXTENDS Session, SequenceTheorems, TLAPS

-----------------------------------------------------------------------------
(***************************************************************************)
(* Pushing and popping.                                                    *)
(***************************************************************************)

\* A push keeps what is on the stack and adds one screen on top.
LEMMA Push ==
  ASSUME NEW S, NEW q \in Seq(S), NEW x \in S
  PROVE  /\ Append(q, x) \in Seq(S) /\ Append(q, x) # <<>>
         /\ DOMAIN Append(q, x) = 1 .. Len(q) + 1 /\ DOMAIN q = 1 .. Len(q)
         /\ \A i \in DOMAIN q : Append(q, x)[i] = q[i]
         /\ Append(q, x)[Len(q) + 1] = x
OBVIOUS

\* A pop of a stack of two or more keeps all but the top.
LEMMA Pop ==
  ASSUME NEW S, NEW q \in Seq(S), Len(q) > 1
  PROVE  /\ Front(q) \in Seq(S) /\ Front(q) # <<>>
         /\ DOMAIN Front(q) = 1 .. Len(q) - 1 /\ DOMAIN q = 1 .. Len(q)
         /\ \A i \in DOMAIN Front(q) : Front(q)[i] = q[i]
<1> DEFINE n == Len(q) - 1
           t == SubSeq(q, 1, n)
<1>1. n \in Nat /\ n > 0 /\ 1 \in Int /\ n \in Int /\ \A i \in 1 .. n : q[i] \in S
  OBVIOUS
<1>2. t \in Seq(S) /\ Len(t) = IF 1 <= n THEN n - 1 + 1 ELSE 0
  BY <1>1, SubSeqProperties
<1>3. \A i \in 1 .. n - 1 + 1 : t[i] = q[1 + i - 1]
  BY <1>1, SubSeqProperties
<1>4. Len(t) = n /\ \A i \in 1 .. n : t[i] = q[i]
  BY <1>1, <1>2, <1>3
<1>5. Front(q) = t
  BY DEF Front
<1> HIDE DEF t
<1> QED BY <1>1, <1>2, <1>4, <1>5

\* A single menu is a stack.
LEMMA Single ==
  /\ <<Menu>> \in Seq(Screen) /\ <<Menu>> # <<>> /\ <<Menu>>[1] = Menu
  /\ DOMAIN <<Menu>> = {1} /\ Menu.kind = "menu" /\ Menu.win = NoWin
BY DEF Menu, Screen

\* Where a stack is not just the menu its top is not the menu's bottom.
LEMMA Deep ==
  ASSUME TypeOK, Top.kind # "menu"
  PROVE  Len(stack) > 1
<1>1. PICK n \in Nat : n = Len(stack)
  BY DEF TypeOK
<1>2. Menu.kind = "menu" /\ stack[1] = Menu
  BY DEF TypeOK, Menu
<1>3. n # 1
  BY <1>1, <1>2 DEF Top
<1>4. n # 0
  BY <1>1 DEF TypeOK
<1> QED BY <1>1, <1>3, <1>4

-----------------------------------------------------------------------------
(***************************************************************************)
(* Types.                                                                  *)
(***************************************************************************)
LEMMA TypeInit == Init => TypeOK
<1> SUFFICES ASSUME Init PROVE TypeOK
  OBVIOUS
<1>1. chains \in [Slot -> Chain] /\ \A s \in Slot : chains[s].win <= opened
  BY DEF Init, Chain, Idle, NoWin
<1>2. /\ model \in [Win -> [root : BOOLEAN, plants : Account \cup {NoUser}]]
      /\ opened \in 0 .. MaxWin
  BY SessionAssumption DEF Init, Empty
<1>3. /\ stack \in Seq(Screen) /\ stack # <<>> /\ stack[1] = Menu
      /\ \A i \in DOMAIN stack : stack[i].win <= opened
  BY Single DEF Init, NoWin
<1> QED BY <1>1, <1>2, <1>3 DEF Init, TypeOK

LEMMA MemoryType ==
  ASSUME TypeOK, Memory, alive' \in {"off", "on"} \cup Cause,
         user' \in Account \cup {NoUser}, token' \in BOOLEAN
  PROVE  TypeOK'
<1>1. /\ chains' \in [Slot -> Chain]
      /\ \A s \in Slot : chains'[s].win <= opened'
  BY DEF Memory, Chain, Idle, NoWin
<1>2. /\ model' \in [Win -> [root : BOOLEAN, plants : Account \cup {NoUser}]]
      /\ opened' \in 0 .. MaxWin
  BY SessionAssumption DEF Memory, Empty
<1>3. /\ stack' \in Seq(Screen) /\ stack' # <<>> /\ stack'[1] = Menu
      /\ \A i \in DOMAIN stack' : stack'[i].win <= opened'
  BY Single DEF Memory, NoWin
<1> QED BY <1>1, <1>2, <1>3 DEF Memory, TypeOK

LEMMA DieType ==
  ASSUME TypeOK, NEW c \in {"off"} \cup Cause, Die(c)
  PROVE  TypeOK'
BY MemoryType DEF Die, TypeOK, auth

LEMMA TypeScreens == TypeOK /\ Screens => TypeOK'
<1> SUFFICES ASSUME TypeOK, Screens PROVE TypeOK'
  OBVIOUS
<1>1. CASE OpenLogin
  <2> DEFINE x == [kind |-> "login", win |-> opened + 1]
  <2>1. x \in Screen /\ opened + 1 \in 0 .. MaxWin
    BY <1>1, SessionAssumption DEF OpenLogin, TypeOK, Screen, Win
  <2>2. stack' = Append(stack, x)
    BY <1>1 DEF OpenLogin
  <2>3. stack' \in Seq(Screen) /\ stack' # <<>> /\ stack'[1] = Menu
    BY <2>1, <2>2, Push DEF TypeOK
  <2>4. \A i \in DOMAIN stack' : stack'[i].win <= opened'
    BY <1>1, <2>1, <2>2, Push, SessionAssumption DEF OpenLogin, TypeOK, Screen, Win, NoWin
  <2>5. \A s \in Slot : chains'[s].win <= opened'
    BY <1>1, SessionAssumption DEF OpenLogin, TypeOK, Chain, Idle, Win, NoWin
  <2> QED BY <1>1, <2>1, <2>3, <2>4, <2>5 DEF OpenLogin, TypeOK, auth, dialogs, ghost
<1>2. CASE OpenSetup
  <2> DEFINE x == [kind |-> "setup", win |-> NoWin]
  <2>1. x \in Screen
    BY DEF Screen
  <2>2. stack' = Append(stack, x)
    BY <1>2 DEF OpenSetup
  <2>3. stack' \in Seq(Screen) /\ stack' # <<>> /\ stack'[1] = Menu
    BY <2>1, <2>2, Push DEF TypeOK
  <2>4. \A i \in DOMAIN stack' : stack'[i].win <= opened
    BY <2>1, <2>2, Push DEF TypeOK, NoWin
  <2> QED BY <1>2, <2>3, <2>4 DEF OpenSetup, TypeOK, auth, dialogs, ghost
<1>3. CASE Back
  <2>1. Len(stack) > 1 /\ stack' = Front(stack)
    BY <1>3, Deep DEF Back
  <2>2. stack' \in Seq(Screen) /\ stack' # <<>> /\ stack'[1] = Menu
    BY <2>1, Pop DEF TypeOK
  <2>3. \A i \in DOMAIN stack' : stack'[i].win <= opened
    BY <2>1, Pop DEF TypeOK
  <2> QED BY <1>3, <2>2, <2>3 DEF Back, TypeOK, auth, dialogs, ghost
<1>4. CASE \E filled \in BOOLEAN : CreateAccount(filled)
  BY <1>4, DieType DEF CreateAccount, Cause, TypeOK, vars, auth, dialogs, ghost
<1>5. ASSUME NEW ok \in BOOLEAN, Logout(ok) PROVE TypeOK'
  <2>1. CASE ok
    <3>1. stack' = <<Menu>>
      BY <1>5, <2>1 DEF Logout, TypeOK
    <3>2. /\ raced' \in BOOLEAN /\ user' = NoUser /\ holder' = NoUser
          /\ UNCHANGED <<alive, token, chains, dialogs, model, opened, denied>>
      BY <1>5, <2>1, Zenon DEF Logout
    <3> QED BY <3>1, <3>2, Single DEF TypeOK, dialogs, NoWin
  <2>2. CASE ~ ok
    BY <1>5, <2>2 DEF Logout, TypeOK, vars, auth, dialogs, ghost
  <2> QED BY <2>1, <2>2
<1> QED BY <1>1, <1>2, <1>3, <1>4, <1>5 DEF Screens

\* A chain of a stage past idle belongs to a window and an account.
LEMMA Running ==
  ASSUME TypeOK, NEW s \in Slot, chains[s].stage # "idle"
  PROVE  /\ chains[s] \in [stage : {"auth", "root", "plants"}, win : Win, acct : Account]
         /\ chains[s].win \in Win /\ chains[s].acct \in Account
BY DEF TypeOK, Chain, Idle

LEMMA TypeSteps ==
  ASSUME TypeOK, NEW s \in Slot, Steps(s)
  PROVE  TypeOK'
<1>1. ASSUME NEW a \in Account, Login(s, a) PROVE TypeOK'
  <2>1. Top \in Screen /\ Top.win <= opened /\ Top.kind = "login"
    <3>1. PICK n \in Nat : n = Len(stack) /\ n # 0
      BY DEF TypeOK
    <3>2. n \in DOMAIN stack
      BY <3>1 DEF TypeOK
    <3> QED BY <1>1, <3>1, <3>2 DEF Login, TypeOK, Top
  <2>2. Top.win \in Win
    BY <2>1 DEF Screen
  <2>3. chains' \in [Slot -> Chain] /\ \A t \in Slot : chains'[t].win <= opened
    BY <1>1, <2>1, <2>2 DEF Login, TypeOK, Chain
  <2> QED BY <1>1, <2>3 DEF Login, TypeOK, auth, dialogs, ghost
<1>2. CASE AuthFail(s) \/ ReadCancel(s)
  <2>1. chains' = [chains EXCEPT ![s] = Idle]
    BY <1>2 DEF AuthFail, ReadCancel
  <2>2. chains' \in [Slot -> Chain] /\ \A t \in Slot : chains'[t].win <= opened
    BY <2>1 DEF TypeOK, Chain, Idle, NoWin
  <2> QED BY <1>2, <2>2 DEF AuthFail, ReadCancel, TypeOK, auth, dialogs, ghost
<1>3. CASE AuthOk(s)
  <2>1. chains[s].acct \in Account /\ chains[s].stage = "auth"
    BY <1>3, Running DEF AuthOk
  <2>2. chains' \in [Slot -> Chain] /\ \A t \in Slot : chains'[t].win <= opened
    BY <1>3, <2>1, Running DEF AuthOk, TypeOK, Chain
  <2> QED BY <1>3, <2>1, <2>2 DEF AuthOk, SignIn, TypeOK, dialogs
<1>4. CASE RootAnswer(s)
  <2>1. chains[s].win \in Win /\ chains[s].stage = "root"
    BY <1>4, Running DEF RootAnswer
  <2>2. model' \in [Win -> [root : BOOLEAN, plants : Account \cup {NoUser}]]
    BY <1>4, <2>1 DEF RootAnswer, TypeOK
  <2>3. CASE user = NoUser
    <3>1. chains' = [chains EXCEPT ![s] = Idle]
      BY <1>4, <2>3 DEF RootAnswer
    <3>2. chains' \in [Slot -> Chain] /\ \A t \in Slot : chains'[t].win <= opened
      BY <3>1 DEF TypeOK, Chain, Idle, NoWin
    <3> QED BY <1>4, <2>2, <3>2 DEF RootAnswer, TypeOK, auth, dialogs, ghost
  <2>4. CASE user # NoUser
    <3>1. user \in Account
      BY <2>4 DEF TypeOK
    <3>2. chains' = [chains EXCEPT ![s] = [@ EXCEPT !.stage = "plants", !.acct = user]]
      BY <1>4, <2>4 DEF RootAnswer
    <3>3. chains' \in [Slot -> Chain] /\ \A t \in Slot : chains'[t].win <= opened
      BY <2>1, <3>1, <3>2, Running DEF TypeOK, Chain
    <3> QED BY <1>4, <2>2, <3>3 DEF RootAnswer, TypeOK, auth, dialogs, ghost
  <2> QED BY <2>3, <2>4
<1>5. ASSUME NEW some \in BOOLEAN, PlantsAnswer(s, some) PROVE TypeOK'
  <2> DEFINE w == chains[s].win
             x == [kind |-> "tabs", win |-> w]
  <2>1. CASE ~ OnStack(w) \/ ~ some
    <3>1. Die("popped") \/ Die("noPlants")
      BY <1>5, <2>1 DEF PlantsAnswer
    <3> QED BY <3>1, DieType DEF Cause
  <2>2. CASE OnStack(w) /\ some
    <3>1. w \in Win /\ chains[s].acct \in Account /\ w <= opened
      BY <1>5, Running DEF PlantsAnswer, TypeOK
    <3>2. /\ model' = [model EXCEPT ![w].plants = chains[s].acct]
          /\ stack' = Append(stack, x)
          /\ chains' = [chains EXCEPT ![s] = Idle]
          /\ UNCHANGED <<alive, auth, dialogs, opened, ghost>>
      BY <1>5, <2>2 DEF PlantsAnswer
    <3>3. x \in Screen
      BY <3>1 DEF Screen
    <3>4. stack' \in Seq(Screen) /\ stack' # <<>> /\ stack'[1] = Menu
      BY <3>2, <3>3, Push DEF TypeOK
    <3>5. \A i \in DOMAIN stack' : stack'[i].win <= opened
      BY <3>1, <3>2, <3>3, Push DEF TypeOK
    <3>6. chains' \in [Slot -> Chain] /\ \A t \in Slot : chains'[t].win <= opened
      BY <3>2 DEF TypeOK, Chain, Idle, NoWin
    <3>7. model' \in [Win -> [root : BOOLEAN, plants : Account \cup {NoUser}]]
      BY <3>1, <3>2 DEF TypeOK
    <3> QED BY <3>2, <3>4, <3>5, <3>6, <3>7 DEF TypeOK, auth, dialogs, ghost
  <2> QED BY <2>1, <2>2
<1> QED BY <1>1, <1>2, <1>3, <1>4, <1>5 DEF Steps

LEMMA TypeProviders == TypeOK /\ Providers => TypeOK'
<1> SUFFICES ASSUME TypeOK, Providers PROVE TypeOK'
  OBVIOUS
<1>1. CASE GoogleButton \/ FacebookButton
  BY <1>1 DEF GoogleButton, FacebookButton, TypeOK, auth, ghost
<1>2. ASSUME NEW ok \in BOOLEAN, GoogleReturns(ok) \/ FacebookLogout(ok) PROVE TypeOK'
  BY <1>2 DEF GoogleReturns, FacebookLogout, TypeOK, auth, dialogs, ghost
<1>3. ASSUME NEW ok \in BOOLEAN, NEW a \in Account, GoogleAuth(ok, a) PROVE TypeOK'
  <2>1. CASE ok
    BY <1>3, <2>1, MemoryType DEF GoogleAuth, Cause, TypeOK
  <2>2. CASE ~ ok
    BY <1>3, <2>2 DEF GoogleAuth, TypeOK, auth, ghost
  <2> QED BY <2>1, <2>2
<1>4. ASSUME NEW ok \in BOOLEAN, NEW a \in Account, FacebookAuth(ok, a) PROVE TypeOK'
  BY <1>4 DEF FacebookAuth, SignIn, TypeOK
<1>5. ASSUME NEW granted \in BOOLEAN, NEW email \in BOOLEAN, FacebookReturns(granted, email)
      PROVE  TypeOK'
  BY <1>5 DEF FacebookReturns, TypeOK, ghost
<1> QED BY <1>1, <1>2, <1>3, <1>4, <1>5 DEF Providers

LEMMA TypeStep == TypeOK /\ [Next]_vars => TypeOK'
<1> SUFFICES ASSUME TypeOK, [Next]_vars PROVE TypeOK'
  OBVIOUS
<1>1. CASE Launch
  BY <1>1 DEF Launch, TypeOK, auth, dialogs, ghost
<1>2. CASE Kill
  BY <1>2, DieType DEF Kill
<1>3. CASE UNCHANGED vars
  BY <1>3 DEF TypeOK, vars, auth, dialogs, ghost
<1>4. CASE ForcedSignOut
  BY <1>4 DEF ForcedSignOut, TypeOK, dialogs, ghost
<1> QED BY <1>1, <1>2, <1>3, <1>4, TypeScreens, TypeSteps, TypeProviders DEF Next

\* The session keeps its types: the menu stays at the bottom of the stack and
\* every screen and every chain belongs to a login window that was opened.
THEOREM TypeCorrect == Spec => []TypeOK
BY TypeInit, TypeStep, PTL DEF Spec

-----------------------------------------------------------------------------
(***************************************************************************)
(* The tabs belong to a signed-in user.                                    *)
(***************************************************************************)

\* What is on a stack after a push and after a pop.
LEMMA HoldsPush ==
  ASSUME NEW S, NEW q \in Seq(S), NEW x \in S, NEW y
  PROVE  Holds(Append(q, x), y) <=> Holds(q, y) \/ y = x
BY Push DEF Holds

LEMMA HoldsPop ==
  ASSUME NEW S, NEW q \in Seq(S), Len(q) > 1, NEW y
  PROVE  Holds(Front(q), y) => Holds(q, y)
<1>1. PICK n \in Nat : n = Len(q)
  OBVIOUS
<1> QED BY <1>1, Pop DEF Holds

LEMMA HoldsMenu ==
  ASSUME NEW w
  PROVE  ~ Holds(<<Menu>>, [kind |-> "login", win |-> w])
         /\ ~ Holds(<<Menu>>, [kind |-> "tabs", win |-> w])
BY DEF Holds, Menu

LEMMA SessionInit == Init => SessionInv
<1> SUFFICES ASSUME Init PROVE SessionInv
  OBVIOUS
<1>1. \A w : ~ OnStack(w) /\ ~ Tabs(w)
  BY HoldsMenu DEF Init, OnStack, Tabs
<1>2. MenuAtBottom
  BY Single DEF Init, MenuAtBottom
<1>3. \A s \in Slot : chains[s].stage = "idle"
  BY DEF Init, Idle
<1>4. UserHolds
  BY DEF Init, UserHolds
<1> QED BY <1>1, <1>2, <1>3, <1>4 DEF SessionInv, ChainsSignedIn, TabsSignedIn, ChainsLoaded,
           TabsLoaded, ChainsOwn, TabsOwn

\* A step that keeps the user or signs it out by force, changes no model, lets
\* no chain into a later stage, adds no tab bar and brings no chain's window back.
Quiet ==
  /\ user' \in {user, NoUser} /\ holder' = holder
  /\ model' = model /\ raced' = raced
  /\ MenuAtBottom'
  /\ \A w \in Win : Tabs(w)' => Tabs(w)
  /\ \A s \in Slot :
       \/ chains'[s].stage \in {"idle", "auth"}
       \/ chains'[s] = chains[s] /\ (OnStack(chains[s].win)' => OnStack(chains[s].win))

LEMMA QuietInv ==
  ASSUME SessionInv, Quiet
  PROVE  SessionInv'
<1>1. UserHolds' /\ TabsSignedIn' /\ TabsLoaded' /\ TabsOwn'
  BY DEF Quiet, SessionInv, UserHolds, TabsSignedIn, TabsLoaded, TabsOwn
<1>2. ASSUME NEW s \in Slot, chains'[s].stage \in {"root", "plants"}
      PROVE  /\ chains'[s] = chains[s]
             /\ OnStack(chains[s].win)' => OnStack(chains[s].win)
  BY <1>2 DEF Quiet, OnStack
<1>3. ChainsSignedIn'
  BY <1>2 DEF Quiet, SessionInv, ChainsSignedIn, OnStack
<1>4. ChainsLoaded'
  BY <1>2 DEF Quiet, SessionInv, ChainsLoaded
<1>5. ChainsOwn'
  <2> SUFFICES ASSUME NEW s \in Slot,
                      (chains[s].stage = "plants" /\ OnStack(chains[s].win) /\ ~ raced)'
               PROVE  chains'[s].acct = holder'
    BY DEF ChainsOwn
  <2>1. chains'[s] = chains[s] /\ OnStack(chains[s].win)
    BY <1>2
  <2> QED BY <2>1 DEF Quiet, SessionInv, ChainsOwn
<1> QED BY <1>1, <1>3, <1>4, <1>5 DEF Quiet, SessionInv

\* Only the menu is left; the chains' models are as before or gone.
LEMMA AloneInv ==
  ASSUME SessionInv, stack' = <<Menu>>, UserHolds',
         \/ chains' = chains /\ model' = model
         \/ \A s \in Slot : chains'[s].stage = "idle"
  PROVE  SessionInv'
<1>1. \A w : ~ OnStack(w)' /\ ~ Tabs(w)'
  BY HoldsMenu DEF OnStack, Tabs
<1>2. MenuAtBottom'
  BY Single DEF MenuAtBottom
<1>3. ChainsLoaded'
  BY DEF SessionInv, ChainsLoaded
<1>4. \A s \in Slot : ~ OnStack(chains[s].win)'
  BY HoldsMenu DEF OnStack
<1>5. ChainsSignedIn' /\ ChainsOwn'
  BY <1>4 DEF ChainsSignedIn, ChainsOwn
<1>6. TabsSignedIn' /\ TabsLoaded' /\ TabsOwn'
  BY <1>1 DEF TabsSignedIn, TabsLoaded, TabsOwn
<1> QED BY <1>2, <1>3, <1>5, <1>6 DEF SessionInv

\* The process ends, by a crash or from outside.
LEMMA MemoryInv ==
  ASSUME SessionInv, Memory
  PROVE  SessionInv'
<1>1. \A s \in Slot : chains'[s].stage = "idle"
  BY DEF Memory, Idle
<1>2. UserHolds'
  BY DEF Memory, UserHolds
<1> QED BY <1>1, <1>2, AloneInv DEF Memory

\* Nothing but chains and dialogs changes, or the user is signed out by force,
\* and no chain enters a later stage.
LEMMA SameScreens ==
  ASSUME SessionInv, user' \in {user, NoUser}, holder' = holder, model' = model,
         raced' = raced, stack' = stack,
         \A s \in Slot : chains'[s] = chains[s] \/ chains'[s].stage \in {"idle", "auth"}
  PROVE  SessionInv'
<1>1. MenuAtBottom'
  BY DEF SessionInv, MenuAtBottom
<1>2. \A w \in Win : Tabs(w)' => Tabs(w)
  BY DEF Tabs
<1>3. \A s \in Slot : chains'[s] = chains[s] => (OnStack(chains[s].win)' => OnStack(chains[s].win))
  BY DEF OnStack
<1>4. Quiet
  BY <1>1, <1>2, <1>3 DEF Quiet
<1> QED BY <1>4, QuietInv

\* A push of a screen that is neither the menu, nor a tab bar, nor a window
\* that a chain belongs to.
LEMMA PushInv ==
  ASSUME TypeOK, SessionInv, NEW x \in Screen, stack' = Append(stack, x),
         x.kind \in {"login", "setup"}, \A s \in Slot : chains[s].win # x.win \/ x.kind = "setup",
         UNCHANGED <<user, holder, model, raced, chains>>
  PROVE  SessionInv'
<1>1. stack \in Seq(Screen)
  BY DEF TypeOK
<1>2. MenuAtBottom'
  BY <1>1, Push DEF SessionInv, MenuAtBottom
<1>3. \A w \in Win : Tabs(w)' => Tabs(w)
  BY <1>1, HoldsPush DEF Tabs
<1>4. \A s \in Slot : OnStack(chains[s].win)' => OnStack(chains[s].win)
  BY <1>1, HoldsPush DEF OnStack
<1>5. Quiet
  BY <1>2, <1>3, <1>4 DEF Quiet
<1> QED BY <1>5, QuietInv

LEMMA ScreensInv == TypeOK /\ SessionInv /\ Screens => SessionInv'
<1> SUFFICES ASSUME TypeOK, SessionInv, Screens PROVE SessionInv'
  OBVIOUS
<1>1. CASE OpenLogin
  <2> DEFINE x == [kind |-> "login", win |-> opened + 1]
  <2>1. x \in Screen
    BY <1>1, SessionAssumption DEF OpenLogin, TypeOK, Screen, Win
  <2>2. \A s \in Slot : chains[s].win # x.win
    BY SessionAssumption DEF TypeOK, Chain, Idle, Win, NoWin
  <2> QED BY <1>1, <2>1, <2>2, PushInv DEF OpenLogin, auth, ghost
<1>2. CASE OpenSetup
  <2> DEFINE x == [kind |-> "setup", win |-> NoWin]
  <2>1. x \in Screen
    BY DEF Screen
  <2> QED BY <1>2, <2>1, PushInv DEF OpenSetup, auth, ghost
<1>3. CASE Back
  <2>1. Len(stack) > 1 /\ stack' = Front(stack) /\ stack \in Seq(Screen)
    BY <1>3, Deep DEF Back, TypeOK
  <2>2. MenuAtBottom'
    BY <2>1, Pop DEF SessionInv, MenuAtBottom
  <2>3. \A w \in Win : Tabs(w)' => Tabs(w)
    BY <2>1, HoldsPop DEF Tabs
  <2>4. UNCHANGED <<user, holder, model, raced, chains>>
    BY <1>3 DEF Back, auth, ghost
  <2>5. \A s \in Slot : OnStack(chains[s].win)' => OnStack(chains[s].win)
    BY <2>1, <2>4, HoldsPop DEF OnStack
  <2>6. Quiet
    BY <2>2, <2>3, <2>4, <2>5 DEF Quiet
  <2> QED BY <2>6, QuietInv
<1>4. ASSUME NEW filled \in BOOLEAN, CreateAccount(filled) PROVE SessionInv'
  <2>1. Memory \/ UNCHANGED vars
    BY <1>4 DEF CreateAccount, Die
  <2> QED BY <2>1, MemoryInv, SameScreens DEF vars, auth, ghost
<1>5. ASSUME NEW ok \in BOOLEAN, Logout(ok) PROVE SessionInv'
  <2>1. CASE ok
    <3>1. UserHolds'
      BY <1>5, <2>1, Zenon DEF Logout, UserHolds
    <3> QED BY <1>5, <2>1, <3>1, AloneInv DEF Logout, TypeOK
  <2>2. CASE ~ ok
    BY <1>5, <2>2, SameScreens DEF Logout, vars, auth, ghost
  <2> QED BY <2>1, <2>2
<1> QED BY <1>1, <1>2, <1>3, <1>4, <1>5 DEF Screens

\* A sign-in completes: where a screen or a chain on the stack relied on
\* another user, the step is marked as a race.
LEMMA SignInInv ==
  ASSUME TypeOK, SessionInv, NEW a \in Account, SignIn(a), stack' = stack, model' = model,
         \A s \in Slot : chains'[s] = chains[s] \/ chains'[s].stage = "root"
  PROVE  SessionInv'
<1>1. user' = a /\ holder' = a /\ a # NoUser
  BY SessionAssumption DEF SignIn
<1>2. ~ raced' => ~ raced /\ (holder = a \/ ~ Relied)
  BY DEF SignIn, TypeOK
<1>3. MenuAtBottom'
  BY DEF SessionInv, MenuAtBottom
<1>4. UserHolds' /\ ChainsSignedIn' /\ TabsSignedIn'
  BY <1>1 DEF UserHolds, ChainsSignedIn, TabsSignedIn
<1>5. ChainsLoaded'
  BY DEF SessionInv, ChainsLoaded
<1>6. \A w \in Win : Tabs(w)' <=> Tabs(w)
  BY DEF Tabs
<1>7. TabsLoaded'
  BY <1>6 DEF SessionInv, TabsLoaded
<1>8. TabsOwn'
  BY <1>1, <1>2, <1>6 DEF SessionInv, TabsOwn, Relied
<1>9. ChainsOwn'
  <2> SUFFICES ASSUME NEW s \in Slot,
                      (chains[s].stage = "plants" /\ OnStack(chains[s].win) /\ ~ raced)'
               PROVE  chains'[s].acct = holder'
    BY DEF ChainsOwn
  <2>1. chains'[s] = chains[s] /\ OnStack(chains[s].win)
    BY DEF OnStack
  <2>2. Relied
    BY <2>1, Running DEF Relied, Entering
  <2> QED BY <1>1, <1>2, <2>1, <2>2 DEF SessionInv, ChainsOwn
<1> QED BY <1>3, <1>4, <1>5, <1>7, <1>8, <1>9 DEF SessionInv

LEMMA RootAnswerInv ==
  ASSUME TypeOK, SessionInv, NEW s \in Slot, RootAnswer(s)
  PROVE  SessionInv'
<1>1. /\ stack' = stack /\ user' = user /\ holder' = holder /\ raced' = raced
      /\ chains[s].win \in Win /\ chains[s].stage = "root"
  BY Running DEF RootAnswer, auth, ghost
<1>2. /\ \A w \in Win : model'[w].plants = model[w].plants /\ (model[w].root => model'[w].root)
      /\ model'[chains[s].win].root
  BY <1>1 DEF RootAnswer, TypeOK
<1>3. \A t \in Slot : t # s => chains'[t] = chains[t]
  BY DEF RootAnswer, TypeOK
<1>4. \/ chains'[s] = Idle /\ user = NoUser
      \/ chains'[s] = [chains[s] EXCEPT !.stage = "plants", !.acct = user] /\ user # NoUser
  BY DEF RootAnswer, TypeOK
<1>5. \/ chains'[s].stage = "idle"
      \/ chains'[s].win = chains[s].win /\ chains'[s].acct = user /\ user # NoUser
  <2>1. chains[s] \in [stage : {"auth", "root", "plants"}, win : Win, acct : Account]
    BY <1>1, Running
  <2>2. CASE user = NoUser
    BY <1>4, <2>2 DEF Idle
  <2>3. CASE user # NoUser
    <3>1. chains'[s] = [chains[s] EXCEPT !.stage = "plants", !.acct = user]
      BY <1>4, <2>3
    <3>2. chains'[s] = [stage |-> "plants", win |-> chains[s].win, acct |-> user]
      BY <2>1, <3>1
    <3> QED BY <2>3, <3>2
  <2> QED BY <2>2, <2>3
<1>6. MenuAtBottom'
  BY <1>1 DEF SessionInv, MenuAtBottom
<1>7. \A w \in Win : Tabs(w)' <=> Tabs(w)
  BY <1>1 DEF Tabs
<1>8. UserHolds' /\ TabsSignedIn' /\ TabsLoaded' /\ TabsOwn'
  BY <1>1, <1>2, <1>7 DEF SessionInv, UserHolds, TabsSignedIn, TabsLoaded, TabsOwn
<1>9. ChainsLoaded'
  <2> SUFFICES ASSUME NEW t \in Slot, chains'[t].stage = "plants"
               PROVE  model'[chains'[t].win].root
    BY DEF ChainsLoaded
  <2>1. CASE t = s
    BY <1>2, <1>5, <2>1
  <2>2. CASE t # s
    <3>1. chains'[t] = chains[t] /\ chains[t].win \in Win
      BY <1>3, <2>2, Running
    <3> QED BY <1>2, <3>1 DEF SessionInv, ChainsLoaded
  <2> QED BY <2>1, <2>2
<1>10. ASSUME NEW t \in Slot, (chains[t].stage \in {"root", "plants"} /\ OnStack(chains[t].win))'
       PROVE  /\ holder # NoUser
              /\ chains'[t].stage = "plants" /\ ~ raced => chains'[t].acct = holder
  <2>1. CASE t = s
    BY <1>5, <1>10, <2>1 DEF SessionInv, UserHolds
  <2>2. CASE t # s
    <3>1. chains'[t] = chains[t] /\ OnStack(chains[t].win)
      BY <1>1, <1>3, <1>10, <2>2 DEF OnStack
    <3> QED BY <1>10, <3>1 DEF SessionInv, ChainsSignedIn, ChainsOwn
  <2> QED BY <2>1, <2>2
<1>11. ChainsSignedIn' /\ ChainsOwn'
  BY <1>1, <1>10 DEF ChainsSignedIn, ChainsOwn
<1> QED BY <1>6, <1>8, <1>9, <1>11 DEF SessionInv

LEMMA PlantsAnswerInv ==
  ASSUME TypeOK, SessionInv, NEW s \in Slot, NEW some \in BOOLEAN, PlantsAnswer(s, some)
  PROVE  SessionInv'
<1> DEFINE w == chains[s].win
           x == [kind |-> "tabs", win |-> w]
<1>1. CASE ~ OnStack(w) \/ ~ some
  <2>1. Memory
    BY <1>1 DEF PlantsAnswer, Die
  <2> QED BY <2>1, MemoryInv
<1>2. CASE OnStack(w) /\ some
  <2>1. /\ model' = [model EXCEPT ![w].plants = chains[s].acct]
        /\ stack' = Append(stack, x)
        /\ chains' = [chains EXCEPT ![s] = Idle]
        /\ user' = user /\ holder' = holder /\ raced' = raced
        /\ chains[s].stage = "plants"
    BY <1>2 DEF PlantsAnswer, auth, ghost
  <2>2. w \in Win /\ chains[s].acct \in Account /\ chains[s].acct # NoUser
    BY <2>1, Running, SessionAssumption
  <2>3. x \in Screen /\ stack \in Seq(Screen)
    BY <2>2 DEF Screen, TypeOK
  <2>4. MenuAtBottom'
    BY <2>1, <2>3, Push DEF SessionInv, MenuAtBottom
  <2>5. \A v \in Win : Tabs(v)' => Tabs(v) \/ v = w
    BY <2>1, <2>3, HoldsPush DEF Tabs
  <2>6. \A t \in Slot : chains'[t].stage # "idle" => chains'[t] = chains[t]
    BY <2>1 DEF Idle, TypeOK
  <2>7. /\ \A v \in Win : model'[v].root = model[v].root
        /\ \A v \in Win : v # w => model'[v].plants = model[v].plants
        /\ model'[w].plants = chains[s].acct
    BY <2>1, <2>2 DEF TypeOK
  <2>8. holder # NoUser /\ model[w].root /\ (~ raced => chains[s].acct = holder)
    BY <1>2, <2>1 DEF SessionInv, ChainsSignedIn, ChainsLoaded, ChainsOwn
  <2>9. UserHolds' /\ TabsSignedIn' /\ TabsLoaded' /\ TabsOwn'
    BY <2>1, <2>2, <2>5, <2>7, <2>8 DEF SessionInv, UserHolds, TabsSignedIn, TabsLoaded, TabsOwn
  <2>10. ChainsLoaded'
    <3> SUFFICES ASSUME NEW t \in Slot, chains'[t].stage = "plants"
                 PROVE  model'[chains'[t].win].root
      BY DEF ChainsLoaded
    <3>1. chains'[t] = chains[t] /\ chains[t].win \in Win
      BY <2>6, Running
    <3> QED BY <2>7, <3>1 DEF SessionInv, ChainsLoaded
  <2>11. ASSUME NEW t \in Slot, (chains[t].stage \in {"root", "plants"} /\ OnStack(chains[t].win))'
         PROVE  chains'[t] = chains[t] /\ OnStack(chains[t].win)
    <3>1. chains'[t] = chains[t]
      BY <2>6, <2>11
    <3> QED BY <2>1, <2>3, <2>11, <3>1, HoldsPush DEF OnStack
  <2>12. ChainsSignedIn'
    BY <2>1, <2>11 DEF SessionInv, ChainsSignedIn
  <2>13. ChainsOwn'
    BY <2>1, <2>11 DEF SessionInv, ChainsOwn
  <2> QED BY <2>4, <2>9, <2>10, <2>12, <2>13 DEF SessionInv
<1> QED BY <1>1, <1>2

LEMMA StepsInv ==
  ASSUME TypeOK, SessionInv, NEW s \in Slot, Steps(s)
  PROVE  SessionInv'
<1>1. ASSUME NEW a \in Account, Login(s, a) PROVE SessionInv'
  BY <1>1, SameScreens DEF Login, TypeOK, auth, ghost
<1>2. CASE AuthFail(s) \/ ReadCancel(s)
  BY <1>2, SameScreens DEF AuthFail, ReadCancel, TypeOK, Idle, auth, ghost
<1>3. CASE AuthOk(s)
  <2>1. chains[s].acct \in Account
    BY <1>3, Running DEF AuthOk
  <2>2. \A t \in Slot : chains'[t] = chains[t] \/ chains'[t].stage = "root"
    BY <1>3, Running DEF AuthOk, TypeOK
  <2> QED BY <1>3, <2>1, <2>2, SignInInv DEF AuthOk
<1> QED BY <1>1, <1>2, <1>3, RootAnswerInv, PlantsAnswerInv DEF Steps

\* With the menu on top nothing else is on the stack.
LEMMA MenuAlone ==
  ASSUME TypeOK, SessionInv, Top.kind = "menu"
  PROVE  stack = <<Menu>>
<1>1. PICK n \in Nat : n = Len(stack) /\ n # 0
  BY DEF TypeOK
<1>2. n \in DOMAIN stack /\ stack[n].kind = "menu"
  BY <1>1 DEF TypeOK, Top
<1>3. n = 1
  BY <1>2 DEF SessionInv, MenuAtBottom
<1>4. stack \in Seq(Screen) /\ Len(stack) = 1 /\ stack[1] = Menu
  BY <1>1, <1>3 DEF TypeOK
<1> QED BY <1>4

LEMMA ProvidersInv == TypeOK /\ SessionInv /\ Providers => SessionInv'
<1> SUFFICES ASSUME TypeOK, SessionInv, Providers PROVE SessionInv'
  OBVIOUS
<1>1. CASE GoogleButton \/ FacebookButton
  BY <1>1, SameScreens DEF GoogleButton, FacebookButton, auth, ghost
<1>2. ASSUME NEW ok \in BOOLEAN, GoogleReturns(ok) PROVE SessionInv'
  BY <1>2, SameScreens DEF GoogleReturns, auth, ghost
<1>3. ASSUME NEW ok \in BOOLEAN, NEW a \in Account, GoogleAuth(ok, a) PROVE SessionInv'
  <2>1. CASE ok
    BY <1>3, <2>1, MemoryInv DEF GoogleAuth
  <2>2. CASE ~ ok
    BY <1>3, <2>2, SameScreens DEF GoogleAuth, auth, ghost
  <2> QED BY <2>1, <2>2
<1>4. ASSUME NEW ok \in BOOLEAN, NEW a \in Account, FacebookAuth(ok, a) PROVE SessionInv'
  <2>1. CASE ok
    BY <1>4, <2>1, SignInInv DEF FacebookAuth
  <2>2. CASE ~ ok
    BY <1>4, <2>2, SameScreens DEF FacebookAuth
  <2> QED BY <2>1, <2>2
<1>5. CASE \E granted, email \in BOOLEAN : FacebookReturns(granted, email)
  BY <1>5, SameScreens DEF FacebookReturns, ghost
<1>6. ASSUME NEW ok \in BOOLEAN, FacebookLogout(ok) PROVE SessionInv'
  <2>1. stack = <<Menu>>
    BY <1>6, MenuAlone DEF FacebookLogout
  <2>2. UserHolds'
    BY <1>6, Zenon DEF FacebookLogout, SessionInv, UserHolds
  <2> QED BY <1>6, <2>1, <2>2, AloneInv DEF FacebookLogout
<1> QED BY <1>1, <1>2, <1>3, <1>4, <1>5, <1>6 DEF Providers

LEMMA SessionStep == TypeOK /\ SessionInv /\ [Next]_vars => SessionInv'
<1> SUFFICES ASSUME TypeOK, SessionInv, [Next]_vars PROVE SessionInv'
  OBVIOUS
<1>1. CASE Launch
  BY <1>1, SameScreens DEF Launch, auth, ghost
<1>2. CASE Kill
  BY <1>2, MemoryInv DEF Kill, Die
<1>3. CASE UNCHANGED vars
  BY <1>3, SameScreens DEF vars, auth, ghost
<1>4. CASE ForcedSignOut
  BY <1>4, SameScreens DEF ForcedSignOut, ghost
<1> QED BY <1>1, <1>2, <1>3, <1>4, ScreensInv, StepsInv, ProvidersInv DEF Next

LEMMA SessionCorrect == Spec => []SessionInv
<1>1. TypeOK /\ SessionInv /\ [Next]_vars => TypeOK' /\ SessionInv'
  BY TypeStep, SessionStep
<1>2. Init => TypeOK /\ SessionInv
  BY TypeInit, SessionInit
<1> QED BY <1>1, <1>2, PTL DEF Spec

\* The farm's windows are on the stack only between a sign-in and the sign-out
\* that undoes it, however many chains a logout overtakes and whenever the
\* library signs the user out by force.
THEOREM TabsAreSignedIn == Spec => []TabsSignedIn
<1>1. SessionInv => TabsSignedIn
  BY DEF SessionInv
<1> QED BY <1>1, SessionCorrect, PTL

\* The windows' model holds the root and some account's plants before the
\* windows exist and as long as they do.
THEOREM TabsAreLoaded == Spec => []TabsLoaded
<1>1. SessionInv => TabsLoaded
  BY DEF SessionInv
<1> QED BY <1>1, SessionCorrect, PTL

\* The plants on screen are the holder's unless a sign-in raced.
THEOREM TabsAreOwn == Spec => []TabsOwn
<1>1. SessionInv => TabsOwn
  BY DEF SessionInv
<1> QED BY <1>1, SessionCorrect, PTL

-----------------------------------------------------------------------------
(***************************************************************************)
(* The session keeps the promise of FarmAccess.                            *)
(***************************************************************************)

\* A pop takes the top screen and no other kind of screen.
LEMMA HoldsUnderTop ==
  ASSUME NEW S, NEW q \in Seq(S), Len(q) > 1, NEW y, y # q[Len(q)]
  PROVE  Holds(Front(q), y) <=> Holds(q, y)
<1>1. PICK n \in Nat : n = Len(q)
  OBVIOUS
<1>2. /\ DOMAIN q = 1 .. n /\ DOMAIN Front(q) = 1 .. n - 1
      /\ \A i \in 1 .. n - 1 : Front(q)[i] = q[i]
  BY <1>1, Pop
<1>3. ASSUME NEW i \in 1 .. n, q[i] = y PROVE i \in 1 .. n - 1
  BY <1>1, <1>3
<1> QED BY <1>2, <1>3 DEF Holds

\* The doors' state, door by door.
LEMMA DoorsSame ==
  ASSUME \A w \in Win : Entering(w)' <=> Entering(w)
  PROVE  Doors' = Doors
BY DEF Doors

LEMMA InsideSame ==
  ASSUME \A w \in Win : /\ Tabs(w)' <=> Tabs(w)
                        /\ model'[w].plants = model[w].plants
  PROVE  Inside' = Inside
BY DEF Inside

LEMMA InsideStack ==
  ASSUME stack' = stack, \A w \in Win : model'[w].plants = model[w].plants
  PROVE  Inside' = Inside
<1>1. \A w \in Win : Tabs(w)' <=> Tabs(w)
  BY DEF Tabs
<1> QED BY <1>1, InsideSame

LEMMA DoorLess ==
  ASSUME NEW d \in Win, Entering(d)' => Entering(d),
         \A w \in Win : w # d => (Entering(w)' <=> Entering(w))
  PROVE  Doors' \in {Doors, Doors \ {d}}
BY DEF Doors

\* The end of one chain can only close the door of its own window.
LEMMA ChainEnds ==
  ASSUME TypeOK, NEW s \in Slot, chains' = [chains EXCEPT ![s] = Idle],
         chains[s].win \in Win,
         \A w \in Win : OnStack(w)' <=> OnStack(w)
  PROVE  Doors' \in {Doors, Doors \ {chains[s].win}}
<1>1. PICK d \in Win : d = chains[s].win
  OBVIOUS
<1>2. /\ chains'[s].stage = "idle"
      /\ \A t \in Slot : t # s => chains'[t] = chains[t]
  BY DEF TypeOK, Idle
<1>3. Entering(d)' => Entering(d)
  BY <1>1, <1>2 DEF Entering
<1>4. \A w \in Win : w # d => (Entering(w)' <=> Entering(w))
  BY <1>1, <1>2 DEF Entering
<1> QED BY <1>1, <1>3, <1>4, DoorLess

\* A step of a chain between the same kinds of stages moves no door.
LEMMA ChainsSame ==
  ASSUME stack' = stack,
         \A s \in Slot : \/ chains'[s] = chains[s]
                         \/ /\ chains'[s].stage \notin {"root", "plants"}
                            /\ chains[s].stage \notin {"root", "plants"}
  PROVE  Doors' = Doors
<1>1. \A w \in Win : Entering(w)' <=> Entering(w)
  BY DEF Entering, OnStack
<1> QED BY <1>1, DoorsSame

LEMMA AccessIdle ==
  ASSUME user' = user, holder' = holder, raced' = raced, Doors' = Doors, Inside' = Inside
  PROVE  UNCHANGED Access!vars
BY DEF Access!vars

LEMMA AccessAbandon ==
  ASSUME user' = user, holder' = holder, raced' = raced, Inside' = Inside,
         NEW d \in Win, Doors' \in {Doors, Doors \ {d}}
  PROVE  Access!Next \/ UNCHANGED Access!vars
<1>1. CASE Doors' = Doors
  BY <1>1, AccessIdle
<1>2. CASE Doors' = Doors \ {d}
  BY <1>2 DEF Access!Next, Access!Abandon
<1> QED BY <1>1, <1>2

\* Nothing but the menu is left: everyone is out.
LEMMA AccessAlone ==
  ASSUME stack' = <<Menu>>, raced' = FALSE, holder' = user', user' \in Account \cup {NoUser}
  PROVE  Access!Next
<1>1. \A w : ~ OnStack(w)' /\ ~ Tabs(w)'
  BY HoldsMenu DEF OnStack, Tabs
<1>2. Doors' = {}
  BY <1>1 DEF Doors, Entering
<1>3. Inside' = Access!Empty
  BY <1>1 DEF Inside, Access!Empty
<1>4. Access!Leave(user')
  BY <1>2, <1>3, Zenon DEF Access!Leave
<1> QED BY <1>4 DEF Access!Next

LEMMA AccessMemory ==
  ASSUME TypeOK', Memory
  PROVE  Access!Next
<1>1. stack' = <<Menu>> /\ raced' = FALSE /\ holder' = user'
  BY Zenon DEF Memory
<1> QED BY <1>1, AccessAlone DEF TypeOK

\* Where the chains and screens rely on the user, a door is entered or open.
LEMMA ReliedDoors ==
  ASSUME TabsLoaded
  PROVE  Relied <=> Doors # {} \/ Inside # Access!Empty
<1>1. \A w \in Win : Tabs(w) <=> Inside[w] # NoUser
  BY DEF Inside, TabsLoaded
<1>2. Inside # Access!Empty <=> \E w \in Win : Inside[w] # NoUser
  BY DEF Inside, Access!Empty
<1>3. Doors # {} <=> \E w \in Win : Entering(w)
  BY DEF Doors
<1> QED BY <1>1, <1>2, <1>3 DEF Relied

\* A sign-in by e-mail or by a provider.
LEMMA AccessSignIn ==
  ASSUME SessionInv, NEW a \in Account, SignIn(a), Inside' = Inside,
         Doors' = Doors \/ \E d \in Win : Doors' = Doors \cup {d}
  PROVE  Access!Next
<1>1. user' = a /\ holder' = a
      /\ raced' = (raced \/ (holder # a /\ (Doors # {} \/ Inside # Access!Empty)))
  BY ReliedDoors, Zenon DEF SignIn, SessionInv
<1>2. Access!SignIn(a)
  BY <1>1, Zenon DEF Access!SignIn
<1>3. CASE Doors' = Doors
  BY <1>2, <1>3 DEF Access!Next, Access!Replace
<1>4. CASE \E d \in Win : Doors' = Doors \cup {d}
  BY <1>2, <1>4 DEF Access!Next, Access!Begin
<1> QED BY <1>3, <1>4

\* Screens that are pushed below the farm's windows, and the back button.
LEMMA AccessScreens ==
  ASSUME TypeOK, TypeOK', SessionInv, Screens
  PROVE  Access!Next \/ UNCHANGED Access!vars
<1>1. ASSUME NEW x \in Screen, stack' = Append(stack, x), x.kind \in {"login", "setup"},
             x.kind = "login" => \A s \in Slot : chains[s].win # x.win,
             UNCHANGED <<user, holder, raced, model, chains>>
      PROVE  UNCHANGED Access!vars
  <2>1. stack \in Seq(Screen)
    BY DEF TypeOK
  <2>2. \A w \in Win : Tabs(w)' <=> Tabs(w)
    BY <1>1, <2>1, HoldsPush DEF Tabs
  <2>3. \A w \in Win : OnStack(w)' <=> OnStack(w) \/ x = [kind |-> "login", win |-> w]
    BY <1>1, <2>1, HoldsPush DEF OnStack
  <2>4. \A w \in Win : Entering(w)' <=> Entering(w)
    BY <1>1, <2>3 DEF Entering
  <2> QED BY <1>1, <2>2, <2>4, DoorsSame, InsideSame, AccessIdle
<1>2. CASE OpenLogin
  <2> DEFINE x == [kind |-> "login", win |-> opened + 1]
  <2>1. x \in Screen
    BY <1>2, SessionAssumption DEF OpenLogin, TypeOK, Screen, Win
  <2>2. \A s \in Slot : chains[s].win # x.win
    BY SessionAssumption DEF TypeOK, Chain, Idle, Win, NoWin
  <2> QED BY <1>1, <1>2, <2>1, <2>2 DEF OpenLogin, auth, ghost
<1>3. CASE OpenSetup
  <2> DEFINE x == [kind |-> "setup", win |-> NoWin]
  <2>1. x \in Screen
    BY DEF Screen
  <2> QED BY <1>1, <1>3, <2>1 DEF OpenSetup, auth, ghost
<1>4. CASE Back
  <2>1. /\ Len(stack) > 1 /\ stack' = Front(stack) /\ stack \in Seq(Screen)
        /\ Top.kind \in {"login", "setup"} /\ UNCHANGED <<user, holder, raced, model, chains>>
    BY <1>4, Deep DEF Back, TypeOK, auth, ghost
  <2>2. \A w \in Win : Tabs(w)' <=> Tabs(w)
    BY <2>1, HoldsUnderTop DEF Tabs, Top
  <2>3. Inside' = Inside
    BY <2>1, <2>2, InsideSame
  <2>4. \A w \in Win : Top # [kind |-> "login", win |-> w] => (OnStack(w)' <=> OnStack(w))
    BY <2>1, HoldsUnderTop DEF OnStack, Top
  <2>5. CASE \E d \in Win : Top = [kind |-> "login", win |-> d]
    <3>1. PICK d \in Win : Top = [kind |-> "login", win |-> d]
      BY <2>5
    <3>2. \A w \in Win : w # d => (Entering(w)' <=> Entering(w))
      BY <2>1, <2>4, <3>1 DEF Entering
    <3>3. Entering(d)' => Entering(d)
      BY <2>1, HoldsPop DEF Entering, OnStack
    <3>4. Doors' \in {Doors, Doors \ {d}}
      BY <3>2, <3>3, DoorLess
    <3> QED BY <2>1, <2>3, <3>4, AccessAbandon
  <2>6. CASE ~ \E d \in Win : Top = [kind |-> "login", win |-> d]
    <3>1. \A w \in Win : Entering(w)' <=> Entering(w)
      BY <2>1, <2>4, <2>6 DEF Entering
    <3> QED BY <2>1, <2>3, <3>1, DoorsSame, AccessIdle
  <2> QED BY <2>5, <2>6
<1>5. ASSUME NEW filled \in BOOLEAN, CreateAccount(filled)
      PROVE  Access!Next \/ UNCHANGED Access!vars
  <2>1. Memory \/ UNCHANGED vars
    BY <1>5 DEF CreateAccount, Die
  <2>2. CASE UNCHANGED vars
    BY <2>2, ChainsSame, InsideStack, AccessIdle DEF vars, auth, ghost
  <2> QED BY <2>1, <2>2, AccessMemory
<1>6. ASSUME NEW ok \in BOOLEAN, Logout(ok)
      PROVE  Access!Next \/ UNCHANGED Access!vars
  <2>1. CASE ok
    <3>1. stack' = <<Menu>>
      BY <1>6, <2>1 DEF Logout, TypeOK
    <3>2. raced' = FALSE /\ user' = NoUser /\ holder' = NoUser
      BY <1>6, <2>1, Zenon DEF Logout
    <3> QED BY <3>1, <3>2, AccessAlone
  <2>2. CASE ~ ok
    BY <1>6, <2>2, ChainsSame, InsideStack, AccessIdle DEF Logout, vars, auth, ghost
  <2> QED BY <2>1, <2>2
<1> QED BY <1>2, <1>3, <1>4, <1>5, <1>6 DEF Screens

\* The answers of a chain.
LEMMA AccessSteps ==
  ASSUME TypeOK, TypeOK', SessionInv, NEW s \in Slot, Steps(s)
  PROVE  Access!Next \/ UNCHANGED Access!vars
<1>1. ASSUME NEW a \in Account, Login(s, a)
      PROVE  UNCHANGED Access!vars
  <2>1. \A t \in Slot : \/ chains'[t] = chains[t]
                        \/ chains'[t].stage = "auth" /\ chains[t].stage = "idle"
    BY <1>1 DEF Login, TypeOK, Idle
  <2> QED BY <1>1, <2>1, ChainsSame, InsideStack, AccessIdle DEF Login, auth, ghost
<1>2. CASE AuthFail(s)
  <2>1. \A t \in Slot : \/ chains'[t] = chains[t]
                        \/ chains'[t].stage = "idle" /\ chains[t].stage = "auth"
    BY <1>2 DEF AuthFail, TypeOK, Idle
  <2> QED BY <1>2, <2>1, ChainsSame, InsideStack, AccessIdle DEF AuthFail, auth, ghost
<1>3. CASE AuthOk(s)
  <2> DEFINE d == chains[s].win
  <2>1. /\ chains[s].acct \in Account /\ d \in Win /\ chains[s].stage = "auth"
        /\ SignIn(chains[s].acct) /\ stack' = stack /\ model' = model
    BY <1>3, Running DEF AuthOk
  <2>2. /\ chains'[s].stage = "root" /\ chains'[s].win = d
        /\ \A t \in Slot : t # s => chains'[t] = chains[t]
    BY <1>3, Running DEF AuthOk, TypeOK
  <2>3. \A w \in Win : Entering(w)' <=> Entering(w) \/ (w = d /\ OnStack(d))
    BY <2>1, <2>2 DEF Entering, OnStack
  <2>4. Doors' = Doors \/ Doors' = Doors \cup {d}
    BY <2>1, <2>3 DEF Doors
  <2>5. Inside' = Inside
    BY <2>1, InsideStack
  <2> QED BY <2>1, <2>4, <2>5, AccessSignIn
<1>4. CASE RootAnswer(s)
  <2>1. /\ chains[s].win \in Win /\ chains[s].stage = "root"
        /\ stack' = stack /\ user' = user /\ holder' = holder /\ raced' = raced
    BY <1>4, Running DEF RootAnswer, auth, ghost
  <2>2. Inside' = Inside
    BY <1>4, <2>1, InsideStack DEF RootAnswer, TypeOK
  <2>3. CASE user = NoUser
    <3>1. chains' = [chains EXCEPT ![s] = Idle]
      BY <1>4, <2>3 DEF RootAnswer
    <3>2. Doors' \in {Doors, Doors \ {chains[s].win}}
      BY <2>1, <3>1, ChainEnds DEF OnStack
    <3> QED BY <2>1, <2>2, <3>2, AccessAbandon
  <2>4. CASE user # NoUser
    <3>1. chains' = [chains EXCEPT ![s] = [@ EXCEPT !.stage = "plants", !.acct = user]]
      BY <1>4, <2>4 DEF RootAnswer
    <3>2. chains[s] \in [stage : {"auth", "root", "plants"}, win : Win, acct : Account]
      BY <2>1, Running
    <3>3. /\ chains'[s].stage = "plants" /\ chains'[s].win = chains[s].win
          /\ \A t \in Slot : t # s => chains'[t] = chains[t]
      BY <3>1, <3>2 DEF TypeOK
    <3>4. \A w \in Win : Entering(w)' <=> Entering(w)
      BY <2>1, <3>3 DEF Entering, OnStack
    <3> QED BY <2>1, <2>2, <3>4, DoorsSame, AccessIdle
  <2> QED BY <2>3, <2>4
<1>5. CASE ReadCancel(s)
  <2>1. /\ chains[s].win \in Win /\ chains' = [chains EXCEPT ![s] = Idle]
        /\ UNCHANGED <<user, holder, raced, stack, model>>
    BY <1>5, Running DEF ReadCancel, auth
  <2>2. Doors' \in {Doors, Doors \ {chains[s].win}}
    BY <2>1, ChainEnds DEF OnStack
  <2> QED BY <2>1, <2>2, InsideStack, AccessAbandon
<1>6. ASSUME NEW some \in BOOLEAN, PlantsAnswer(s, some)
      PROVE  Access!Next
  <2> DEFINE d == chains[s].win
             x == [kind |-> "tabs", win |-> d]
             a == chains[s].acct
  <2>1. CASE ~ OnStack(d) \/ ~ some
    <3>1. Memory
      BY <1>6, <2>1 DEF PlantsAnswer, Die
    <3> QED BY <3>1, AccessMemory
  <2>2. CASE OnStack(d) /\ some
    <3>1. /\ model' = [model EXCEPT ![d].plants = a] /\ stack' = Append(stack, x)
          /\ chains' = [chains EXCEPT ![s] = Idle]
          /\ user' = user /\ holder' = holder /\ raced' = raced
          /\ chains[s].stage = "plants"
      BY <1>6, <2>2 DEF PlantsAnswer, auth, ghost
    <3>2. d \in Win /\ a \in Account /\ x \in Screen /\ stack \in Seq(Screen)
      BY <3>1, Running DEF Screen, TypeOK
    <3>3. \A w \in Win : OnStack(w)' <=> OnStack(w)
      BY <3>1, <3>2, HoldsPush DEF OnStack
    <3>4. Doors' \in {Doors, Doors \ {d}}
      BY <3>1, <3>2, <3>3, ChainEnds
    <3>5. \A w \in Win : Tabs(w)' <=> Tabs(w) \/ w = d
      BY <3>1, <3>2, HoldsPush DEF Tabs
    <3>6. /\ \A w \in Win : w # d => model'[w].plants = model[w].plants
          /\ model'[d].plants = a
      BY <3>1, <3>2 DEF TypeOK
    <3>7. Inside' = [Inside EXCEPT ![d] = a]
      BY <3>2, <3>5, <3>6 DEF Inside
    <3>8. d \in Doors /\ holder # NoUser /\ (raced \/ a = holder)
      BY <2>2, <3>1, <3>2 DEF Doors, Entering, SessionInv, ChainsSignedIn, ChainsOwn
    <3>9. Access!Enter(d, a)
      <4> HIDE DEF d, a
      <4> QED BY <3>1, <3>4, <3>7, <3>8, Zenon DEF Access!Enter
    <3> QED BY <3>2, <3>9 DEF Access!Next
  <2> QED BY <2>1, <2>2
<1> QED BY <1>1, <1>2, <1>3, <1>4, <1>5, <1>6 DEF Steps

LEMMA AccessProviders ==
  ASSUME TypeOK, TypeOK', SessionInv, Providers
  PROVE  Access!Next \/ UNCHANGED Access!vars
<1>1. CASE UNCHANGED <<user, holder, raced, stack, model, chains>>
  BY <1>1, ChainsSame, InsideStack, AccessIdle
<1>2. CASE GoogleButton \/ FacebookButton
  BY <1>1, <1>2 DEF GoogleButton, FacebookButton, auth, ghost
<1>3. ASSUME NEW ok \in BOOLEAN, GoogleReturns(ok)
      PROVE  Access!Next \/ UNCHANGED Access!vars
  BY <1>1, <1>3 DEF GoogleReturns, auth, ghost
<1>4. CASE \E granted, email \in BOOLEAN : FacebookReturns(granted, email)
  BY <1>1, <1>4 DEF FacebookReturns, ghost
<1>5. ASSUME NEW ok \in BOOLEAN, NEW a \in Account, GoogleAuth(ok, a)
      PROVE  Access!Next \/ UNCHANGED Access!vars
  <2>1. CASE ok
    BY <1>5, <2>1, AccessMemory DEF GoogleAuth
  <2>2. CASE ~ ok
    BY <1>1, <1>5, <2>2 DEF GoogleAuth, auth, ghost
  <2> QED BY <2>1, <2>2
<1>6. ASSUME NEW ok \in BOOLEAN, NEW a \in Account, FacebookAuth(ok, a)
      PROVE  Access!Next \/ UNCHANGED Access!vars
  <2>1. UNCHANGED <<stack, model, chains>>
    BY <1>6 DEF FacebookAuth
  <2>2. Doors' = Doors /\ Inside' = Inside
    BY <2>1, ChainsSame, InsideStack
  <2>3. CASE ok
    BY <1>6, <2>2, <2>3, AccessSignIn DEF FacebookAuth
  <2>4. CASE ~ ok
    BY <1>6, <2>1, <2>4, <1>1 DEF FacebookAuth
  <2> QED BY <2>3, <2>4
<1>7. ASSUME NEW ok \in BOOLEAN, FacebookLogout(ok)
      PROVE  Access!Next \/ UNCHANGED Access!vars
  <2>1. CASE ok
    <3>1. stack = <<Menu>>
      BY <1>7, MenuAlone DEF FacebookLogout
    <3>2. stack' = <<Menu>> /\ raced' = FALSE /\ user' = NoUser /\ holder' = NoUser
      BY <1>7, <2>1, <3>1, Zenon DEF FacebookLogout
    <3> QED BY <3>2, AccessAlone
  <2>2. CASE ~ ok
    BY <1>1, <1>7, <2>2 DEF FacebookLogout
  <2> QED BY <2>1, <2>2
<1> QED BY <1>2, <1>3, <1>4, <1>5, <1>6, <1>7 DEF Providers

LEMMA AccessInit == Init => Access!Init
<1> SUFFICES ASSUME Init PROVE Access!Init
  OBVIOUS
<1>1. \A w : ~ OnStack(w) /\ ~ Tabs(w)
  BY HoldsMenu DEF Init, OnStack, Tabs
<1>2. Doors = {} /\ Inside = Access!Empty
  BY <1>1 DEF Doors, Entering, Inside, Access!Empty
<1> QED BY <1>2, Zenon DEF Init, Access!Init

LEMMA AccessStep ==
  ASSUME TypeOK, TypeOK', SessionInv, [Next]_vars
  PROVE  [Access!Next]_(Access!vars)
<1>1. CASE Launch \/ UNCHANGED vars
  BY <1>1, ChainsSame, InsideStack, AccessIdle DEF Launch, vars, auth, ghost
<1>2. CASE Kill
  BY <1>2, AccessMemory DEF Kill, Die
<1>3. CASE ForcedSignOut
  <2>1. UNCHANGED <<stack, model, chains, holder, raced>> /\ user # NoUser /\ user' = NoUser
    BY <1>3 DEF ForcedSignOut, ghost
  <2>2. Doors' = Doors /\ Inside' = Inside
    BY <2>1, ChainsSame, InsideStack
  <2>3. Access!Expel
    BY <2>1, <2>2, Zenon DEF Access!Expel
  <2> QED BY <2>3 DEF Access!Next
<1> QED BY <1>1, <1>2, <1>3, AccessScreens, AccessSteps, AccessProviders DEF Next

\* The sign-in screens and chains implement FarmAccess.
THEOREM AccessRefined == Spec => AccessSpec
<1>1. Init => TypeOK /\ SessionInv /\ Access!Init
  BY TypeInit, SessionInit, AccessInit
<1>2. TypeOK /\ SessionInv /\ [Next]_vars => TypeOK' /\ SessionInv'
  BY TypeStep, SessionStep
<1>3. TypeOK /\ TypeOK' /\ SessionInv /\ [Next]_vars => [Access!Next]_(Access!vars)
  BY AccessStep
<1> QED BY <1>1, <1>2, <1>3, PTL DEF Spec, AccessSpec, Access!Spec

\* Behind every door is the holder's farm, unless a sign-in raced, and nobody
\* else is signed in.
AccessInv ==
  /\ user \in {NoUser, holder}
  /\ \A d \in Win : Inside[d] # NoUser => holder # NoUser /\ (raced \/ Inside[d] = holder)

\* What FarmAccess is worth: whoever keeps its promise (the screens do, by
\* AccessRefined) shows farms only between a sign-in and the sign-out that
\* undoes it, and only the holder's farm unless another sign-in raced.
THEOREM AccessIsOwn == AccessSpec => []AccessInv
<1>1. Access!Init => AccessInv
  BY DEF Access!Init, Access!Empty, AccessInv
<1>2. AccessInv /\ [Access!Next]_(Access!vars) => AccessInv'
  <2> SUFFICES ASSUME AccessInv, [Access!Next]_(Access!vars) PROVE AccessInv'
    OBVIOUS
  <2>1. ASSUME NEW a \in Account, Access!SignIn(a) PROVE AccessInv'
    <3>1. user' = a /\ holder' = a /\ a # NoUser /\ Inside' = Inside
      BY <2>1, SessionAssumption DEF Access!SignIn
    <3>2. ASSUME NEW e \in Win, Inside'[e] # NoUser
          PROVE  holder' # NoUser /\ (raced' \/ Inside'[e] = holder')
      <4>1. Inside # Access!Empty
        BY <3>1, <3>2 DEF Access!Empty
      <4>2. raced' = (raced \/ holder # a)
        BY <2>1, <4>1, Zenon DEF Access!SignIn
      <4>3. raced \/ Inside[e] = holder
        BY <3>1, <3>2 DEF AccessInv
      <4> QED BY <3>1, <4>2, <4>3
    <3> QED BY <3>1, <3>2 DEF AccessInv
  <2>2. ASSUME NEW d \in Win, NEW a \in Account, Access!Enter(d, a) PROVE AccessInv'
    <3>1. /\ holder # NoUser /\ (raced \/ a = holder)
          /\ user' = user /\ holder' = holder
          /\ Inside' = [Inside EXCEPT ![d] = a]
      BY <2>2 DEF Access!Enter
    <3>2. raced' = raced
      BY <2>2, Zenon DEF Access!Enter
    <3>3. \A e \in Win : Inside'[e] = IF e = d THEN a ELSE Inside[e]
      BY <3>1 DEF Inside
    <3> QED BY <3>1, <3>2, <3>3 DEF AccessInv
  <2>3. ASSUME NEW d \in Win, Access!Abandon(d) PROVE AccessInv'
    BY <2>3 DEF Access!Abandon, AccessInv
  <2>4. ASSUME NEW u, Access!Leave(u) PROVE AccessInv'
    BY <2>4 DEF Access!Leave, Access!Empty, AccessInv
  <2>5. CASE Access!Expel \/ UNCHANGED Access!vars
    BY <2>5 DEF Access!Expel, Access!vars, AccessInv
  <2> QED BY <2>1, <2>2, <2>3, <2>4, <2>5 DEF Access!Next, Access!Begin, Access!Replace
<1> QED BY <1>1, <1>2, PTL DEF AccessSpec, Access!Spec

=============================================================================
