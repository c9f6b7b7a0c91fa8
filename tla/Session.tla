------------------------------ MODULE Session ------------------------------
(***************************************************************************)
(* Signing in and out: the navigation stack, the four ways to sign in, and *)
(* the login chain (authenticate, read the root, read the user's plants,   *)
(* push the tab bar) that ends in the farm's three windows.                *)
(*                                                                         *)
(* Handlers and completion blocks run on the main queue, one at a time.    *)
(* Nothing disables the screen while a chain is under way: the user may go *)
(* back, press Login again or log out, and the blocks still run, because   *)
(* they hold their login window, which may have left the stack by then.    *)
(***************************************************************************)
EXTENDS Integers, Sequences, SequencesExt

CONSTANTS
  Account,  \* accounts of the authentication service
  NoUser,   \* currentUser is nil; plant_names is nil
  MaxWin,   \* bound: login windows opened in one run of the process
  Slot      \* bound: login chains under way at the same time

ASSUME SessionAssumption == NoUser \notin Account /\ MaxWin \in Nat

Win  == 1 .. MaxWin
NoWin == 0

Menu == [kind |-> "menu", win |-> NoWin]

Screen == [kind : {"menu", "setup"}, win : {NoWin}]
            \cup [kind : {"login", "tabs"}, win : Win]

Idle  == [stage |-> "idle", win |-> NoWin, acct |-> NoUser]
Chain == {Idle} \cup [stage : {"auth", "root", "plants"}, win : Win, acct : Account]

Empty == [root |-> FALSE, plants |-> NoUser]

Cause == {"noPlants", "popped", "setupNilModel", "googleNilModel"}

VARIABLES
  alive,     \* "off", "on", or the cause of a crash
  user,      \* Auth.auth().currentUser; kept in the keychain
  token,     \* the Facebook SDK holds an access token; kept too
  stack,     \* navController_farm_ios.viewControllers, bottom first
  chains,    \* login chains: the stage each one waits in
  google,    \* Google sign-in: "idle", "dialog", "auth"
  facebook,  \* Facebook sign-in, likewise
  model,     \* each login window's DataModel: root read, owner of the plants
  opened,    \* login windows opened so far
  holder,    \* history: whose sign-in no sign-out by a button has undone
  denied,    \* history: a database read of a chain was cancelled
  raced      \* history: since the last sign-out, a sign-in replaced the holder
             \* a screen or chain relied on

auth == <<user, token>>
dialogs == <<google, facebook>>
ghost == <<holder, denied, raced>>
vars == <<alive, auth, stack, chains, dialogs, model, opened, ghost>>

Top == stack[Len(stack)]

\* The screens take touches: no provider's dialog is over them.
Touchable == alive = "on" /\ google # "dialog" /\ facebook # "dialog"

Holds(q, screen) == \E i \in DOMAIN q : q[i] = screen

\* A window's navigationController is nil once it left the stack.
OnStack(w) == Holds(stack, [kind |-> "login", win |-> w])

\* The tab bar that login window w set up is on the stack.
Tabs(w) == Holds(stack, [kind |-> "tabs", win |-> w])

\* A chain of login window w, which is on the stack, waits for a read.
Entering(w) ==
  /\ OnStack(w)
  /\ \E s \in Slot : chains[s].stage \in {"root", "plants"} /\ chains[s].win = w

\* Something on the stack was loaded, or is being loaded, for the user.
Relied == \E w \in Win : Tabs(w) \/ Entering(w)

-----------------------------------------------------------------------------
(***************************************************************************)
(* The process.                                                            *)
(***************************************************************************)
Init ==
  /\ alive = "off"
  /\ user \in Account \cup {NoUser} /\ token \in BOOLEAN
  /\ stack = <<Menu>>
  /\ chains = [s \in Slot |-> Idle]
  /\ google = "idle" /\ facebook = "idle"
  /\ model = [w \in Win |-> Empty]
  /\ opened = 0
  /\ holder = user /\ denied = FALSE /\ raced = FALSE

\* didFinishLaunchingWithOptions: always the menu, whoever is signed in.
Launch ==
  /\ alive # "on"
  /\ alive' = "on"
  /\ UNCHANGED <<auth, stack, chains, dialogs, model, opened, ghost>>

\* The process ends: what is in memory is gone.
Memory ==
  /\ stack' = <<Menu>>
  /\ chains' = [s \in Slot |-> Idle]
  /\ google' = "idle" /\ facebook' = "idle"
  /\ model' = [w \in Win |-> Empty]
  /\ opened' = 0
  /\ holder' = user' /\ denied' = FALSE /\ raced' = FALSE

Die(cause) ==
  /\ alive' = cause
  /\ UNCHANGED auth
  /\ Memory

Kill == alive = "on" /\ Die("off")

SignIn(a) ==
  /\ user' = a
  /\ holder' = a
  /\ raced' = (raced \/ (holder # a /\ Relied))

\* A token fetch of the library fails because the user is disabled, deleted or
\* signed in elsewhere, or the token has expired: the user is signed out by
\* force.  The application listens to no change of user: no screen moves.
ForcedSignOut ==
  /\ alive = "on" /\ user # NoUser
  /\ user' = NoUser
  /\ UNCHANGED <<alive, token, stack, chains, dialogs, model, opened, ghost>>

-----------------------------------------------------------------------------
(***************************************************************************)
(* Screens.                                                                *)
(***************************************************************************)
\* mainMenuWindow's mail button; emailLoginWindow.viewDidLoad makes a model.
OpenLogin ==
  /\ Touchable /\ Top.kind = "menu" /\ opened < MaxWin
  /\ opened' = opened + 1
  /\ stack' = Append(stack, [kind |-> "login", win |-> opened + 1])
  /\ UNCHANGED <<alive, auth, chains, dialogs, model, ghost>>

\* The Register button.
OpenSetup ==
  /\ Touchable /\ Top.kind = "login"
  /\ stack' = Append(stack, [kind |-> "setup", win |-> NoWin])
  /\ UNCHANGED <<alive, auth, chains, dialogs, model, opened, ghost>>

\* The navigation bar's back button, which the tab bar hides.
Back ==
  /\ Touchable /\ Top.kind \in {"login", "setup"}
  /\ stack' = Front(stack)
  /\ UNCHANGED <<alive, auth, chains, dialogs, model, opened, ghost>>

\* Create Account: with every field filled it asks for the account and then
\* uses a data model that this window never gets.
CreateAccount(filled) ==
  /\ Touchable /\ Top.kind = "setup"
  /\ IF filled THEN Die("setupNilModel") ELSE UNCHANGED vars

\* Mutant of Logout: the menu is popped with the other screens.
LogoutPopsAll(ok) ==
  /\ Touchable /\ Top.kind = "tabs"
  /\ IF ok
       THEN /\ user' = NoUser
            /\ stack' = <<>>
            /\ holder' = NoUser /\ raced' = FALSE
            /\ UNCHANGED <<alive, token, chains, dialogs, model, opened, denied>>
       ELSE UNCHANGED vars

\* Mutant of Logout: it pops one screen, as the back button does.
LogoutPopsOne(ok) ==
  /\ Touchable /\ Top.kind = "tabs"
  /\ IF ok
       THEN /\ user' = NoUser
            /\ stack' = Front(stack)
            /\ holder' = NoUser /\ raced' = FALSE
            /\ UNCHANGED <<alive, token, chains, dialogs, model, opened, denied>>
       ELSE UNCHANGED vars

\* The Manual tab's Logout button; when signOut throws it only prints.
Logout(ok) ==
  /\ Touchable /\ Top.kind = "tabs"
  /\ IF ok
       THEN /\ user' = NoUser
            /\ stack' = <<Head(stack)>>
            /\ holder' = NoUser /\ raced' = FALSE
            /\ UNCHANGED <<alive, token, chains, dialogs, model, opened, denied>>
       ELSE UNCHANGED vars

-----------------------------------------------------------------------------
(***************************************************************************)
(* The login chain of emailLoginWindow.                                    *)
(***************************************************************************)
Login(s, a) ==
  /\ Touchable /\ Top.kind = "login" /\ chains[s] = Idle
  /\ chains' = [chains EXCEPT ![s] = [stage |-> "auth", win |-> Top.win, acct |-> a]]
  /\ UNCHANGED <<alive, auth, stack, dialogs, model, opened, ghost>>

AuthFail(s) ==
  /\ alive = "on" /\ chains[s].stage = "auth"
  /\ chains' = [chains EXCEPT ![s] = Idle]
  /\ UNCHANGED <<alive, auth, stack, dialogs, model, opened, ghost>>

\* Mutant of AuthOk: the chain starts with the second read.
AuthOkSkipsRoot(s) ==
  /\ alive = "on" /\ chains[s].stage = "auth"
  /\ SignIn(chains[s].acct)
  /\ chains' = [chains EXCEPT ![s].stage = "plants"]
  /\ UNCHANGED <<alive, token, stack, dialogs, model, opened, denied>>

AuthOk(s) ==
  /\ alive = "on" /\ chains[s].stage = "auth"
  /\ SignIn(chains[s].acct)
  /\ chains' = [chains EXCEPT ![s].stage = "root"]
  /\ UNCHANGED <<alive, token, stack, dialogs, model, opened, denied>>

\* Mutant of RootAnswer: the block stores the root and does not go on.
RootAnswerStops(s) ==
  /\ alive = "on" /\ chains[s].stage = "root"
  /\ model' = [model EXCEPT ![chains[s].win].root = TRUE]
  /\ chains' = [chains EXCEPT ![s] = Idle]
  /\ UNCHANGED <<alive, auth, stack, dialogs, opened, ghost>>

\* readDatabase's block stores the root and asks for the plants of whoever is
\* the current user by now; without one the chain ends with a log line.
RootAnswer(s) ==
  /\ alive = "on" /\ chains[s].stage = "root"
  /\ model' = [model EXCEPT ![chains[s].win].root = TRUE]
  /\ chains' = [chains EXCEPT ![s] =
                  IF user = NoUser THEN Idle ELSE [@ EXCEPT !.stage = "plants", !.acct = user]]
  /\ UNCHANGED <<alive, auth, stack, dialogs, opened, ghost>>

\* Mutant of PlantsAnswer: it pushes on the application's navigation
\* controller, whether its own window is still there or not.
PlantsAnswerAnyway(s, some) ==
  /\ alive = "on" /\ chains[s].stage = "plants"
  /\ LET w == chains[s].win IN
       IF ~ some THEN Die("noPlants")
       ELSE /\ model' = [model EXCEPT ![w].plants = chains[s].acct]
            /\ stack' = Append(stack, [kind |-> "tabs", win |-> w])
            /\ chains' = [chains EXCEPT ![s] = Idle]
            /\ UNCHANGED <<alive, auth, dialogs, opened, ghost>>

\* The plants are in: plant_names, then setupTabBarController with the login
\* window's navigationController unwrapped, then the push, which loads the
\* Automation window and unwraps plant_names.
PlantsAnswer(s, some) ==
  /\ alive = "on" /\ chains[s].stage = "plants"
  /\ LET w == chains[s].win IN
       IF ~ OnStack(w) THEN Die("popped")
       ELSE IF ~ some THEN Die("noPlants")
       ELSE /\ model' = [model EXCEPT ![w].plants = chains[s].acct]
            /\ stack' = Append(stack, [kind |-> "tabs", win |-> w])
            /\ chains' = [chains EXCEPT ![s] = Idle]
            /\ UNCHANGED <<alive, auth, dialogs, opened, ghost>>

\* withCancel prints; no block of the chain runs again.
ReadCancel(s) ==
  /\ alive = "on" /\ chains[s].stage \in {"root", "plants"}
  /\ chains' = [chains EXCEPT ![s] = Idle]
  /\ denied' = TRUE
  /\ UNCHANGED <<alive, auth, stack, dialogs, model, opened, holder, raced>>

-----------------------------------------------------------------------------
(***************************************************************************)
(* Google and Facebook, from buttons of the menu.                          *)
(***************************************************************************)
GoogleButton ==
  /\ Touchable /\ Top.kind = "menu" /\ google = "idle"
  /\ google' = "dialog"
  /\ UNCHANGED <<alive, auth, stack, chains, facebook, model, opened, ghost>>

\* didSignInFor: with an error it returns, else it signs in with the credential.
GoogleReturns(ok) ==
  /\ alive = "on" /\ google = "dialog"
  /\ google' = IF ok THEN "auth" ELSE "idle"
  /\ UNCHANGED <<alive, auth, stack, chains, facebook, model, opened, ghost>>

\* AppDelegate.dataModel is never assigned.
GoogleAuth(ok, a) ==
  /\ alive = "on" /\ google = "auth"
  /\ IF ok
       THEN /\ alive' = "googleNilModel"
            /\ user' = a
            /\ Memory
            /\ UNCHANGED token
       ELSE /\ google' = "idle"
            /\ UNCHANGED <<alive, auth, stack, chains, facebook, model, opened, ghost>>

FacebookButton ==
  /\ Touchable /\ Top.kind = "menu" /\ facebook = "idle" /\ ~ token
  /\ facebook' = "dialog"
  /\ UNCHANGED <<alive, auth, stack, chains, google, model, opened, ghost>>

\* didCompleteWith: an error, a cancellation, a login without the e-mail
\* permission, or a login with it.
FacebookReturns(granted, email) ==
  /\ alive = "on" /\ facebook = "dialog"
  /\ token' = granted
  /\ facebook' = IF granted /\ email THEN "auth" ELSE "idle"
  /\ UNCHANGED <<alive, user, stack, chains, google, model, opened, ghost>>

\* The sign-in changes the user and no screen.
FacebookAuth(ok, a) ==
  /\ alive = "on" /\ facebook = "auth"
  /\ facebook' = "idle"
  /\ IF ok THEN SignIn(a) ELSE UNCHANGED <<user, holder, raced>>
  /\ UNCHANGED <<alive, token, stack, chains, google, model, opened, denied>>

\* The SDK drops its token, then the delegate signs out; when signOut throws
\* it only prints.
FacebookLogout(ok) ==
  /\ Touchable /\ Top.kind = "menu" /\ token
  /\ token' = FALSE
  /\ IF ok THEN user' = NoUser /\ holder' = NoUser /\ raced' = FALSE
           ELSE UNCHANGED <<user, holder, raced>>
  /\ UNCHANGED <<alive, stack, chains, dialogs, model, opened, denied>>

-----------------------------------------------------------------------------
Screens ==
  \/ OpenLogin \/ OpenSetup \/ Back
  \/ \E filled \in BOOLEAN : CreateAccount(filled)
  \/ \E ok \in BOOLEAN : Logout(ok)

Steps(s) ==
  \/ \E a \in Account : Login(s, a)
  \/ AuthFail(s) \/ AuthOk(s) \/ RootAnswer(s) \/ ReadCancel(s)
  \/ \E some \in BOOLEAN : PlantsAnswer(s, some)

Providers ==
  \/ GoogleButton \/ FacebookButton
  \/ \E ok \in BOOLEAN : GoogleReturns(ok) \/ FacebookLogout(ok)
  \/ \E ok \in BOOLEAN, a \in Account : GoogleAuth(ok, a) \/ FacebookAuth(ok, a)
  \/ \E granted, email \in BOOLEAN : FacebookReturns(granted, email)

Next == Launch \/ Kill \/ ForcedSignOut \/ Screens \/ (\E s \in Slot : Steps(s)) \/ Providers

Spec == Init /\ [][Next]_vars

\* The database answers or cancels every read of a chain.
Fairness ==
  \A s \in Slot :
    WF_vars(RootAnswer(s)) /\ WF_vars(\E some \in BOOLEAN : PlantsAnswer(s, some))

FairSpec == Spec /\ Fairness

-----------------------------------------------------------------------------
(***************************************************************************)
(* Properties.                                                             *)
(***************************************************************************)

\* Types; a screen or a chain that belongs to a window names one that was opened.
TypeOK ==
  /\ alive \in {"off", "on"} \cup Cause
  /\ user \in Account \cup {NoUser} /\ token \in BOOLEAN
  /\ stack \in Seq(Screen) /\ stack # <<>> /\ stack[1] = Menu
  /\ chains \in [Slot -> Chain]
  /\ google \in {"idle", "dialog", "auth"} /\ facebook \in {"idle", "dialog", "auth"}
  /\ model \in [Win -> [root : BOOLEAN, plants : Account \cup {NoUser}]]
  /\ opened \in 0 .. MaxWin
  /\ holder \in Account \cup {NoUser} /\ denied \in BOOLEAN /\ raced \in BOOLEAN
  /\ \A i \in DOMAIN stack : stack[i].win <= opened
  /\ \A s \in Slot : chains[s].win <= opened

\* The farm's windows are on the stack only between a sign-in and the sign-out
\* that undoes it, and nobody but the holder of that sign-in is the current
\* user meanwhile: no late block of a chain that a logout overtook brings the
\* windows back.  When the library signs the holder out by force they stay up,
\* and every guarded call of the data model does nothing from then on.
TabsSignedIn ==
  \A w \in Win : Tabs(w) => holder # NoUser /\ user \in {NoUser, holder}

\* What setupTabBarController's comment asks for: both reads are in the model
\* its windows get before the windows exist, with overlapping chains too.
TabsLoaded == \A w \in Win : Tabs(w) => model[w].root /\ model[w].plants # NoUser

\* The plants on screen are the holder's, through a forced sign-out too, unless
\* somebody else's sign-in completed while the windows were up or loading.
\* Chains of windows that left the stack do no harm, nor do races before the
\* last sign-out.
TabsOwn == \A w \in Win : Tabs(w) /\ ~ raced => model[w].plants = holder

\* Why they hold: only the bottom of the stack is the menu, so signing out
\* there finds no login window; and the chains of windows on the stack have a
\* holder, ask for that user's plants and have read the root first.
UserHolds == user \in {NoUser, holder}
MenuAtBottom == \A i \in DOMAIN stack : stack[i].kind = "menu" => i = 1
ChainsSignedIn ==
  \A s \in Slot :
    chains[s].stage \in {"root", "plants"} /\ OnStack(chains[s].win) => holder # NoUser
ChainsLoaded ==
  \A s \in Slot : chains[s].stage = "plants" => model[chains[s].win].root
ChainsOwn ==
  \A s \in Slot :
    chains[s].stage = "plants" /\ OnStack(chains[s].win) /\ ~ raced => chains[s].acct = holder

SessionInv ==
  /\ UserHolds /\ MenuAtBottom
  /\ ChainsSignedIn /\ TabsSignedIn
  /\ ChainsLoaded /\ TabsLoaded
  /\ ChainsOwn /\ TabsOwn

\* The login windows as the doors to the farm: one is being entered while a
\* chain that is past the authentication waits for its reads and the window
\* is on the stack; behind it are the plants of the model its tabs share.
Doors  == {w \in Win : Entering(w)}
Inside == [w \in Win |-> IF Tabs(w) THEN model[w].plants ELSE NoUser]

Access == INSTANCE FarmAccess WITH
  Door      <- Win,
  who       <- user,
  holder    <- holder,
  entering  <- Doors,
  inside    <- Inside,
  contested <- raced

\* Whatever chains, providers, the back button and a forced sign-out do, the
\* windows open and close as FarmAccess promises.
AccessSpec == Access!Spec

\* Every sign-in by e-mail leads to the farm's windows, unless a read is
\* denied, the user is signed out meanwhile or the process ends.
LoginLeadsToTabs ==
  \A w \in Win :
    (alive = "on" /\ \E s \in Slot : chains[s].stage = "root" /\ chains[s].win = w)
      ~> (Tabs(w) \/ alive # "on" \/ user = NoUser \/ denied)

(***************************************************************************)
(* What a comment says and the code does not do.                           *)
(***************************************************************************)

\* "Setup TabBarController" (emailLoginWindow 174): the chain sets it up, but
\* the window may have been popped meanwhile and then has no
\* navigationController to unwrap.
ChainSetsUpTabs == alive # "popped"

=============================================================================
