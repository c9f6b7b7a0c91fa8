---------------------------- MODULE FarmControl ----------------------------
(***************************************************************************)
(* The Info window (controlWindow_0) and the Manual window (controlWindow2)*)
(* over the farm's keys at the root of the database, with the data model   *)
(* they share and the Firebase client below.                               *)
(*                                                                         *)
(* The Manual window's switches write a key when they are moved and are    *)
(* set from a snapshot when the window appears.  The Info window shows     *)
(* every key; it reads when it appears and every five seconds from then    *)
(* on, also while another tab is up.  Calls of the client are handed to    *)
(* its serial queue, which takes them in order, after the handler that     *)
(* made them; an answer is computed there from the writes taken so far and *)
(* handled later on the main queue.  The user may move a switch before the *)
(* answer is computed, or between that and its handling.                   *)
(*                                                                         *)
(* Pressing Login twice runs two login chains: the later one pushes a      *)
(* second tab bar over the first, with new windows over the same data      *)
(* model, whatever values it holds by then.                                *)
(*                                                                         *)
(* Logging out leaves the client's queue as it is.  The next login has new *)
(* windows and a new data model; an Info window that left the screen is    *)
(* kept alive by its timer and goes on reading.                            *)
(***************************************************************************)
EXTENDS Integers, Sequences, WriteQueue

CONSTANTS
  Control,     \* controls of the Manual window that the instance has
  Field,       \* keys the windows only show: sensors and automation limits
  Reading,     \* values of those keys
  Command,     \* buttons that only write a key: the platform's reset
  Blank,       \* an Info window that is not loaded, a data model that has read nothing
  MaxPending,  \* bound: unacknowledged writes
  MaxReads,    \* bound: reads asked and answers not yet handled
  MaxBars,     \* bound: tab bars of one login
  MaxLeaked    \* bound: timers of earlier logins

AllControls == {"light", "waterPump", "drainPump", "purifier", "mode"}

ASSUME ControlAssumption ==
  /\ Control \subseteq AllControls /\ Command \subseteq {"reset"}
  /\ MaxPending \in Nat /\ MaxReads \in Nat /\ MaxBars \in Nat /\ MaxLeaked \in Nat

Bit     == {0, 1}
NoGoal  == 2
Window  == {"info", "manual"}

\* Who else asks for a read: a login chain; a window covered by a second tab
\* bar; a window whose login is over.
Chain   == "chain"
Covered == "covered"
Gone    == "gone"

\* Mutant of KeyWritten: the tags of two switches are swapped.
KeyWrittenSwapped(c) ==
  CASE c = "light"     -> "Water_Pump"
    [] c = "waterPump" -> "Grow_Light"
    [] c = "drainPump" -> "Drain_Pump"
    [] c = "purifier"  -> "Water_Purifier"
    [] c = "mode"      -> "Servo_Mode"
    [] c = "reset"     -> "Servo_Reset"

\* switchAction by tag and segmentedControlAction: the key a control writes.
KeyWritten(c) ==
  CASE c = "light"     -> "Grow_Light"
    [] c = "waterPump" -> "Water_Pump"
    [] c = "drainPump" -> "Drain_Pump"
    [] c = "purifier"  -> "Water_Purifier"
    [] c = "mode"      -> "Servo_Mode"
    [] c = "reset"     -> "Servo_Reset"

\* update_manaul_settings_page_values and write_to_ui: the key it shows.
KeyShown(c) ==
  CASE c = "light"     -> "Grow_Light"
    [] c = "waterPump" -> "Water_Pump"
    [] c = "drainPump" -> "Drain_Pump"
    [] c = "purifier"  -> "Water_Purifier"
    [] c = "mode"      -> "Servo_Mode"

\* The equipment a control stands for, by its label.
Equipment(c) ==
  CASE c = "light"     -> "Grow_Light"      \* "12V Lights"
    [] c = "waterPump" -> "Water_Pump"      \* "Water Pump"
    [] c = "drainPump" -> "Drain_Pump"      \* "Drain Pump"
    [] c = "purifier"  -> "Water_Purifier"  \* "Water Purifier"
    [] c = "mode"      -> "Servo_Mode"      \* "Mode 0", "Mode 1"
    [] c = "reset"     -> "Servo_Reset"     \* "Reset Platform"

Choice    == Control \cup Command
ChoiceKey == {Equipment(c) : c \in Choice}
Key       == ChoiceKey \cup Field

ASSUME FieldAssumption ==
  Field \cap {Equipment(c) : c \in AllControls \cup {"reset"}} = {}

Snapshot == {s \in [Key -> Bit \cup Reading] :
               /\ \A k \in ChoiceKey : s[k] \in Bit
               /\ \A k \in Field : s[k] \in Reading}

ASSUME BlankAssumption == Blank \notin Snapshot

Write == UNION {[{k} -> Bit] : k \in ChoiceKey}

VARIABLES
  alive,    \* the process runs
  bars,     \* tab bars on the stack, all of one login
  ready,    \* login chains that have read the root and wait for the plants
  root,     \* server: the farm's keys
  pending,  \* writes without acknowledgement, oldest first
  taken,    \* how many of them have reached the client
  sent,     \* how many of them the server has applied on this connection
  covered,  \* Info windows of tab bars below the top one, each with its timer
  leaked,   \* Info windows of earlier logins, likewise
  reads,    \* unanswered reads of the root: who asked, and how many writes the
            \* client takes before the read
  events,   \* answers on the main queue, oldest first
  values,   \* DataModel.firebase_values
  tab,      \* the selected tab of the top tab bar
  loaded,   \* its windows whose viewDidLoad has run; the Info window's runs the timer
  info,     \* what the Info window shows
  on,       \* isOn of the switches, selectedSegmentIndex of the mode
  goal,     \* history: what the user last chose, NoGoal when someone else did
  dated,    \* history: controls whose last choice is younger than values
  raced     \* history: controls whose last choice is younger than what they show

login  == <<alive, bars, ready>>
queue  == <<pending, taken, sent>>
timers == <<covered, leaked>>
model  == <<values, dated>>
switch == <<on, raced>>
screen == <<tab, loaded, info, switch>>
vars   == <<login, root, queue, timers, reads, events, model, screen, goal>>

\* write_to_ui of the Manual window, from a snapshot.
Switches(s) == [c \in Control |-> IF s[KeyShown(c)] = 1 THEN 1 ELSE 0]

RoomForRead == Len(reads) + Len(events) < MaxReads

\* readDatabase: the read goes to the client's queue, behind the writes there.
Ask(w) ==
  /\ RoomForRead
  /\ reads' = Append(reads, [window |-> w, ahead |-> Len(pending) - taken])

\* The client has not taken the last write for the equipment of c.
Untaken(c) == \E i \in DOMAIN pending : i > taken /\ Equipment(c) \in DOMAIN pending[i]

InfoTimer == IF "info" \in loaded THEN 1 ELSE 0

\* What the client holds of the farm's keys: the server's, under the writes it
\* has taken.
Held == Overlay(root, SubSeq(pending, 1, taken))

-----------------------------------------------------------------------------
Init ==
  /\ alive = FALSE /\ bars = 0 /\ ready = 0
  /\ root \in Snapshot
  /\ pending = <<>> /\ taken = 0 /\ sent = 0 /\ covered = 0 /\ leaked = 0
  /\ reads = <<>> /\ events = <<>>
  /\ values = Blank /\ tab = "auto" /\ loaded = {} /\ info = Blank
  /\ on = [c \in Control |-> 0]
  /\ goal = [c \in Choice |-> NoGoal] /\ dated = {} /\ raced = {}

Launch ==
  /\ ~ alive /\ alive' = TRUE
  /\ UNCHANGED <<bars, ready, root, queue, timers, reads, events, model, screen, goal>>

\* Mutant of LoginRead: the read overtakes the writes handed over before it.
LoginReadFirst ==
  /\ alive /\ bars + ready < MaxBars /\ RoomForRead
  /\ reads' = Append(reads, [window |-> Chain, ahead |-> 0])
  /\ UNCHANGED <<login, root, queue, timers, events, model, screen, goal>>

\* A sign-in of the login window is done and its chain asks for the root, the
\* first time or while tab bars of the window are up.
LoginRead ==
  /\ alive /\ bars + ready < MaxBars
  /\ Ask(Chain)
  /\ UNCHANGED <<login, root, queue, timers, events, model, screen, goal>>

\* A chain ends: its read of the plants is cancelled, or nobody is signed in.
ChainEnds ==
  /\ ready > 0 /\ ready' = ready - 1
  /\ UNCHANGED <<alive, bars, root, queue, timers, reads, events, model, screen, goal>>

\* The end of a login chain: the tab bar selects the Automation window.
\* Asking for the tab bar's view may load the first tab, the Info window,
\* before another one is selected.  A tab bar that was up stays below.
SetupTabBar(early) ==
  /\ ready > 0 /\ bars < MaxBars
  /\ ready' = ready - 1 /\ bars' = bars + 1
  /\ covered' = covered + InfoTimer
  /\ reads' = [i \in DOMAIN reads |->
                 IF reads[i].window \in Window THEN [reads[i] EXCEPT !.window = Covered]
                                              ELSE reads[i]]
  /\ events' = [i \in DOMAIN events |->
                  IF events[i].window \in Window THEN [events[i] EXCEPT !.window = Covered]
                                               ELSE events[i]]
  /\ tab' = "auto"
  /\ loaded' = IF early THEN {"info"} ELSE {}
  /\ info' = IF early THEN values ELSE Blank
  /\ on' = [c \in Control |-> 0] /\ raced' = {}
  /\ UNCHANGED <<alive, root, queue, leaked, model, goal>>

\* The windows and the data model are gone.
NoScreen ==
  /\ bars' = 0 /\ ready' = 0 /\ covered' = 0
  /\ values' = Blank /\ dated' = {}
  /\ tab' = "auto" /\ loaded' = {} /\ info' = Blank
  /\ on' = [c \in Control |-> 0] /\ raced' = {}

\* The process ends; queued writes, reads and screens are gone.
Kill ==
  /\ alive /\ alive' = FALSE
  /\ pending' = <<>> /\ taken' = 0 /\ sent' = 0
  /\ leaked' = 0 /\ reads' = <<>> /\ events' = <<>>
  /\ goal' = [c \in Choice |-> NoGoal]
  /\ NoScreen
  /\ UNCHANGED root

\* Mutant of Logout: the client's outstanding writes are purged.
LogoutPurges ==
  /\ tab = "manual" /\ leaked + covered + InfoTimer <= MaxLeaked
  /\ leaked' = leaked + covered + InfoTimer
  /\ reads' = [i \in DOMAIN reads |-> [reads[i] EXCEPT !.window = Gone, !.ahead = 0]]
  /\ events' = [i \in DOMAIN events |-> [events[i] EXCEPT !.window = Gone]]
  /\ pending' = <<>> /\ taken' = 0 /\ sent' = 0
  /\ NoScreen
  /\ UNCHANGED <<alive, root, goal>>

\* The Manual window's Logout button.  The windows leave the stack with their
\* reads under way; the timers keep the Info windows.
Logout ==
  /\ tab = "manual" /\ leaked + covered + InfoTimer <= MaxLeaked
  /\ leaked' = leaked + covered + InfoTimer
  /\ reads' = [i \in DOMAIN reads |-> [reads[i] EXCEPT !.window = Gone]]
  /\ events' = [i \in DOMAIN events |-> [events[i] EXCEPT !.window = Gone]]
  /\ NoScreen
  /\ UNCHANGED <<alive, root, queue, goal>>

-----------------------------------------------------------------------------
(***************************************************************************)
(* The windows.                                                            *)
(***************************************************************************)
\* A tab is selected: viewDidLoad the first time, with the data model's last
\* values, and viewWillAppear every time, which asks for new ones.
ShowInfo ==
  /\ bars > 0 /\ tab # "info" /\ Ask("info")
  /\ tab' = "info"
  /\ info' = IF "info" \in loaded THEN info ELSE values
  /\ loaded' = loaded \cup {"info"}
  /\ UNCHANGED <<login, root, queue, timers, events, model, switch, goal>>

ShowManual ==
  /\ bars > 0 /\ tab # "manual" /\ Ask("manual")
  /\ tab' = "manual"
  /\ IF "manual" \in loaded THEN UNCHANGED switch
                            ELSE on' = Switches(values) /\ raced' = dated
  /\ loaded' = loaded \cup {"manual"}
  /\ UNCHANGED <<login, root, queue, timers, events, model, info, goal>>

ShowAutomation ==
  /\ bars > 0 /\ tab # "auto"
  /\ tab' = "auto"
  /\ UNCHANGED <<login, root, queue, timers, reads, events, model, loaded, info, switch, goal>>

\* Mutant of Tick: the timer is started before viewDidLoad.
TickEarly ==
  /\ bars > 0 /\ Ask("info")
  /\ UNCHANGED <<login, root, queue, timers, events, model, screen, goal>>

\* Mutant of Tick: the timer stops when the Info window disappears.
TickVisible ==
  /\ tab = "info" /\ Ask("info")
  /\ UNCHANGED <<login, root, queue, timers, events, model, screen, goal>>

\* readTimerCode: the timer is started by the Info window's viewDidLoad and
\* never invalidated.
Tick ==
  /\ "info" \in loaded /\ Ask("info")
  /\ UNCHANGED <<login, root, queue, timers, events, model, screen, goal>>

\* The timers of Info windows that are no longer on the screen.
TickGone ==
  /\ \/ leaked > 0 /\ Ask(Gone)
     \/ covered > 0 /\ Ask(Covered)
  /\ UNCHANGED <<login, root, queue, timers, events, model, screen, goal>>

\* The user moves a switch or selects the other segment: the write is handed
\* to the client's queue, and every answer there is, and the values, are older.
Toggle(c) ==
  /\ tab = "manual" /\ Len(pending) < MaxPending
  /\ LET v == 1 - on[c] IN
       /\ on' = [on EXCEPT ![c] = v]
       /\ pending' = Append(pending, [k \in {KeyWritten(c)} |-> v])
       /\ goal' = [goal EXCEPT ![c] = v]
  /\ raced' = raced \ {c} /\ dated' = dated \cup {c}
  /\ events' = [i \in DOMAIN events |-> [events[i] EXCEPT !.old = @ \cup {c}]]
  /\ UNCHANGED <<login, root, taken, sent, timers, reads, values, tab, loaded, info>>

\* Mutant of PressReset: the key is cleared.
PressResetZero(c) ==
  /\ tab = "manual" /\ Len(pending) < MaxPending
  /\ pending' = Append(pending, [k \in {KeyWritten(c)} |-> 0])
  /\ goal' = [goal EXCEPT ![c] = 1]
  /\ UNCHANGED <<login, root, taken, sent, timers, reads, events, model, screen>>

\* The Reset Platform button: the key is set; the farm takes it back.
PressReset(c) ==
  /\ tab = "manual" /\ Len(pending) < MaxPending
  /\ pending' = Append(pending, [k \in {KeyWritten(c)} |-> 1])
  /\ goal' = [goal EXCEPT ![c] = 1]
  /\ UNCHANGED <<login, root, taken, sent, timers, reads, events, model, screen>>

-----------------------------------------------------------------------------
(***************************************************************************)
(* The server and the client library.                                      *)
(***************************************************************************)
\* The client's serial queue runs the block of the next write.
Take ==
  /\ taken < Len(pending) /\ taken' = taken + 1
  /\ reads' = [i \in DOMAIN reads |->
                 IF reads[i].ahead > 0 THEN [reads[i] EXCEPT !.ahead = @ - 1] ELSE reads[i]]
  /\ UNCHANGED <<login, root, pending, sent, timers, events, model, screen, goal>>

Apply ==
  /\ sent < taken
  /\ root' = Written(root, pending[sent + 1])
  /\ sent' = sent + 1
  /\ UNCHANGED <<login, pending, taken, timers, reads, events, model, screen, goal>>

Ack ==
  /\ sent > 0
  /\ pending' = Tail(pending) /\ taken' = taken - 1 /\ sent' = sent - 1
  /\ UNCHANGED <<login, root, timers, reads, events, model, screen, goal>>

\* The connection drops and comes back: all outstanding puts are sent again.
Reconnect ==
  /\ sent > 0
  /\ sent' = 0
  /\ UNCHANGED <<login, root, pending, taken, timers, reads, events, model, screen, goal>>

\* The server refuses the oldest write; the client reverts it and nobody
\* tells the window.
Refuse ==
  /\ sent = 0 /\ taken > 0
  /\ pending' = Tail(pending) /\ taken' = taken - 1
  /\ goal' = [c \in Choice |-> IF Equipment(c) \in DOMAIN pending[1] THEN NoGoal ELSE goal[c]]
  /\ UNCHANGED <<login, root, sent, timers, reads, events, model, screen>>

\* The client has the oldest read's turn come, and has its answer.
Served == reads # <<>> /\ Head(reads).ahead = 0 /\ reads' = Tail(reads)

\* Mutant of Answer: the writes under way are not laid over the answer.
AnswerBare ==
  /\ Served
  /\ events' = Append(events, [window |-> Head(reads).window, snap |-> root,
                               old |-> {c \in Control : Untaken(c)}])
  /\ UNCHANGED <<login, root, queue, timers, model, screen, goal>>

\* The answer is computed from the writes the client has taken.
Answer ==
  /\ Served
  /\ events' = Append(events, [window |-> Head(reads).window,
                               snap   |-> Held, old |-> {c \in Control : Untaken(c)}])
  /\ UNCHANGED <<login, root, queue, timers, model, screen, goal>>

\* withCancel only prints.
Cancel ==
  /\ Served
  /\ UNCHANGED <<login, root, queue, timers, events, model, screen, goal>>

\* readDatabase's block, on the data model of the asker's login, and what the
\* asker does then: the chain asks for the plants, a window updates its view.
Deliver ==
  /\ events # <<>> /\ events' = Tail(events)
  /\ LET e == Head(events) IN
       /\ IF e.window = Gone THEN UNCHANGED model ELSE values' = e.snap /\ dated' = e.old
       /\ ready' = ready + (IF e.window = Chain THEN 1 ELSE 0)
       /\ info' = IF e.window = "info" THEN e.snap ELSE info
       /\ IF e.window = "manual" THEN on' = Switches(e.snap) /\ raced' = e.old
                                 ELSE UNCHANGED switch
  /\ UNCHANGED <<alive, bars, root, queue, timers, reads, tab, loaded, goal>>

\* The farm, another phone, or the Automation window's Start.
OtherWrite(k, v) ==
  /\ root[k] # v
  /\ root' = [root EXCEPT ![k] = v]
  /\ goal' = [c \in Choice |-> IF Equipment(c) = k THEN NoGoal ELSE goal[c]]
  /\ UNCHANGED <<login, queue, timers, reads, events, model, screen>>

-----------------------------------------------------------------------------
Logins ==
  \/ Launch \/ LoginRead \/ ChainEnds \/ Logout \/ Kill
  \/ \E early \in BOOLEAN : SetupTabBar(early)

Windows ==
  \/ ShowInfo \/ ShowManual \/ ShowAutomation \/ Tick \/ TickGone
  \/ \E c \in Control : Toggle(c)
  \/ \E c \in Command : PressReset(c)

Store == Take \/ Apply \/ Ack \/ Reconnect \/ Refuse \/ Answer \/ Cancel \/ Deliver

Others ==
  \/ \E k \in ChoiceKey, v \in Bit : OtherWrite(k, v)
  \/ \E k \in Field, v \in Reading : OtherWrite(k, v)

Next == Logins \/ Windows \/ Store \/ Others

Spec == Init /\ [][Next]_vars

\* The timer fires (strongly fair, because nothing but the bound on reads
\* ever disables it), the client's queue and the main queue run, the server
\* answers or cancels every read and does not cancel all of the timer's, and
\* some connection lasts until the next acknowledgement.
Fairness ==
  /\ SF_vars(Tick) /\ WF_vars(Take) /\ WF_vars(Deliver)
  /\ WF_vars(Answer \/ Cancel) /\ SF_vars(Answer /\ Head(reads).window = "info")
  /\ WF_vars(Apply) /\ SF_vars(Ack)

FairSpec == Spec /\ Fairness

-----------------------------------------------------------------------------
(***************************************************************************)
(* Properties.                                                             *)
(***************************************************************************)

\* A window on the screen, or somebody off it.
Asker == loaded \cup {Chain, Covered, Gone}

\* Types; a read or an answer belongs to a window that is loaded or to none
\* on the screen, so a late answer never touches a control that viewDidLoad
\* has not made yet; and no window exists over a data model without values.
TypeOK ==
  /\ alive \in BOOLEAN /\ bars \in 0 .. MaxBars /\ ready \in Nat
  /\ root \in Snapshot
  /\ values \in Snapshot \cup {Blank} /\ (bars + ready > 0 => values # Blank)
  /\ pending \in Seq(Write) /\ taken \in 0 .. Len(pending) /\ sent \in 0 .. taken
  /\ covered \in Nat /\ leaked \in 0 .. MaxLeaked
  /\ reads \in Seq([window : Asker, ahead : Nat])
  /\ events \in Seq([window : Asker, snap : Snapshot, old : SUBSET Control])
  /\ loaded \subseteq Window /\ tab \in {"auto"} \cup loaded
  /\ info \in Snapshot \cup {Blank} /\ (info = Blank <=> "info" \notin loaded)
  /\ on \in [Control -> Bit] /\ goal \in [Choice -> Bit \cup {NoGoal}]
  /\ dated \subseteq Control /\ raced \subseteq Control

\* Windows are loaded only behind a tab bar.
LoadedBehindTabBar == bars = 0 => loaded = {}

\* The last move of a control decides what its equipment will do: laid over
\* the server's keys, the queue always yields the user's last choice, for the
\* equipment the control is labelled with, through resends, quick toggles and
\* a logout that leaves the writes in the queue.
LastChoiceWins ==
  \A c \in Choice :
    goal[c] # NoGoal => Overlay(root, pending)[Equipment(c)] = goal[c]

\* Its inductive strengthening: writes already applied are in effect.
AppliedChoice ==
  \A c \in Choice : \A i \in 1 .. sent :
    goal[c] # NoGoal /\ IsLast(pending, Equipment(c), i)
      => root[Equipment(c)] = pending[i][Equipment(c)]

\* A control keeps showing what the user chose, whatever reads were under way
\* and whichever tab bar it belongs to, unless what it shows was computed
\* before the client had the choice: then the switch falls back although the
\* farm obeys, until the next answer.
ManualHonest ==
  \A c \in Control :
    "manual" \in loaded /\ goal[c] # NoGoal /\ c \notin raced => on[c] = goal[c]

\* Its inductive strengthening: answers still to come agree, and so do the
\* values that a window not yet loaded will start from.
AnswersAgree ==
  \A c \in Control : \A i \in DOMAIN events :
    goal[c] # NoGoal /\ c \notin events[i].old => events[i].snap[Equipment(c)] = goal[c]

ValuesAgree ==
  \A c \in Control :
    values # Blank /\ goal[c] # NoGoal /\ c \notin dated => values[Equipment(c)] = goal[c]

\* The user has had no switch to move since the last login.
Untouched == bars = 0 \/ (bars = 1 /\ "manual" \notin loaded)

\* A login starts from the choices of the one before: what its chain reads,
\* and what the first Manual window will load, knows every choice that was
\* made before the logout, although its write may have reached neither the
\* server nor the client by then.  (A second tab bar has no such claim.)
LoginShowsChoices ==
  \A c \in Control :
    Untouched /\ values # Blank /\ goal[c] # NoGoal => values[Equipment(c)] = goal[c]

\* Its inductive strengthening: the chain's read waits for the writes handed
\* over before it, and nothing was handed over since.
LoginReadsLast ==
  Untouched =>
    /\ \A i \in DOMAIN reads :
         reads[i].window # Gone => Len(pending) <= taken + reads[i].ahead
    /\ \A i \in DOMAIN events :
         events[i].window # Gone => taken = Len(pending) /\ events[i].old = {}
    /\ values # Blank => taken = Len(pending) /\ dated = {}

ChoiceInv ==
  /\ LastChoiceWins /\ AppliedChoice
  /\ ManualHonest /\ AnswersAgree /\ ValuesAgree
  /\ LoginReadsLast

\* No write for the equipment of c is on its way.
Settled(c) == \A i \in DOMAIN pending : Equipment(c) \notin DOMAIN pending[i]

Panel == INSTANCE FarmPanel WITH
  farm    <- [c \in Choice |-> root[Equipment(c)]],
  wish    <- goal,
  settled <- [c \in Choice |-> Settled(c)]

\* The window over the client's queue keeps the panel's promise: equipment
\* moves only while a choice for it is on its way or when somebody else moves
\* it, and the queue never runs dry of a choice that the farm does not follow.
PanelSpec == Panel!Spec

\* A choice reaches the farm, the press of Reset Platform too, unless it is
\* superseded, refused or lost with the process: no lost connection drops it.
ChoiceArrives ==
  \A c \in Choice, v \in Bit :
    (goal[c] = v) ~> (root[Equipment(c)] = v \/ goal[c] # v)

\* The Info window follows the farm by its timer: when the keys that the client
\* holds settle, the window ends up showing them, whichever tab is up and whatever else reads.
InfoCatchesUp ==
  <>[]("info" \in loaded) /\ <>[][Held' = Held]_vars => <>[](info = Held)

=============================================================================
