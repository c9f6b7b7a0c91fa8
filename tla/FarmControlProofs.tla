------------------------- MODULE FarmControlProofs -------------------------
(***************************************************************************)
(* Proofs about FarmControl, for every choice of controls, keys and        *)
(* readings and every bound.                                               *)
(***************************************************************************)
EXTENDS FarmControl, WriteQueueProofs

-----------------------------------------------------------------------------
(***************************************************************************)
(* Keys, writes and snapshots.                                             *)
(***************************************************************************)

\* Every control writes and shows the key of the equipment it is labelled
\* with, and no two controls share one.
LEMMA Keys ==
  /\ \A c \in Choice : Equipment(c) \in ChoiceKey /\ KeyWritten(c) = Equipment(c)
  /\ \A c \in Control : c \in Choice /\ c \notin Command /\ KeyShown(c) = Equipment(c)
  /\ \A c, d \in Choice : Equipment(c) = Equipment(d) => c = d
  /\ \A k \in ChoiceKey : k \notin Field /\ \E c \in Choice : k = Equipment(c)
<1>1. Control \subseteq AllControls /\ Command \subseteq {"reset"} /\ "reset" \notin AllControls
  BY ControlAssumption DEF AllControls
<1>2. Choice \subseteq {"light", "waterPump", "drainPump", "purifier", "mode", "reset"}
  BY <1>1 DEF AllControls, Choice
<1>3. \A c \in Choice : Equipment(c) \in ChoiceKey /\ KeyWritten(c) = Equipment(c)
  BY <1>2 DEF ChoiceKey, Equipment, KeyWritten
<1>4. \A c \in Control : c \in Choice /\ c \notin Command /\ KeyShown(c) = Equipment(c)
  BY <1>1 DEF Choice, AllControls, Equipment, KeyShown
<1>5. \A c, d \in Choice : Equipment(c) = Equipment(d) => c = d
  BY <1>2 DEF Equipment
<1>6. \A k \in ChoiceKey : k \notin Field /\ \E c \in Choice : k = Equipment(c)
  BY <1>1, FieldAssumption DEF ChoiceKey, Choice
<1> QED BY <1>3, <1>4, <1>5, <1>6

\* A write sets the key of one choice.
LEMMA WriteSets ==
  /\ \A w \in Write : \E c \in Choice : DOMAIN w = {Equipment(c)} /\ w[Equipment(c)] \in Bit
  /\ \A c \in Choice : \A v \in Bit : [k \in {Equipment(c)} |-> v] \in Write
<1>1. ASSUME NEW w \in Write
      PROVE  \E c \in Choice : DOMAIN w = {Equipment(c)} /\ w[Equipment(c)] \in Bit
  <2>1. PICK k \in ChoiceKey : w \in [{k} -> Bit]
    BY DEF Write
  <2>2. PICK c \in Choice : k = Equipment(c)
    BY Keys
  <2> QED BY <2>1, <2>2
<1>2. ASSUME NEW c \in Choice, NEW v \in Bit
      PROVE  [k \in {Equipment(c)} |-> v] \in Write
  <2>1. [k \in {Equipment(c)} |-> v] \in [{Equipment(c)} -> Bit]
    OBVIOUS
  <2>2. Equipment(c) \in ChoiceKey
    BY Keys
  <2> QED BY <2>1, <2>2 DEF Write
<1> QED BY <1>1, <1>2

\* What a snapshot is, key by key.
LEMMA SnapshotKeys ==
  ASSUME NEW s, DOMAIN s = Key, s = [k \in DOMAIN s |-> s[k]]
  PROVE  s \in Snapshot <=> /\ \A k \in ChoiceKey : s[k] \in Bit
                            /\ \A k \in Field : s[k] \in Reading
BY DEF Snapshot, Key

LEMMA SnapshotHas ==
  ASSUME NEW s \in Snapshot
  PROVE  /\ DOMAIN s = Key /\ s = [k \in DOMAIN s |-> s[k]]
         /\ \A c \in Choice : Equipment(c) \in DOMAIN s /\ s[Equipment(c)] \in Bit
BY Keys DEF Snapshot, Key

LEMMA WrittenType ==
  ASSUME NEW s \in Snapshot, NEW w \in Write
  PROVE  Written(s, w) \in Snapshot
<1>1. PICK c \in Choice : DOMAIN w = {Equipment(c)} /\ w[Equipment(c)] \in Bit
  BY WriteSets
<1>2. /\ \A k \in ChoiceKey : s[k] \in Bit /\ k \in Key
      /\ \A k \in Field : s[k] \in Reading /\ k \in Key /\ k \notin ChoiceKey
      /\ Equipment(c) \in ChoiceKey
  BY Keys DEF Snapshot, Key
<1>3. DOMAIN s = Key
  BY DEF Snapshot
<1> DEFINE t == Written(s, w)
<1>4. DOMAIN t = Key /\ t = [k \in DOMAIN t |-> t[k]]
      /\ \A k \in Key : t[k] = IF k \in DOMAIN w THEN w[k] ELSE s[k]
  BY <1>3 DEF Written
<1> HIDE DEF t
<1>5. t \in Snapshot
  BY <1>1, <1>2, <1>4, SnapshotKeys
<1> QED BY <1>5 DEF t

LEMMA OverlayType ==
  ASSUME NEW s \in Snapshot, NEW q \in Seq(Write)
  PROVE  Overlay(s, q) \in Snapshot
<1> DEFINE t == Overlay(s, q)
<1>1. /\ \A k \in ChoiceKey : s[k] \in Bit /\ k \in Key
      /\ \A k \in Field : s[k] \in Reading /\ k \in Key /\ k \notin ChoiceKey
      /\ DOMAIN s = Key
  BY Keys DEF Snapshot, Key
<1>2. DOMAIN t = Key /\ t = [k \in DOMAIN t |-> t[k]]
  BY <1>1 DEF Overlay
<1>3. \A i \in DOMAIN q : \A k \in DOMAIN q[i] : k \in ChoiceKey /\ q[i][k] \in Bit
  <2>1. \A i \in DOMAIN q : q[i] \in Write
    BY ElementOfSeq, LenProperties
  <2>2. ASSUME NEW w \in Write, NEW k \in DOMAIN w PROVE k \in ChoiceKey /\ w[k] \in Bit
    <3>1. PICK c \in Choice : DOMAIN w = {Equipment(c)} /\ w[Equipment(c)] \in Bit
      BY WriteSets
    <3> QED BY <3>1, Keys
  <2> QED BY <2>1, <2>2
<1>4. ASSUME NEW k \in Key, \A i \in DOMAIN q : ~ IsLast(q, k, i)
      PROVE  t[k] = s[k]
  BY <1>1, <1>4, OverlayNone
<1>5. ASSUME NEW k \in Key, NEW i \in DOMAIN q, IsLast(q, k, i)
      PROVE  t[k] \in Bit /\ k \in ChoiceKey
  <2>1. t[k] = q[i][k]
    BY <1>1, <1>5, OverlayLast
  <2>2. k \in DOMAIN q[i]
    BY <1>5 DEF IsLast
  <2> QED BY <2>1, <2>2, <1>3
<1> HIDE DEF t
<1>6. \A k \in ChoiceKey : t[k] \in Bit
  BY <1>1, <1>4, <1>5
<1>7. \A k \in Field : t[k] \in Reading
  BY <1>1, <1>4, <1>5
<1>8. t \in Snapshot
  BY <1>2, <1>6, <1>7, SnapshotKeys
<1> QED BY <1>8 DEF t

\* Append and Tail stay inside a sequence type.
LEMMA QueueType ==
  ASSUME NEW S, NEW q \in Seq(S)
  PROVE  /\ Len(q) \in Nat /\ DOMAIN q = 1 .. Len(q) /\ \A i \in DOMAIN q : q[i] \in S
         /\ \A w \in S : /\ Append(q, w) \in Seq(S) /\ Len(Append(q, w)) = Len(q) + 1
                         /\ Append(q, w)[Len(q) + 1] = w
                         /\ \A i \in 1 .. Len(q) : Append(q, w)[i] = q[i]
         /\ q # <<>> => /\ Len(q) > 0 /\ Head(q) = q[1] /\ Head(q) \in S
                        /\ Tail(q) \in Seq(S) /\ Len(Tail(q)) = Len(q) - 1
                        /\ \A i \in 1 .. Len(q) - 1 : Tail(q)[i] = q[i + 1]
BY AppendProperties, HeadTailProperties, LenProperties, EmptySeq, ElementOfSeq

\* So does a sequence changed element by element.
LEMMA MapType ==
  ASSUME NEW S, NEW q \in Seq(S), NEW T, NEW r, r = [i \in DOMAIN q |-> r[i]],
         \A i \in DOMAIN q : r[i] \in T
  PROVE  r \in Seq(T) /\ DOMAIN r = DOMAIN q /\ Len(r) = Len(q)
<1>1. Len(q) \in Nat /\ DOMAIN q = 1 .. Len(q)
  BY LenProperties
<1>2. r \in [1 .. Len(q) -> T]
  BY <1>1
<1>3. r \in Seq(T)
  BY <1>1, <1>2, SeqDef
<1>4. DOMAIN r = 1 .. Len(r) /\ Len(r) \in Nat
  BY <1>3, LenProperties
<1> QED BY <1>1, <1>2, <1>3, <1>4

-----------------------------------------------------------------------------
(***************************************************************************)
(* Types.                                                                  *)
(***************************************************************************)
Asked  == [window : Asker, ahead : Nat]
Answered == [window : Asker, snap : Snapshot, old : SUBSET Control]

\* The parts of TypeOK that are about reads and answers.
LEMMA ScreensType ==
  ASSUME TypeOK
  PROVE  /\ reads \in Seq(Asked) /\ events \in Seq(Answered)
         /\ \A i \in DOMAIN reads : reads[i] \in Asked
         /\ \A i \in DOMAIN events : events[i] \in Answered
         /\ Asker \subseteq Window \cup {Chain, Covered, Gone}
         /\ Chain \notin Window /\ Covered \notin Window /\ Gone \notin Window
         /\ Gone # Chain /\ Gone # Covered /\ Covered # Chain
<1>1. reads \in Seq(Asked) /\ events \in Seq(Answered)
  BY DEF TypeOK, Asked, Answered
<1>2. \A i \in DOMAIN reads : reads[i] \in Asked
  BY <1>1, QueueType
<1>3. \A i \in DOMAIN events : events[i] \in Answered
  BY <1>1, QueueType
<1>4. Asker \subseteq Window \cup {Chain, Covered, Gone}
  BY DEF TypeOK, Asker
<1> QED BY <1>1, <1>2, <1>3, <1>4 DEF Chain, Covered, Gone, Window

\* More windows may ask once more of them are loaded.
LEMMA MoreLoaded ==
  ASSUME TypeOK, loaded \subseteq loaded'
  PROVE  /\ reads \in Seq(Asked') /\ events \in Seq(Answered')
         /\ \A w \in Asker' : Ask(w) => reads' \in Seq(Asked')
<1>1. Asker \subseteq Asker'
  BY DEF Asker
<1>2. Asked \subseteq Asked' /\ Answered \subseteq Answered'
  BY <1>1 DEF Asked, Answered
<1>3. reads \in Seq(Asked) /\ events \in Seq(Answered)
  BY ScreensType
<1>4. reads \in Seq(Asked') /\ events \in Seq(Answered')
  BY <1>2, <1>3, SeqMonotonic
<1>5. ASSUME NEW w \in Asker', Ask(w) PROVE reads' \in Seq(Asked')
  <2>1. Len(pending) - taken \in Nat
    BY LenProperties DEF TypeOK
  <2>2. [window |-> w, ahead |-> Len(pending) - taken] \in Asked'
    BY <2>1 DEF Asked
  <2> QED BY <1>4, <1>5, <2>2, QueueType DEF Ask
<1> QED BY <1>4, <1>5

LEMMA SwitchesType ==
  ASSUME NEW s \in Snapshot
  PROVE  /\ Switches(s) \in [Control -> Bit]
         /\ \A c \in Control : Switches(s)[c] = s[Equipment(c)]
BY SnapshotHas, Keys DEF Switches, Bit

\* Types, with the condition that makes them inductive.
Typed == TypeOK /\ LoadedBehindTabBar

\* The parts of Typed: a step that keeps one of them keeps its type.
LoginType  == alive \in BOOLEAN /\ bars \in 0 .. MaxBars /\ ready \in Nat
ModelType  == values \in Snapshot \cup {Blank} /\ (bars + ready > 0 => values # Blank)
              /\ dated \subseteq Control
QueueTyped == /\ root \in Snapshot /\ pending \in Seq(Write)
              /\ taken \in 0 .. Len(pending) /\ sent \in 0 .. taken
TimerType  == covered \in Nat /\ leaked \in 0 .. MaxLeaked
ReadType   == reads \in Seq(Asked) /\ events \in Seq(Answered)
ScreenType == /\ loaded \subseteq Window /\ tab \in {"auto"} \cup loaded
              /\ info \in Snapshot \cup {Blank} /\ (info = Blank <=> "info" \notin loaded)
              /\ (bars = 0 => loaded = {})
SwitchType == on \in [Control -> Bit] /\ raced \subseteq Control
GoalType   == goal \in [Choice -> Bit \cup {NoGoal}]

LEMMA TypedParts ==
  Typed <=> /\ LoginType /\ ModelType /\ QueueTyped /\ TimerType
            /\ ReadType /\ ScreenType /\ SwitchType /\ GoalType
BY DEF Typed, TypeOK, LoadedBehindTabBar, LoginType, ModelType, QueueTyped, TimerType,
       ReadType, ScreenType, SwitchType, GoalType, Asked, Answered

LEMMA TypedPartsNext ==
  LoginType' /\ ModelType' /\ QueueTyped' /\ TimerType'
    /\ ReadType' /\ ScreenType' /\ SwitchType' /\ GoalType' => Typed'
BY DEF Typed, TypeOK, LoadedBehindTabBar, LoginType, ModelType, QueueTyped, TimerType,
       ReadType, ScreenType, SwitchType, GoalType, Asked, Answered

LEMMA TypeInit == Init => Typed
<1> SUFFICES ASSUME Init PROVE Typed
  OBVIOUS
<1>1. LoginType /\ TimerType
  <2>1. alive \in BOOLEAN
    BY Zenon DEF Init
  <2>2. bars = 0 /\ ready = 0 /\ covered = 0 /\ leaked = 0
    BY DEF Init
  <2> QED BY <2>1, <2>2, ControlAssumption DEF TimerType, LoginType
<1>0. pending = <<>> /\ Len(pending) = 0 /\ QueueTyped /\ ReadType
  BY EmptySeq DEF Init, QueueTyped, ReadType
<1>2. GoalType /\ SwitchType /\ ModelType
  BY DEF Init, Bit, GoalType, SwitchType, ModelType
<1>3. ScreenType
  BY DEF Init, ScreenType
<1> QED BY <1>0, <1>1, <1>2, <1>3, TypedParts

\* The login chain and the tab bar.
LEMMA TypeLogin ==
  ASSUME Typed, Launch \/ LoginRead \/ ChainEnds \/ \E early \in BOOLEAN : SetupTabBar(early)
  PROVE  Typed'
<1>1. TypeOK /\ LoginType /\ ModelType /\ QueueTyped /\ TimerType
      /\ ReadType /\ ScreenType /\ SwitchType /\ GoalType
  BY TypedParts DEF Typed
<1>2. CASE Launch \/ ChainEnds
  <2>1. UNCHANGED <<root, queue, timers, reads, events, model, screen, goal>>
        /\ bars' = bars /\ alive' \in BOOLEAN
        /\ (ready' = ready \/ (ready > 0 /\ ready' = ready - 1))
    BY <1>1, <1>2 DEF Launch, ChainEnds, LoginType
  <2>4. LoginType'
    BY <1>1, <2>1 DEF LoginType
  <2>2. ModelType'
    BY <1>1, <2>1 DEF ModelType, LoginType, model
  <2>3. ReadType' /\ QueueTyped' /\ TimerType' /\ ScreenType' /\ SwitchType' /\ GoalType'
    BY <1>1, <2>1 DEF queue, timers, screen, switch, ReadType, Asked, Answered, Asker,
                      QueueTyped, TimerType, ScreenType, SwitchType, GoalType
  <2> QED BY <2>2, <2>3, <2>4, TypedPartsNext
<1>3. CASE LoginRead
  <2>1. UNCHANGED <<login, root, queue, timers, events, model, screen, goal>> /\ Ask(Chain)
    BY <1>3 DEF LoginRead
  <2>2. loaded' = loaded /\ Chain \in Asker'
    BY <2>1 DEF screen, Asker
  <2>3. reads' \in Seq(Asked') /\ events \in Seq(Answered')
    BY <1>1, <2>1, <2>2, MoreLoaded
  <2>4. ReadType'
    BY <2>1, <2>3 DEF ReadType
  <2>5. /\ LoginType' /\ ModelType' /\ QueueTyped' /\ TimerType'
        /\ ScreenType' /\ SwitchType' /\ GoalType'
    BY <1>1, <2>1 DEF login, queue, timers, model, screen, switch, LoginType, ModelType,
                      QueueTyped, TimerType, ScreenType, SwitchType, GoalType
  <2> QED BY <2>4, <2>5, TypedPartsNext
<1>4. ASSUME NEW early \in BOOLEAN, SetupTabBar(early) PROVE Typed'
  <2>1. values \in Snapshot /\ values # Blank
    BY <1>1, <1>4 DEF SetupTabBar, LoginType, ModelType
  <2>7. LoginType'
    <3>1. alive' = alive /\ ready > 0 /\ ready' = ready - 1 /\ bars < MaxBars /\ bars' = bars + 1
      BY <1>4 DEF SetupTabBar
    <3>2. alive \in BOOLEAN /\ bars \in 0 .. MaxBars /\ ready \in Nat
      BY <1>1 DEF LoginType
    <3>3. alive' \in BOOLEAN
      BY <3>1, <3>2
    <3> QED BY <3>1, <3>2, <3>3, ControlAssumption DEF LoginType
  <2>2. ModelType' /\ QueueTyped' /\ GoalType' /\ SwitchType'
    BY <1>1, <1>4, <2>1 DEF SetupTabBar, model, queue, ModelType, QueueTyped, GoalType,
                            SwitchType, Bit
  <2>3. TimerType'
    BY <1>1, <1>4 DEF SetupTabBar, TimerType, InfoTimer
  <2>4. ScreenType'
    BY <1>1, <1>4, <2>1, ControlAssumption DEF SetupTabBar, ScreenType, Window, LoginType
  <2>5. reads' \in Seq(Asked') /\ events' \in Seq(Answered')
    <3>1. {Chain, Covered, Gone} \subseteq Asker'
      BY DEF Asker
    <3>2. ASSUME NEW i \in DOMAIN reads PROVE reads'[i] \in Asked'
      <4>1. reads[i] \in [window : Window \cup {Chain, Covered, Gone}, ahead : Nat]
        BY <1>1, ScreensType DEF Asked
      <4>2. reads'[i] = IF reads[i].window \in Window
                          THEN [reads[i] EXCEPT !.window = Covered] ELSE reads[i]
        BY <1>4 DEF SetupTabBar
      <4> QED BY <3>1, <4>1, <4>2 DEF Asked
    <3>3. ASSUME NEW i \in DOMAIN events PROVE events'[i] \in Answered'
      <4>1. events[i] \in [window : Window \cup {Chain, Covered, Gone}, snap : Snapshot,
                           old : SUBSET Control]
        BY <1>1, ScreensType DEF Answered
      <4>2. events'[i] = IF events[i].window \in Window
                           THEN [events[i] EXCEPT !.window = Covered] ELSE events[i]
        BY <1>4 DEF SetupTabBar
      <4> QED BY <3>1, <4>1, <4>2 DEF Answered
    <3>4. /\ reads' = [i \in DOMAIN reads |-> reads'[i]]
          /\ events' = [i \in DOMAIN events |-> events'[i]]
      BY <1>4 DEF SetupTabBar
    <3>5. reads \in Seq(Asked) /\ events \in Seq(Answered)
      BY <1>1 DEF ReadType
    <3>6. reads' \in Seq(Asked')
      BY <3>2, <3>4, <3>5, MapType
    <3>7. events' \in Seq(Answered')
      BY <3>3, <3>4, <3>5, MapType
    <3> QED BY <3>6, <3>7
  <2>6. ReadType'
    BY <2>5 DEF ReadType
  <2> QED BY <2>2, <2>3, <2>4, <2>6, <2>7, TypedPartsNext
<1> QED BY <1>2, <1>3, <1>4

\* The process ends, or the user logs out.
LEMMA TypeNoScreen ==
  ASSUME Typed, Kill \/ Logout
  PROVE  Typed'
<1>1. TypeOK /\ LoginType /\ ModelType /\ QueueTyped /\ TimerType
      /\ ReadType /\ ScreenType /\ SwitchType /\ GoalType
  BY TypedParts DEF Typed
<1>2. ModelType' /\ ScreenType' /\ SwitchType' /\ bars' = 0 /\ ready' = 0 /\ covered' = 0
  BY DEF Kill, Logout, NoScreen, Bit, ModelType, ScreenType, SwitchType
<1>3. CASE Kill
  <2>1. LoginType' /\ TimerType' /\ GoalType'
    <3>1. alive' \in BOOLEAN
      BY <1>3, Zenon DEF Kill
    <3>2. leaked' = 0 /\ goal' = [c \in Choice |-> NoGoal]
      BY <1>3 DEF Kill
    <3> QED BY <1>2, <3>1, <3>2, ControlAssumption DEF LoginType, TimerType, GoalType
  <2>2. QueueTyped' /\ ReadType'
    BY <1>1, <1>3, EmptySeq DEF Kill, QueueTyped, ReadType
  <2> QED BY <1>2, <2>1, <2>2, TypedPartsNext
<1>4. CASE Logout
  <2>1. LoginType' /\ GoalType' /\ QueueTyped'
    BY <1>1, <1>2, <1>4, ControlAssumption DEF Logout, queue, LoginType, GoalType, QueueTyped
  <2>2. TimerType'
    BY <1>1, <1>2, <1>4, ControlAssumption DEF Logout, TimerType, InfoTimer
  <2>3. Gone \in Asker'
    BY DEF Asker
  <2>4. ASSUME NEW i \in DOMAIN reads PROVE reads'[i] \in Asked'
    <3>1. reads[i] \in [window : Asker, ahead : Nat]
      BY <1>1, ScreensType DEF Asked
    <3>2. reads'[i] = [reads[i] EXCEPT !.window = Gone]
      BY <1>4 DEF Logout
    <3> QED BY <2>3, <3>1, <3>2 DEF Asked
  <2>5. ASSUME NEW i \in DOMAIN events PROVE events'[i] \in Answered'
    <3>1. events[i] \in [window : Asker, snap : Snapshot, old : SUBSET Control]
      BY <1>1, ScreensType DEF Answered
    <3>2. events'[i] = [events[i] EXCEPT !.window = Gone]
      BY <1>4 DEF Logout
    <3> QED BY <2>3, <3>1, <3>2 DEF Answered
  <2>6. /\ reads' = [i \in DOMAIN reads |-> reads'[i]]
        /\ events' = [i \in DOMAIN events |-> events'[i]]
        /\ reads \in Seq(Asked) /\ events \in Seq(Answered)
    BY <1>1, <1>4 DEF Logout, ReadType
  <2>7. reads' \in Seq(Asked')
    BY <2>4, <2>6, MapType
  <2>8. events' \in Seq(Answered')
    BY <2>5, <2>6, MapType
  <2> QED BY <1>2, <2>1, <2>2, <2>7, <2>8, TypedPartsNext DEF ReadType
<1> QED BY <1>3, <1>4

\* The tabs and the timers.
LEMMA TypeTabs ==
  ASSUME Typed, ShowInfo \/ ShowManual \/ ShowAutomation \/ Tick \/ TickGone
  PROVE  Typed'
<1>1. TypeOK /\ LoginType /\ ModelType /\ QueueTyped /\ TimerType
      /\ ReadType /\ ScreenType /\ SwitchType /\ GoalType
  BY TypedParts DEF Typed
<1>2. /\ UNCHANGED <<login, root, queue, timers, events, model, goal>>
      /\ loaded \subseteq loaded'
  BY DEF ShowInfo, ShowManual, ShowAutomation, Tick, TickGone, screen
<1>3. LoginType' /\ ModelType' /\ QueueTyped' /\ TimerType' /\ GoalType'
  BY <1>1, <1>2 DEF login, queue, timers, model, LoginType, ModelType, QueueTyped, TimerType,
                    GoalType
<1>4. ReadType'
  <2>1. events' \in Seq(Answered') /\ reads \in Seq(Asked')
    BY <1>1, <1>2, MoreLoaded
  <2>2. reads' = reads \/ \E w \in Asker' : Ask(w)
    BY DEF ShowInfo, ShowManual, ShowAutomation, Tick, TickGone, screen, Asker
  <2>3. reads' \in Seq(Asked')
    BY <1>1, <1>2, <2>1, <2>2, MoreLoaded
  <2> QED BY <2>1, <2>3 DEF ReadType
<1>5. ScreenType'
  <2>1. CASE ShowInfo
    BY <1>1, <1>2, <2>1, BlankAssumption
    DEF ShowInfo, ScreenType, ModelType, LoginType, login, Window
  <2>2. CASE ShowManual
    BY <1>1, <1>2, <2>2 DEF ShowManual, ScreenType, LoginType, login, Window
  <2>3. CASE ShowAutomation \/ Tick \/ TickGone
    BY <1>1, <1>2, <2>3 DEF ShowAutomation, Tick, TickGone, ScreenType, login, screen
  <2> QED BY <2>1, <2>2, <2>3
<1>6. SwitchType'
  <2>1. CASE ShowManual
    <3>1. values \in Snapshot
      BY <1>1, <2>1 DEF ShowManual, LoginType, ModelType
    <3> QED BY <1>1, <2>1, <3>1, SwitchesType DEF ShowManual, switch, SwitchType, ModelType
  <2>2. CASE ShowInfo \/ ShowAutomation \/ Tick \/ TickGone
    BY <1>1, <2>2 DEF ShowInfo, ShowAutomation, Tick, TickGone, screen, switch, SwitchType
  <2> QED BY <2>1, <2>2
<1> QED BY <1>3, <1>4, <1>5, <1>6, TypedPartsNext

\* A write joins the queue.
LEMMA TypeWrite ==
  ASSUME Typed, (\E c \in Control : Toggle(c)) \/ (\E c \in Command : PressReset(c))
  PROVE  Typed'
<1>1. TypeOK /\ LoginType /\ ModelType /\ QueueTyped /\ TimerType
      /\ ReadType /\ ScreenType /\ SwitchType /\ GoalType
  BY TypedParts DEF Typed
<1>2. ASSUME NEW c \in Choice, NEW v \in Bit, UNCHANGED <<root, taken, sent>>,
             pending' = Append(pending, [k \in {KeyWritten(c)} |-> v]),
             goal' = [goal EXCEPT ![c] = v]
      PROVE  QueueTyped' /\ GoalType'
  <2>1. [k \in {KeyWritten(c)} |-> v] \in Write
    BY Keys, WriteSets
  <2>2. pending' \in Seq(Write) /\ Len(pending') = Len(pending) + 1 /\ Len(pending) \in Nat
    BY <1>1, <1>2, <2>1, QueueType DEF QueueTyped
  <2> QED BY <1>1, <1>2, <2>2 DEF QueueTyped, GoalType
<1>3. ASSUME NEW c \in Control, Toggle(c) PROVE Typed'
  <2> DEFINE v == 1 - on[c]
  <2>1. c \in Choice /\ v \in Bit
    BY <1>1, Keys DEF SwitchType, Bit
  <2>2. /\ on' = [on EXCEPT ![c] = v] /\ goal' = [goal EXCEPT ![c] = v]
        /\ pending' = Append(pending, [k \in {KeyWritten(c)} |-> v])
        /\ raced' = raced \ {c} /\ dated' = dated \cup {c}
        /\ UNCHANGED <<login, root, taken, sent, timers, reads, values, tab, loaded, info>>
    BY <1>3 DEF Toggle
  <2> HIDE DEF v
  <2>3. QueueTyped' /\ GoalType'
    BY <1>2, <2>1, <2>2
  <2>4. SwitchType' /\ ModelType' /\ LoginType' /\ TimerType' /\ ScreenType'
    BY <1>1, <2>1, <2>2
    DEF login, timers, SwitchType, ModelType, LoginType, TimerType, ScreenType
  <2>5. events' \in Seq(Answered')
    <3>1. events' = [i \in DOMAIN events |-> [events[i] EXCEPT !.old = @ \cup {c}]]
      BY <1>3 DEF Toggle
    <3>2. ASSUME NEW i \in DOMAIN events PROVE events'[i] \in Answered'
      <4>1. events[i] \in [window : Asker, snap : Snapshot, old : SUBSET Control]
        BY <1>1, ScreensType DEF Answered
      <4>2. Asker' = Asker
        BY <2>2 DEF Asker
      <4> QED BY <3>1, <4>1, <4>2 DEF Answered
    <3>3. events \in Seq(Answered) /\ events' = [i \in DOMAIN events |-> events'[i]]
      BY <1>1, <3>1 DEF ReadType
    <3> QED BY <3>2, <3>3, MapType
  <2>6. reads' \in Seq(Asked')
    BY <1>1, <2>2 DEF ReadType, Asked, Asker
  <2>7. ReadType'
    BY <2>5, <2>6 DEF ReadType
  <2> QED BY <2>3, <2>4, <2>7, TypedPartsNext
<1>4. ASSUME NEW c \in Command, PressReset(c) PROVE Typed'
  <2>1. c \in Choice /\ 1 \in Bit
    BY DEF Choice, Bit
  <2>2. QueueTyped' /\ GoalType'
    BY <1>2, <1>4, <2>1 DEF PressReset
  <2>3. UNCHANGED <<login, timers, reads, events, model, screen>>
    BY <1>4 DEF PressReset
  <2>4. LoginType' /\ ModelType' /\ TimerType' /\ ScreenType' /\ SwitchType' /\ ReadType'
    BY <1>1, <2>3 DEF login, timers, model, screen, switch, LoginType, ModelType, TimerType,
                      ScreenType, SwitchType, ReadType, Asked, Answered, Asker
  <2> QED BY <2>2, <2>4, TypedPartsNext
<1> QED BY <1>3, <1>4

\* The client's queue, the connection and the main queue.
LEMMA TypeStore == Typed /\ Store => Typed'
<1> SUFFICES ASSUME Typed, Store PROVE Typed'
  OBVIOUS
<1>1. TypeOK /\ LoginType /\ ModelType /\ QueueTyped /\ TimerType
      /\ ReadType /\ ScreenType /\ SwitchType /\ GoalType
  BY TypedParts DEF Typed
<1>2. Len(pending) \in Nat /\ taken \in Nat /\ sent \in Nat
  BY <1>1, LenProperties DEF QueueTyped
<1>3. ASSUME UNCHANGED <<login, timers, reads, events, model, screen>>,
             QueueTyped', GoalType'
      PROVE  Typed'
  <2>1. LoginType' /\ ModelType' /\ TimerType' /\ ScreenType' /\ SwitchType' /\ ReadType'
    BY <1>1, <1>3 DEF login, timers, model, screen, switch, LoginType, ModelType, TimerType,
                      ScreenType, SwitchType, ReadType, Asked, Answered, Asker
  <2> QED BY <1>3, <2>1, TypedPartsNext
<1>4. ASSUME UNCHANGED <<login, root, queue, timers, model, screen, goal>>,
             reads' \in Seq(Asked), events' \in Seq(Answered)
      PROVE  Typed'
  <2>1. Asked' = Asked /\ Answered' = Answered
    BY <1>4 DEF screen, Asked, Answered, Asker
  <2>2. /\ LoginType' /\ ModelType' /\ TimerType' /\ ScreenType' /\ SwitchType'
        /\ QueueTyped' /\ GoalType'
    BY <1>1, <1>4 DEF login, queue, timers, model, screen, switch, LoginType, ModelType,
                      TimerType, ScreenType, SwitchType, QueueTyped, GoalType
  <2> QED BY <1>4, <2>1, <2>2, TypedPartsNext DEF ReadType
<1>5. CASE Take
  <2>1. /\ UNCHANGED <<login, root, pending, sent, timers, events, model, screen, goal>>
        /\ taken < Len(pending) /\ taken' = taken + 1
        /\ reads' = [i \in DOMAIN reads |-> IF reads[i].ahead > 0
                       THEN [reads[i] EXCEPT !.ahead = @ - 1] ELSE reads[i]]
    BY <1>5 DEF Take
  <2>2. QueueTyped' /\ GoalType'
    BY <1>1, <1>2, <2>1 DEF QueueTyped, GoalType
  <2>3. ASSUME NEW i \in DOMAIN reads PROVE reads'[i] \in Asked
    <3>1. reads[i] \in [window : Asker, ahead : Nat]
      BY <1>1, ScreensType DEF Asked
    <3>2. reads[i].ahead \in Nat
      BY <3>1
    <3>3. CASE reads[i].ahead > 0
      <4>1. reads'[i] = [reads[i] EXCEPT !.ahead = reads[i].ahead - 1] /\ reads[i].ahead - 1 \in Nat
        BY <2>1, <3>2, <3>3
      <4> QED BY <3>1, <4>1 DEF Asked
    <3>4. CASE ~ (reads[i].ahead > 0)
      BY <2>1, <3>1, <3>4 DEF Asked
    <3> QED BY <3>3, <3>4
  <2>4. reads \in Seq(Asked) /\ reads' = [i \in DOMAIN reads |-> reads'[i]]
    BY <1>1, <2>1 DEF ReadType
  <2>5. reads' \in Seq(Asked)
    BY <2>3, <2>4, MapType
  <2>6. Asked' = Asked /\ Answered' = Answered
    BY <2>1 DEF screen, Asked, Answered, Asker
  <2>7. ReadType'
    BY <1>1, <2>1, <2>5, <2>6 DEF ReadType
  <2>8. LoginType' /\ ModelType' /\ TimerType' /\ ScreenType' /\ SwitchType'
    BY <1>1, <2>1 DEF login, timers, model, screen, switch, LoginType, ModelType, TimerType,
                      ScreenType, SwitchType
  <2> QED BY <2>2, <2>7, <2>8, TypedPartsNext
<1>6. CASE Apply
  <2>1. /\ UNCHANGED <<login, pending, taken, timers, reads, events, model, screen, goal>>
        /\ sent < taken /\ root' = Written(root, pending[sent + 1]) /\ sent' = sent + 1
    BY <1>6 DEF Apply
  <2>2. pending[sent + 1] \in Write
    BY <1>1, <1>2, <2>1, ElementOfSeq DEF QueueTyped
  <2>3. root' \in Snapshot
    BY <1>1, <2>1, <2>2, WrittenType DEF QueueTyped
  <2>4. QueueTyped' /\ GoalType'
    BY <1>1, <1>2, <2>1, <2>3 DEF QueueTyped, GoalType
  <2> QED BY <1>3, <2>1, <2>4
<1>7. CASE Ack \/ Refuse
  <2>1. /\ UNCHANGED <<login, root, timers, reads, events, model, screen>>
        /\ pending' = Tail(pending) /\ taken > 0 /\ taken' = taken - 1
        /\ sent' = (IF sent > 0 THEN sent - 1 ELSE 0)
    BY <1>1, <1>2, <1>7 DEF Ack, Refuse, QueueTyped
  <2>2. pending # <<>>
    BY <1>1, <1>2, <2>1, EmptySeq DEF QueueTyped
  <2>3. pending' \in Seq(Write) /\ Len(pending') = Len(pending) - 1
    BY <1>1, <2>1, <2>2, QueueType DEF QueueTyped
  <2>4. QueueTyped'
    BY <1>1, <1>2, <2>1, <2>3 DEF QueueTyped
  <2>5. GoalType'
    BY <1>1, <1>7 DEF Ack, Refuse, GoalType
  <2> QED BY <1>3, <2>1, <2>4, <2>5
<1>8. CASE Reconnect
  <2>1. QueueTyped' /\ GoalType'
    BY <1>1, <1>2, <1>8 DEF Reconnect, QueueTyped, GoalType
  <2> QED BY <1>3, <1>8, <2>1 DEF Reconnect
<1>9. ASSUME Served
      PROVE  Head(reads) \in Asked /\ reads' \in Seq(Asked)
  BY <1>1, <1>9, QueueType DEF Served, ReadType
<1>10. CASE Answer
  <2> DEFINE e == [window |-> Head(reads).window, snap |-> Held,
                   old |-> {c \in Control : Untaken(c)}]
  <2>1. Head(reads) \in [window : Asker, ahead : Nat] /\ reads' \in Seq(Asked)
    BY <1>9, <1>10 DEF Answer, Asked
  <2>2. SubSeq(pending, 1, taken) \in Seq(Write)
    <3>1. \A i \in 1 .. taken : pending[i] \in Write
      BY <1>1, <1>2, ElementOfSeq DEF QueueTyped
    <3> QED BY <1>2, <3>1, SubSeqProperties
  <2>3. Held \in Snapshot
    BY <1>1, <2>2, OverlayType DEF Held, QueueTyped
  <2>4. e \in Answered
    BY <2>1, <2>3 DEF Answered
  <2>5. events' = Append(events, e)
    BY <1>10 DEF Answer
  <2> HIDE DEF e
  <2>6. events' \in Seq(Answered)
    BY <1>1, <2>4, <2>5, QueueType DEF ReadType
  <2> QED BY <1>4, <1>10, <2>1, <2>6 DEF Answer
<1>11. CASE Cancel
  BY <1>1, <1>4, <1>9, <1>11 DEF Cancel, ReadType
<1>12. CASE Deliver
  <2> DEFINE e == Head(events)
  <2>1. e \in [window : Asker, snap : Snapshot, old : SUBSET Control] /\ events' \in Seq(Answered)
    BY <1>1, <1>12, QueueType DEF Deliver, ReadType, Answered
  <2>2. e.snap \in Snapshot /\ e.old \subseteq Control /\ e.window \in Asker
    BY <2>1
  <2>3. /\ IF e.window = Gone THEN values' = values /\ dated' = dated
                              ELSE values' = e.snap /\ dated' = e.old
        /\ ready' = ready + (IF e.window = Chain THEN 1 ELSE 0)
        /\ info' = IF e.window = "info" THEN e.snap ELSE info
        /\ IF e.window = "manual" THEN on' = Switches(e.snap) /\ raced' = e.old
                                  ELSE on' = on /\ raced' = raced
        /\ UNCHANGED <<alive, bars, root, queue, timers, reads, tab, loaded, goal>>
    BY <1>12 DEF Deliver, model, switch
  <2> HIDE DEF e
  <2>4. LoginType' /\ TimerType' /\ QueueTyped' /\ GoalType'
    BY <1>1, <2>3 DEF timers, queue, LoginType, TimerType, QueueTyped, GoalType
  <2>5. ModelType'
    <3>1. CASE e.window = Gone
      BY <1>1, <2>3, <3>1 DEF ModelType, LoginType, Gone, Chain
    <3>2. CASE e.window # Gone
      BY <2>2, <2>3, <3>2, BlankAssumption DEF ModelType
    <3> QED BY <3>1, <3>2
  <2>6. ScreenType'
    <3>1. e.window = "info" => "info" \in loaded
      BY <2>2 DEF Asker, Chain, Covered, Gone
    <3> QED BY <1>1, <2>2, <2>3, <3>1, BlankAssumption DEF ScreenType
  <2>7. SwitchType'
    BY <1>1, <2>2, <2>3, SwitchesType DEF SwitchType
  <2>8. ReadType'
    BY <1>1, <2>1, <2>3 DEF ReadType, Asked, Answered, Asker
  <2> QED BY <2>4, <2>5, <2>6, <2>7, <2>8, TypedPartsNext
<1> QED BY <1>5, <1>6, <1>7, <1>8, <1>10, <1>11, <1>12 DEF Store

\* Somebody else writes a key.
LEMMA TypeOthers == Typed /\ Others => Typed'
<1> SUFFICES ASSUME Typed, Others PROVE Typed'
  OBVIOUS
<1>1. TypeOK /\ LoginType /\ ModelType /\ QueueTyped /\ TimerType
      /\ ReadType /\ ScreenType /\ SwitchType /\ GoalType
  BY TypedParts DEF Typed
<1>2. PICK k \in Key, v \in Bit \cup Reading :
        /\ OtherWrite(k, v)
        /\ k \in ChoiceKey => v \in Bit
        /\ k \in Field => v \in Reading
  BY Keys, Zenon DEF Others, Key
<1>3. /\ root' = [root EXCEPT ![k] = v] /\ root \in Snapshot
      /\ UNCHANGED <<login, queue, timers, reads, events, model, screen>>
  BY <1>1, <1>2 DEF OtherWrite, QueueTyped
<1>4. root' \in Snapshot
  <2>1. /\ DOMAIN root = Key /\ \A j \in ChoiceKey : root[j] \in Bit /\ j \in Key
        /\ \A j \in Field : root[j] \in Reading /\ j \in Key
    BY <1>3 DEF Snapshot, Key
  <2>2. /\ DOMAIN root' = Key /\ root' = [j \in DOMAIN root' |-> root'[j]]
        /\ \A j \in Key : root'[j] = IF j = k THEN v ELSE root[j]
    BY <1>3, <2>1
  <2> QED BY <1>2, <2>1, <2>2, SnapshotKeys
<1>5. GoalType'
  BY <1>1, <1>2 DEF OtherWrite, GoalType
<1>6. /\ LoginType' /\ ModelType' /\ QueueTyped' /\ TimerType' /\ ScreenType' /\ SwitchType'
      /\ ReadType'
  BY <1>1, <1>3, <1>4
  DEF login, queue, timers, model, screen, switch, LoginType, ModelType, QueueTyped, TimerType,
      ScreenType, SwitchType, ReadType, Asked, Answered, Asker
<1> QED BY <1>5, <1>6, TypedPartsNext

LEMMA TypeStep == Typed /\ [Next]_vars => Typed'
<1> SUFFICES ASSUME Typed, [Next]_vars PROVE Typed'
  OBVIOUS
<1>1. CASE UNCHANGED vars
  BY <1>1 DEF Typed, LoadedBehindTabBar, TypeOK, Asker, vars, login, queue, timers, model,
              screen, switch
<1>2. CASE Next
  BY <1>2, TypeLogin, TypeNoScreen, TypeTabs, TypeWrite, TypeStore, TypeOthers
  DEF Next, Logins, Windows
<1> QED BY <1>1, <1>2

\* Types; no answer belongs to a window that is not loaded.
THEOREM TypeCorrect == Spec => []TypeOK
<1>1. Typed => TypeOK
  BY DEF Typed
<1> QED BY <1>1, TypeInit, TypeStep, PTL DEF Spec

-----------------------------------------------------------------------------
(***************************************************************************)
(* The last choice wins.                                                   *)
(***************************************************************************)

\* What the types say of the queue.
LEMMA QueueFacts ==
  ASSUME Typed
  PROVE  /\ pending \in Seq(Write) /\ Len(pending) \in Nat /\ DOMAIN pending = 1 .. Len(pending)
         /\ taken \in Nat /\ taken <= Len(pending) /\ sent \in Nat /\ sent <= taken
         /\ \A i \in DOMAIN pending : pending[i] \in Write
<1>1. pending \in Seq(Write) /\ taken \in 0 .. Len(pending) /\ sent \in 0 .. taken
  BY DEF Typed, TypeOK
<1> QED BY <1>1, QueueType

\* The server's keys, cut down to the one a control stands for.
One(c) == [k \in {Equipment(c)} |-> root[k]]

\* What LastChoiceWins and AppliedChoice say of one control.
Follows(c) ==
  goal[c] # NoGoal => /\ Overlay(One(c), pending)[Equipment(c)] = goal[c]
                      /\ Applied(One(c), pending, sent)

\* A key is read in the same way from its part of the server's keys.
LEMMA OverlayOne ==
  ASSUME NEW c \in Choice, NEW r \in Snapshot, NEW q
  PROVE  Overlay([k \in {Equipment(c)} |-> r[k]], q)[Equipment(c)] = Overlay(r, q)[Equipment(c)]
BY SnapshotHas DEF Overlay

LEMMA FollowsAll ==
  ASSUME root \in Snapshot
  PROVE  (\A c \in Choice : Follows(c)) <=> LastChoiceWins /\ AppliedChoice
<1>1. ASSUME NEW c \in Choice
      PROVE  Applied(One(c), pending, sent) <=>
               \A i \in 1 .. sent :
                 IsLast(pending, Equipment(c), i)
                   => root[Equipment(c)] = pending[i][Equipment(c)]
  BY DEF Applied, One
<1> QED BY <1>1, OverlayOne DEF One, Follows, LastChoiceWins, AppliedChoice

\* The inductive invariant.
FarmInv == Typed /\ ChoiceInv

\* A write joins the queue and is what the user now wants.
LEMMA FollowsWrite ==
  ASSUME Typed, NEW c \in Choice, NEW v \in Bit, \A d \in Choice : Follows(d),
         pending' = Append(pending, [k \in {Equipment(c)} |-> v]),
         sent' = sent, root' = root, goal' = [goal EXCEPT ![c] = v]
  PROVE  \A d \in Choice : Follows(d)'
<1> DEFINE w == [k \in {Equipment(c)} |-> v]
<1>1. w \in Write /\ pending \in Seq(Write) /\ sent \in Nat /\ sent <= Len(pending)
  <2>1. w \in Write
    BY WriteSets, Zenon
  <2> QED BY <2>1, QueueFacts
<1> SUFFICES ASSUME NEW d \in Choice, goal'[d] # NoGoal PROVE Follows(d)'
  BY DEF Follows
<1>2. One(d)' = One(d)
  BY DEF One
<1>3. Overlay(One(d), Append(pending, w)) = Written(Overlay(One(d), pending), w)
  BY <1>1, OverlayAppend
<1>4. DOMAIN Overlay(One(d), pending) = {Equipment(d)}
  BY DEF Overlay, One
<1>5. CASE d = c
  <2>1. goal'[d] = v
    BY <1>5 DEF Typed, TypeOK
  <2>2. Written(Overlay(One(d), pending), w)[Equipment(d)] = v
    BY <1>4, <1>5 DEF Written
  <2>3. Applied(One(d), Append(pending, w), sent)
    <3>1. ASSUME NEW i \in 1 .. sent PROVE ~ IsLast(Append(pending, w), Equipment(d), i)
      BY <1>1, <1>5, AppendProperties DEF IsLast
    <3> QED BY <3>1 DEF Applied, One
  <2> HIDE DEF w
  <2> QED BY <1>2, <1>3, <2>1, <2>2, <2>3 DEF Follows, w
<1>6. CASE d # c
  <2>1. goal'[d] = goal[d] /\ Equipment(d) \notin DOMAIN w
    BY <1>6, Keys DEF Typed, TypeOK
  <2>2. Overlay(One(d), pending)[Equipment(d)] = goal[d] /\ Applied(One(d), pending, sent)
    BY <2>1 DEF Follows
  <2>3. Written(Overlay(One(d), pending), w)[Equipment(d)] = goal[d]
    BY <1>4, <2>1, <2>2 DEF Written
  <2>4. Applied(One(d), Append(pending, w), sent)
    BY <1>1, <2>2, AppliedAppend
  <2> HIDE DEF w
  <2> QED BY <1>2, <1>3, <2>1, <2>3, <2>4 DEF Follows, w
<1> QED BY <1>5, <1>6

\* The oldest write leaves the queue: applied, or refused and wished no more.
LEMMA FollowsLeave ==
  ASSUME Typed, \A d \in Choice : Follows(d), pending # <<>>,
         pending' = Tail(pending), root' = root,
         \/ sent > 0 /\ sent' = sent - 1 /\ goal' = goal
         \/ /\ sent = 0 /\ sent' = 0
            /\ goal' = [c \in Choice |-> IF Equipment(c) \in DOMAIN pending[1] THEN NoGoal ELSE goal[c]]
  PROVE  \A d \in Choice : Follows(d)'
<1>1. pending \in Seq(Write) /\ sent \in Nat /\ sent <= Len(pending)
  BY LenProperties DEF Typed, TypeOK
<1> SUFFICES ASSUME NEW d \in Choice, goal'[d] # NoGoal PROVE Follows(d)'
  BY DEF Follows
<1>2. One(d)' = One(d) /\ DOMAIN One(d) = {Equipment(d)}
  BY DEF One
<1>3. /\ goal'[d] = goal[d] /\ goal[d] # NoGoal
      /\ Overlay(One(d), pending)[Equipment(d)] = goal[d] /\ Applied(One(d), pending, sent)
  BY DEF Follows
<1>4. \A k \in DOMAIN One(d) : IsLast(pending, k, 1) => One(d)[k] = pending[1][k]
  <2>1. CASE sent > 0
    BY <1>1, <1>3, <2>1 DEF Applied
  <2>2. CASE sent = 0
    BY <1>2, <2>2 DEF IsLast
  <2> QED BY <1>1, <2>1, <2>2
<1>5. Overlay(One(d), Tail(pending)) = Overlay(One(d), pending)
  BY <1>1, <1>4, OverlayTail
<1>6. Applied(One(d), Tail(pending), sent')
  <2>1. CASE sent > 0
    BY <1>1, <1>3, <2>1, AppliedTail
  <2>2. CASE sent = 0
    BY <2>2 DEF Applied
  <2> QED BY <1>1, <2>1, <2>2
<1> QED BY <1>2, <1>3, <1>5, <1>6 DEF Follows

\* The server applies the next write, for the first time or again.
LEMMA FollowsApply ==
  ASSUME Typed, \A d \in Choice : Follows(d), Apply
  PROVE  \A d \in Choice : Follows(d)'
<1> DEFINE w == pending[sent + 1]
<1>1. /\ pending \in Seq(Write) /\ sent \in Nat /\ sent < Len(pending)
      /\ sent + 1 \in DOMAIN pending /\ root \in Snapshot
      /\ root' = Written(root, w) /\ sent' = sent + 1 /\ UNCHANGED <<pending, goal>>
  BY LenProperties DEF Typed, TypeOK, Apply
<1> SUFFICES ASSUME NEW d \in Choice, goal[d] # NoGoal PROVE Follows(d)'
  BY <1>1 DEF Follows
<1>2. Overlay(One(d), pending)[Equipment(d)] = goal[d] /\ Applied(One(d), pending, sent)
  BY DEF Follows
<1>3. One(d)' = Written(One(d), w)
  BY <1>1, SnapshotHas DEF One, Written
<1>4. Overlay(Written(One(d), w), pending) = Overlay(One(d), pending)
  BY <1>1, OverlayWritten
<1>5. Applied(Written(One(d), w), pending, sent + 1)
  BY <1>1, <1>2, AppliedStep
<1> QED BY <1>1, <1>2, <1>3, <1>4, <1>5 DEF Follows

\* Somebody else's write ends the user's claim to the key it changes.
LEMMA FollowsOther ==
  ASSUME Typed, \A d \in Choice : Follows(d), NEW k, NEW v, OtherWrite(k, v)
  PROVE  \A d \in Choice : Follows(d)'
<1> SUFFICES ASSUME NEW d \in Choice, goal'[d] # NoGoal PROVE Follows(d)'
  BY DEF Follows
<1>1. /\ Equipment(d) # k /\ goal'[d] = goal[d] /\ root \in Snapshot
      /\ root' = [root EXCEPT ![k] = v] /\ UNCHANGED <<pending, sent>>
  BY DEF OtherWrite, Typed, TypeOK, queue
<1>2. One(d)' = One(d)
  BY <1>1, SnapshotHas DEF One
<1> QED BY <1>1, <1>2 DEF Follows

\* No step but those of the store and of the user touches a choice.
LEMMA FollowsStep ==
  ASSUME FarmInv, [Next]_vars
  PROVE  LastChoiceWins' /\ AppliedChoice'
<1>1. Typed /\ Typed' /\ root \in Snapshot /\ root' \in Snapshot
  BY TypeStep DEF FarmInv, Typed, TypeOK
<1>2. \A c \in Choice : Follows(c)
  BY <1>1, FollowsAll DEF FarmInv, ChoiceInv
<1> SUFFICES \A c \in Choice : Follows(c)'
  <2> SUFFICES ASSUME \A c \in Choice : Follows(c)', NEW c \in Choice, goal'[c] # NoGoal
               PROVE  /\ Overlay(root', pending')[Equipment(c)] = goal'[c]
                      /\ \A i \in 1 .. sent' : IsLast(pending', Equipment(c), i)
                           => root'[Equipment(c)] = pending'[i][Equipment(c)]
    BY DEF LastChoiceWins, AppliedChoice
  <2>1. Overlay(One(c)', pending')[Equipment(c)] = goal'[c] /\ Applied(One(c)', pending', sent')
    BY DEF Follows
  <2>2. Overlay(One(c)', pending')[Equipment(c)] = Overlay(root', pending')[Equipment(c)]
    BY <1>1, OverlayOne DEF One
  <2> QED BY <2>1, <2>2 DEF Applied, One
<1> DEFINE Write1(c, v) == [k \in {Equipment(c)} |-> v]
<1>3. ASSUME NEW c \in Choice, NEW v \in Bit,
             pending' = Append(pending, Write1(c, v)),
             sent' = sent, root' = root, goal' = [goal EXCEPT ![c] = v]
      PROVE  \A d \in Choice : Follows(d)'
  <2>1. Write1(c, v) \in Write /\ pending \in Seq(Write)
    BY <1>1, WriteSets DEF Typed, TypeOK
  <2> QED BY <1>1, <1>2, <1>3, FollowsWrite
<1>4. ASSUME UNCHANGED <<root, pending, sent, goal>>
      PROVE  \A d \in Choice : Follows(d)'
  BY <1>1, <1>2, <1>4 DEF Follows, One
<1>5. CASE Launch \/ LoginRead \/ ChainEnds
             \/ (\E early \in BOOLEAN : SetupTabBar(early)) \/ Logout
  BY <1>4, <1>5 DEF Launch, LoginRead, ChainEnds, SetupTabBar, Logout, queue
<1>6. CASE Kill
  BY <1>6 DEF Kill, Follows
<1>7. CASE ShowInfo \/ ShowManual \/ ShowAutomation \/ Tick \/ TickGone
  BY <1>4, <1>7 DEF ShowInfo, ShowManual, ShowAutomation, Tick, TickGone, queue
<1>8. ASSUME NEW c \in Control, Toggle(c)
      PROVE  \A d \in Choice : Follows(d)'
  <2>1. c \in Choice /\ KeyWritten(c) = Equipment(c)
    BY Keys
  <2>2. 1 - on[c] \in Bit
    <3>1. on \in [Control -> Bit]
      BY <1>1 DEF Typed, TypeOK
    <3> QED BY <3>1 DEF Bit
  <2> QED BY <1>3, <1>8, <2>1, <2>2 DEF Toggle
<1>9. ASSUME NEW c \in Command, PressReset(c)
      PROVE  \A d \in Choice : Follows(d)'
  <2>1. c \in Choice /\ KeyWritten(c) = Equipment(c) /\ 1 \in Bit
    BY Keys DEF Choice, Bit
  <2> QED BY <1>3, <1>9, <2>1 DEF PressReset
<1>10. CASE Apply
  BY <1>1, <1>2, <1>10, FollowsApply DEF Apply
<1>11. ASSUME Ack \/ Refuse
       PROVE  \A d \in Choice : Follows(d)'
  <2>1. /\ pending \in Seq(Write) /\ pending # <<>> /\ pending' = Tail(pending) /\ root' = root
        /\ \/ sent > 0 /\ sent' = sent - 1 /\ goal' = goal
           \/ /\ sent = 0 /\ sent' = 0
              /\ goal' = [c \in Choice |->
                            IF Equipment(c) \in DOMAIN pending[1] THEN NoGoal ELSE goal[c]]
    BY <1>1, <1>11, EmptySeq DEF Ack, Refuse, Typed, TypeOK
  <2> QED BY <1>1, <1>2, <2>1, FollowsLeave
<1>12. CASE Reconnect
  BY <1>1, <1>2, <1>12 DEF Reconnect, Follows, One, Applied
<1>13. CASE Take \/ Answer \/ Cancel \/ Deliver
  BY <1>4, <1>13 DEF Take, Answer, Cancel, Deliver, queue
<1>14. ASSUME NEW k, NEW v, OtherWrite(k, v)
       PROVE  \A d \in Choice : Follows(d)'
  BY <1>1, <1>2, <1>14, FollowsOther DEF OtherWrite
<1>15. CASE UNCHANGED vars
  BY <1>4, <1>15 DEF vars, queue
<1> QED
  BY <1>5, <1>6, <1>7, <1>8, <1>9, <1>10, <1>11, <1>12, <1>13, <1>14, <1>15
  DEF Next, Logins, Windows, Store, Others

-----------------------------------------------------------------------------
(***************************************************************************)
(* What the switches show.                                                 *)
(***************************************************************************)

\* What ManualHonest, AnswersAgree and ValuesAgree say of one control.
Honest(c) ==
  goal[c] # NoGoal =>
    /\ "manual" \in loaded /\ c \notin raced => on[c] = goal[c]
    /\ \A i \in DOMAIN events :
         c \notin events[i].old => events[i].snap[Equipment(c)] = goal[c]
    /\ values # Blank /\ c \notin dated => values[Equipment(c)] = goal[c]

LEMMA HonestAll ==
  (\A c \in Control : Honest(c)) <=> ManualHonest /\ AnswersAgree /\ ValuesAgree
BY DEF Honest, ManualHonest, AnswersAgree, ValuesAgree

\* The user moves a switch: every answer on its way is older.
LEMMA HonestToggle ==
  ASSUME Typed, \A d \in Control : Honest(d), NEW c \in Control, Toggle(c)
  PROVE  \A d \in Control : Honest(d)'
<1> SUFFICES ASSUME NEW d \in Control PROVE Honest(d)'
  OBVIOUS
<1>1. /\ c \in Choice /\ d \in Choice
      /\ goal \in [Choice -> Bit \cup {NoGoal}] /\ on \in [Control -> Bit]
      /\ \A i \in DOMAIN events : events[i] \in Answered
  BY Keys, ScreensType DEF Typed, TypeOK
<1> DEFINE v == 1 - on[c]
<1>2. /\ on' = [on EXCEPT ![c] = v] /\ goal' = [goal EXCEPT ![c] = v]
      /\ raced' = raced \ {c} /\ dated' = dated \cup {c}
      /\ events' = [i \in DOMAIN events |-> [events[i] EXCEPT !.old = @ \cup {c}]]
      /\ UNCHANGED <<values, loaded>>
  BY DEF Toggle
<1> HIDE DEF v
<1>3. DOMAIN events' = DOMAIN events
      /\ \A i \in DOMAIN events : /\ events'[i].old = events[i].old \cup {c}
                                  /\ events'[i].snap = events[i].snap
  BY <1>1, <1>2 DEF Answered
<1>4. CASE d = c
  <2>1. on'[d] = v /\ goal'[d] = v
    BY <1>1, <1>2, <1>4
  <2> QED BY <1>2, <1>3, <1>4, <2>1 DEF Honest
<1>5. CASE d # c
  <2>1. on'[d] = on[d] /\ goal'[d] = goal[d]
    BY <1>1, <1>2, <1>5
  <2>2. /\ d \in raced' <=> d \in raced
        /\ d \in dated' <=> d \in dated
        /\ \A i \in DOMAIN events : d \in events'[i].old <=> d \in events[i].old
    BY <1>2, <1>3, <1>5
  <2> QED BY <1>2, <1>3, <2>1, <2>2 DEF Honest
<1> QED BY <1>4, <1>5

\* The oldest answer reaches its asker.
LEMMA HonestDeliver ==
  ASSUME Typed, \A d \in Control : Honest(d), Deliver
  PROVE  \A d \in Control : Honest(d)'
<1> DEFINE e == events[1]
<1>1. /\ Len(events) \in Nat /\ Len(events) > 0 /\ DOMAIN events = 1 .. Len(events)
      /\ Head(events) = e /\ e \in Answered
      /\ Len(Tail(events)) = Len(events) - 1 /\ DOMAIN Tail(events) = 1 .. Len(Tail(events))
      /\ \A i \in 1 .. Len(events) - 1 : Tail(events)[i] = events[i + 1]
  BY ScreensType, QueueType DEF Typed, Deliver
<1>2. e.snap \in Snapshot
  BY <1>1 DEF Answered
<1>3. /\ IF e.window = Gone THEN values' = values /\ dated' = dated
                            ELSE values' = e.snap /\ dated' = e.old
      /\ IF e.window = "manual" THEN on' = Switches(e.snap) /\ raced' = e.old
                                ELSE on' = on /\ raced' = raced
      /\ events' = Tail(events) /\ UNCHANGED <<loaded, goal>>
  BY <1>1 DEF Deliver, model, switch
<1> SUFFICES ASSUME NEW d \in Control, goal[d] # NoGoal PROVE Honest(d)'
  BY <1>3 DEF Honest
<1>4. d \notin e.old => e.snap[Equipment(d)] = goal[d]
  BY <1>1 DEF Honest
<1> HIDE DEF e
<1>5. \A i \in DOMAIN events' : i + 1 \in DOMAIN events /\ events'[i] = events[i + 1]
  BY <1>1, <1>3
<1>6. ASSUME NEW i \in DOMAIN events', d \notin events'[i].old
      PROVE  events'[i].snap[Equipment(d)] = goal[d]
  BY <1>5, <1>6 DEF Honest
<1>7. ASSUME "manual" \in loaded, d \notin raced' PROVE on'[d] = goal[d]
  <2>1. CASE e.window = "manual"
    BY <1>2, <1>3, <1>4, <1>7, <2>1, SwitchesType
  <2>2. CASE e.window # "manual"
    BY <1>3, <1>7, <2>2 DEF Honest
  <2> QED BY <2>1, <2>2
<1>8. ASSUME values' # Blank, d \notin dated' PROVE values'[Equipment(d)] = goal[d]
  BY <1>3, <1>4, <1>8 DEF Honest
<1> QED BY <1>3, <1>6, <1>7, <1>8 DEF Honest

\* The client computes an answer: of a choice that it has taken the answer has
\* the last, by LastChoiceWins.
LEMMA HonestAnswer ==
  ASSUME Typed, LastChoiceWins, \A d \in Control : Honest(d), Answer
  PROVE  \A d \in Control : Honest(d)'
<1> DEFINE e == [window |-> Head(reads).window, snap |-> Held,
                 old |-> {c \in Control : Untaken(c)}]
<1>1. events \in Seq(Answered) /\ root \in Snapshot
  BY ScreensType DEF Typed, TypeOK
<1>2. /\ events' = Append(events, e) /\ UNCHANGED <<values, dated, loaded, on, goal, raced>>
  BY DEF Answer, model, screen, switch
<1>3. /\ Len(events) \in Nat /\ DOMAIN events = 1 .. Len(events)
      /\ DOMAIN events' = 1 .. Len(events) + 1
      /\ events'[Len(events) + 1] = e /\ \A i \in 1 .. Len(events) : events'[i] = events[i]
  <2>1. events \in Seq({events[i] : i \in DOMAIN events} \cup {e})
    <3>1. Len(events) \in Nat /\ DOMAIN events = 1 .. Len(events)
          /\ events = [i \in DOMAIN events |-> events[i]]
      BY <1>1, LenProperties
    <3> HIDE DEF e
    <3> QED BY <1>1, <3>1, MapType
  <2> HIDE DEF e
  <2> QED BY <1>2, <2>1, AppendProperties, LenProperties
<1> SUFFICES ASSUME NEW d \in Control, goal[d] # NoGoal PROVE Honest(d)'
  BY <1>2 DEF Honest
<1>4. d \notin e.old => e.snap[Equipment(d)] = goal[d]
  <2> SUFFICES ASSUME ~ Untaken(d) PROVE Held[Equipment(d)] = goal[d]
    OBVIOUS
  <2>1. d \in Choice /\ Equipment(d) \in DOMAIN root
    BY <1>1, Keys, SnapshotHas
  <2>2. \A i \in DOMAIN pending : i > taken => Equipment(d) \notin DOMAIN pending[i]
    BY DEF Untaken
  <2>3. taken \in 0 .. Len(pending) /\ pending \in Seq(Write)
    BY QueueFacts
  <2>4. Held[Equipment(d)] = Overlay(root, pending)[Equipment(d)]
    BY <2>1, <2>2, <2>3, OverlayCut DEF Held
  <2> QED BY <2>1, <2>4 DEF LastChoiceWins
<1> HIDE DEF e
<1> QED BY <1>2, <1>3, <1>4 DEF Honest

\* The Manual window's switches are set from the model's values.
LEMMA HonestShow ==
  ASSUME Typed, \A d \in Control : Honest(d), ShowManual
  PROVE  \A d \in Control : Honest(d)'
<1> SUFFICES ASSUME NEW d \in Control PROVE Honest(d)'
  OBVIOUS
<1>1. /\ bars > 0 /\ loaded' = loaded \cup {"manual"}
      /\ IF "manual" \in loaded THEN on' = on /\ raced' = raced
                                ELSE on' = Switches(values) /\ raced' = dated
      /\ UNCHANGED <<events, values, dated, goal>>
  BY DEF ShowManual, model, switch
<1>2. values \in Snapshot /\ values # Blank
  BY <1>1 DEF Typed, TypeOK
<1>3. CASE "manual" \in loaded
  BY <1>1, <1>3 DEF Honest
<1>4. CASE "manual" \notin loaded
  <2>1. on'[d] = values[Equipment(d)]
    BY <1>1, <1>2, <1>4, SwitchesType
  <2> QED BY <1>1, <1>2, <1>4, <2>1 DEF Honest
<1> QED BY <1>3, <1>4

\* New windows, or none: their switches show nothing yet, answers keep what
\* they say and the model keeps its values or loses them.
LEMMA HonestScreens ==
  ASSUME Typed, \A d \in Control : Honest(d),
         Logout \/ \E early \in BOOLEAN : SetupTabBar(early)
  PROVE  \A d \in Control : Honest(d)'
<1> SUFFICES ASSUME NEW d \in Control PROVE Honest(d)'
  OBVIOUS
<1>1. /\ "manual" \notin loaded' /\ goal' = goal
      /\ values' = Blank \/ (values' = values /\ dated' = dated)
  BY DEF Logout, NoScreen, SetupTabBar, model
<1>2. \A i \in DOMAIN events : events[i] \in Answered
  BY ScreensType DEF Typed
<1>3. DOMAIN events' = DOMAIN events
      /\ \A i \in DOMAIN events :
           events'[i].snap = events[i].snap /\ events'[i].old = events[i].old
  <2>1. CASE Logout
    BY <1>2, <2>1 DEF Logout, Answered
  <2>2. CASE \E early \in BOOLEAN : SetupTabBar(early)
    BY <1>2, <2>2 DEF SetupTabBar, Answered
  <2> QED BY <2>1, <2>2
<1> QED BY <1>1, <1>3 DEF Honest

\* Steps that leave the Manual window, the answers and the model alone, or end
\* claims of the user.
LEMMA HonestKeep ==
  ASSUME \A d \in Control : Honest(d),
         \A d \in Control : goal'[d] = goal[d] \/ goal'[d] = NoGoal,
         UNCHANGED <<events, values, dated, on, raced>>,
         "manual" \in loaded' <=> "manual" \in loaded
  PROVE  \A d \in Control : Honest(d)'
BY DEF Honest

LEMMA HonestStep ==
  ASSUME FarmInv, [Next]_vars
  PROVE  \A d \in Control : Honest(d)'
<1>1. Typed /\ LastChoiceWins /\ \A d \in Control : Honest(d)
  BY HonestAll DEF FarmInv, ChoiceInv
<1>2. CASE Logout \/ \E early \in BOOLEAN : SetupTabBar(early)
  BY <1>1, <1>2, HonestScreens
<1>3. CASE Kill
  <2>1. \A d \in Control : goal'[d] = NoGoal
    BY <1>3, Keys DEF Kill
  <2> QED BY <2>1 DEF Honest
<1>4. CASE \/ Launch \/ LoginRead \/ ChainEnds
           \/ ShowInfo \/ ShowAutomation \/ Tick \/ TickGone
  <2>1. /\ goal' = goal /\ UNCHANGED <<events, values, dated, on, raced>>
        /\ "manual" \in loaded' <=> "manual" \in loaded
    BY <1>4 DEF Launch, LoginRead, ChainEnds, ShowInfo, ShowAutomation, Tick, TickGone,
                model, screen, switch
  <2> QED BY <1>1, <2>1, HonestKeep
<1>5. CASE ShowManual
  BY <1>1, <1>5, HonestShow
<1>6. CASE \E c \in Control : Toggle(c)
  BY <1>1, <1>6, HonestToggle
<1>7. ASSUME NEW c \in Command, PressReset(c) PROVE \A d \in Control : Honest(d)'
  <2>1. goal \in [Choice -> Bit \cup {NoGoal}] /\ \A d \in Control : d \in Choice /\ d # c
    BY <1>1, Keys DEF Typed, TypeOK
  <2>2. \A d \in Control : goal'[d] = goal[d]
    BY <1>7, <2>1 DEF PressReset
  <2> QED BY <1>1, <1>7, <2>2, HonestKeep DEF PressReset, model, screen, switch
<1>8. CASE Take \/ Apply \/ Ack \/ Reconnect \/ Cancel
  <2>1. /\ goal' = goal /\ UNCHANGED <<events, values, dated, on, raced>>
        /\ "manual" \in loaded' <=> "manual" \in loaded
    BY <1>8 DEF Take, Apply, Ack, Reconnect, Cancel, model, screen, switch
  <2> QED BY <1>1, <2>1, HonestKeep
<1>9. ASSUME Refuse \/ \E k, v : OtherWrite(k, v) PROVE \A d \in Control : Honest(d)'
  <2>1. \A d \in Control : goal'[d] = goal[d] \/ goal'[d] = NoGoal
    BY <1>9, Keys DEF Refuse, OtherWrite
  <2>2. UNCHANGED <<events, values, dated, on, raced, loaded>>
    BY <1>9 DEF Refuse, OtherWrite, model, screen, switch
  <2> QED BY <1>1, <2>1, <2>2, HonestKeep
<1>10. CASE Answer
  BY <1>1, <1>10, HonestAnswer
<1>11. CASE Deliver
  BY <1>1, <1>11, HonestDeliver
<1>12. CASE UNCHANGED vars
  BY <1>1, <1>12, HonestKeep DEF vars, model, screen, switch
<1> QED
  BY <1>2, <1>3, <1>4, <1>5, <1>6, <1>7, <1>8, <1>9, <1>10, <1>11, <1>12
  DEF Next, Logins, Windows, Store, Others

-----------------------------------------------------------------------------
(***************************************************************************)
(* What a login reads.                                                     *)
(***************************************************************************)

\* The client takes a write: a read that waits for it waits for one less, and
\* there is no answer yet that could lack it.
LEMMA LastTake ==
  ASSUME Typed, LoginReadsLast, Take
  PROVE  LoginReadsLast'
<1> SUFFICES ASSUME Untouched PROVE LoginReadsLast'
  BY DEF LoginReadsLast, Take, Untouched, login, screen
<1>1. /\ taken < Len(pending) /\ taken' = taken + 1 /\ Len(pending) \in Nat /\ taken \in Nat
      /\ reads' = [i \in DOMAIN reads |-> IF reads[i].ahead > 0
                     THEN [reads[i] EXCEPT !.ahead = @ - 1] ELSE reads[i]]
      /\ UNCHANGED <<pending, events, values, dated>>
  BY QueueFacts DEF Take, model
<1>2. /\ values = Blank
      /\ \A i \in DOMAIN events : events[i].window = Gone
      /\ \A i \in DOMAIN reads : reads[i].window # Gone => Len(pending) <= taken + reads[i].ahead
  BY <1>1 DEF LoginReadsLast
<1>3. ASSUME NEW i \in DOMAIN reads', reads'[i].window # Gone
      PROVE  Len(pending') <= taken' + reads'[i].ahead
  <2>1. i \in DOMAIN reads /\ reads[i] \in [window : Asker, ahead : Nat]
    BY <1>1, ScreensType DEF Typed, Asked
  <2>2. CASE reads[i].ahead > 0
    <3>1. reads'[i] = [reads[i] EXCEPT !.ahead = reads[i].ahead - 1]
      BY <1>1, <2>1, <2>2
    <3>2. reads'[i].window = reads[i].window /\ reads'[i].ahead = reads[i].ahead - 1
      BY <2>1, <3>1
    <3>3. Len(pending) <= taken + reads[i].ahead /\ reads[i].ahead \in Nat
      BY <1>2, <1>3, <2>1, <3>2
    <3> QED BY <1>1, <3>2, <3>3
  <2>3. CASE ~ (reads[i].ahead > 0)
    <3>1. reads'[i] = reads[i] /\ reads[i].ahead = 0
      BY <1>1, <2>1, <2>3
    <3>2. Len(pending) <= taken + 0
      BY <1>2, <1>3, <2>1, <3>1
    <3> QED BY <1>1, <3>2
  <2> QED BY <2>2, <2>3
<1>4. values' = Blank /\ \A i \in DOMAIN events' : events'[i].window = Gone
  BY <1>1, <1>2
<1> QED BY <1>3, <1>4 DEF LoginReadsLast

\* The oldest write leaves the queue.
LEMMA LastLeave ==
  ASSUME Typed, LoginReadsLast, taken > 0, taken' = taken - 1, pending' = Tail(pending),
         UNCHANGED <<bars, loaded, reads, events, values, dated>>
  PROVE  LoginReadsLast'
<1> SUFFICES ASSUME Untouched PROVE LoginReadsLast'
  BY DEF LoginReadsLast, Untouched
<1>1. /\ Len(pending) \in Nat /\ taken \in Nat /\ taken <= Len(pending)
      /\ pending \in Seq(Write)
  BY QueueFacts
<1>2. pending # <<>>
  BY <1>1, EmptySeq
<1>3. Len(pending') = Len(pending) - 1
  BY <1>1, <1>2, QueueType
<1>4. ASSUME NEW i \in DOMAIN reads', reads'[i].window # Gone
      PROVE  Len(pending') <= taken' + reads'[i].ahead
  <2>1. reads[i] \in [window : Asker, ahead : Nat]
    BY ScreensType DEF Typed, Asked
  <2>2. Len(pending) <= taken + reads[i].ahead /\ reads[i].ahead \in Nat
    BY <1>4, <2>1 DEF LoginReadsLast
  <2> QED BY <1>1, <1>3, <2>2
<1>5. ASSUME NEW i \in DOMAIN events', events'[i].window # Gone
      PROVE  taken' = Len(pending') /\ events'[i].old = {}
  BY <1>1, <1>3, <1>5 DEF LoginReadsLast
<1>6. values' # Blank => taken' = Len(pending') /\ dated' = {}
  BY <1>1, <1>3 DEF LoginReadsLast
<1> QED BY <1>4, <1>5, <1>6 DEF LoginReadsLast

\* A read is asked, by the login chain, the Info window or a timer.
LEMMA LastAsk ==
  ASSUME Typed, LoginReadsLast, NEW w, Ask(w),
         UNCHANGED <<bars, pending, taken, events, values, dated>>,
         "manual" \in loaded => "manual" \in loaded'
  PROVE  LoginReadsLast'
<1> SUFFICES ASSUME Untouched PROVE LoginReadsLast'
  BY DEF LoginReadsLast, Untouched
<1> DEFINE r == [window |-> w, ahead |-> Len(pending) - taken]
<1>1. reads \in Seq(Asked \cup {r})
  <2>1. reads \in Seq(Asked) /\ Asked \subseteq Asked \cup {r}
    BY ScreensType DEF Typed
  <2> HIDE DEF r
  <2> QED BY <2>1, SeqMonotonic
<1>2. /\ reads' = Append(reads, r) /\ Len(reads) \in Nat /\ DOMAIN reads = 1 .. Len(reads)
      /\ DOMAIN reads' = 1 .. Len(reads) + 1 /\ reads'[Len(reads) + 1] = r
      /\ \A i \in 1 .. Len(reads) : reads'[i] = reads[i]
  <2>1. reads' = Append(reads, r)
    BY DEF Ask
  <2> HIDE DEF r
  <2> QED BY <1>1, <2>1, AppendProperties, LenProperties
<1>3. r.ahead = Len(pending) - taken /\ Len(pending) \in Nat /\ taken \in Nat
  BY QueueFacts
<1> HIDE DEF r
<1>4. ASSUME NEW i \in DOMAIN reads', reads'[i].window # Gone
      PROVE  Len(pending') <= taken' + reads'[i].ahead
  <2>1. CASE i = Len(reads) + 1
    BY <1>2, <1>3, <2>1
  <2>2. CASE i # Len(reads) + 1
    <3>1. i \in DOMAIN reads /\ reads'[i] = reads[i]
      BY <1>2, <2>2
    <3> QED BY <1>4, <3>1 DEF LoginReadsLast
  <2> QED BY <2>1, <2>2
<1> QED BY <1>4 DEF LoginReadsLast

\* A read's turn comes.
LEMMA LastServe ==
  ASSUME Typed, LoginReadsLast, Served,
         UNCHANGED <<bars, loaded, pending, taken, values, dated>>,
         events' = events \/ events' = Append(events,
           [window |-> Head(reads).window, snap |-> Held, old |-> {c \in Control : Untaken(c)}])
  PROVE  LoginReadsLast'
<1> SUFFICES ASSUME Untouched PROVE LoginReadsLast'
  BY DEF LoginReadsLast, Untouched
<1> DEFINE e == [window |-> Head(reads).window, snap |-> Held,
                 old |-> {c \in Control : Untaken(c)}]
<1>1. /\ Len(reads) \in Nat /\ Len(reads) > 0 /\ DOMAIN reads = 1 .. Len(reads)
      /\ Head(reads) = reads[1] /\ reads' = Tail(reads)
      /\ DOMAIN reads' = 1 .. Len(reads) - 1
      /\ \A i \in 1 .. Len(reads) - 1 : reads'[i] = reads[i + 1]
  <2>1. reads \in Seq(Asked) /\ reads # <<>> /\ reads' = Tail(reads)
    BY ScreensType DEF Typed, Served
  <2>2. Tail(reads) \in Seq(Asked) /\ Len(Tail(reads)) = Len(reads) - 1
    BY <2>1, QueueType
  <2> QED BY <2>1, <2>2, QueueType
<1>2. ASSUME NEW i \in DOMAIN reads', reads'[i].window # Gone
      PROVE  Len(pending') <= taken' + reads'[i].ahead
  <2>1. i + 1 \in DOMAIN reads /\ reads'[i] = reads[i + 1]
    BY <1>1
  <2> QED BY <1>2, <2>1 DEF LoginReadsLast
<1>3. e.window # Gone => taken = Len(pending) /\ e.old = {}
  <2> SUFFICES ASSUME reads[1].window # Gone
               PROVE  taken = Len(pending) /\ \A c \in Control : ~ Untaken(c)
    BY <1>1
  <2>1. reads[1].ahead = 0 /\ 1 \in DOMAIN reads
    BY <1>1 DEF Served
  <2>2. Len(pending) <= taken + 0 /\ taken <= Len(pending) /\ taken \in Nat
        /\ Len(pending) \in Nat /\ DOMAIN pending = 1 .. Len(pending)
    BY <2>1, QueueFacts DEF LoginReadsLast
  <2>3. taken = Len(pending)
    <3>1. \A a, b \in Nat : a <= b + 0 /\ b <= a => b = a
      OBVIOUS
    <3> QED BY <2>2, <3>1, Zenon
  <2> QED BY <2>2, <2>3 DEF Untaken
<1>4. ASSUME NEW i \in DOMAIN events', events'[i].window # Gone
      PROVE  taken' = Len(pending') /\ events'[i].old = {}
  <2>1. CASE events' = events
    BY <1>4, <2>1 DEF LoginReadsLast
  <2>2. CASE events' = Append(events, e)
    <3>1. events \in Seq(Answered \cup {e})
      <4>1. events \in Seq(Answered) /\ Answered \subseteq Answered \cup {e}
        BY ScreensType DEF Typed
      <4> HIDE DEF e
      <4> QED BY <4>1, SeqMonotonic
    <3> HIDE DEF e
    <3>2. /\ Len(events) \in Nat /\ DOMAIN events = 1 .. Len(events)
          /\ DOMAIN events' = 1 .. Len(events) + 1 /\ events'[Len(events) + 1] = e
          /\ \A j \in 1 .. Len(events) : events'[j] = events[j]
      BY <2>2, <3>1, AppendProperties, LenProperties
    <3>3. CASE i = Len(events) + 1
      BY <1>3, <1>4, <3>2, <3>3
    <3>4. CASE i # Len(events) + 1
      <4>1. i \in DOMAIN events /\ events'[i] = events[i]
        BY <3>2, <3>4
      <4> QED BY <1>4, <4>1 DEF LoginReadsLast
    <3> QED BY <3>3, <3>4
  <2> QED BY <2>1, <2>2 DEF e
<1>5. values' # Blank => taken' = Len(pending') /\ dated' = {}
  BY DEF LoginReadsLast
<1> QED BY <1>2, <1>4, <1>5 DEF LoginReadsLast

\* An answer reaches its asker.
LEMMA LastDeliver ==
  ASSUME Typed, LoginReadsLast, Deliver
  PROVE  LoginReadsLast'
<1> DEFINE e == events[1]
<1>1. /\ Len(events) \in Nat /\ Len(events) > 0 /\ DOMAIN events = 1 .. Len(events)
      /\ Head(events) = e
      /\ Len(Tail(events)) = Len(events) - 1 /\ DOMAIN Tail(events) = 1 .. Len(Tail(events))
      /\ \A i \in 1 .. Len(events) - 1 : Tail(events)[i] = events[i + 1]
  BY ScreensType, QueueType DEF Typed, Deliver
<1>2. /\ IF e.window = Gone THEN values' = values /\ dated' = dated
                            ELSE values' = e.snap /\ dated' = e.old
      /\ events' = Tail(events) /\ UNCHANGED <<bars, loaded, reads, pending, taken>>
  BY <1>1 DEF Deliver, model, queue
<1> SUFFICES ASSUME Untouched PROVE LoginReadsLast'
  BY <1>2 DEF LoginReadsLast, Untouched
<1>3. e.window # Gone => taken = Len(pending) /\ e.old = {}
  BY <1>1 DEF LoginReadsLast
<1> HIDE DEF e
<1>4. ASSUME NEW i \in DOMAIN events', events'[i].window # Gone
      PROVE  taken' = Len(pending') /\ events'[i].old = {}
  <2>1. i + 1 \in DOMAIN events /\ events'[i] = events[i + 1]
    BY <1>1, <1>2
  <2> QED BY <1>2, <1>4, <2>1 DEF LoginReadsLast
<1>5. values' # Blank => taken' = Len(pending') /\ dated' = {}
  BY <1>2, <1>3 DEF LoginReadsLast
<1>6. \A i \in DOMAIN reads' :
        reads'[i].window # Gone => Len(pending') <= taken' + reads'[i].ahead
  BY <1>2 DEF LoginReadsLast
<1> QED BY <1>4, <1>5, <1>6 DEF LoginReadsLast

\* A tab bar goes up, or the windows go: reads and answers change hands.
LEMMA LastScreens ==
  ASSUME Typed, LoginReadsLast,
         Logout \/ \E early \in BOOLEAN : SetupTabBar(early)
  PROVE  LoginReadsLast'
<1>1. /\ \A i \in DOMAIN reads : reads[i] \in [window : Asker, ahead : Nat]
      /\ \A i \in DOMAIN events : events[i] \in [window : Asker, snap : Snapshot,
                                                 old : SUBSET Control]
      /\ Gone \notin Window /\ Gone # Covered
  BY ScreensType DEF Typed, Asked, Answered
<1>2. CASE Logout
  <2>1. /\ values' = Blank /\ DOMAIN reads' = DOMAIN reads /\ DOMAIN events' = DOMAIN events
        /\ \A i \in DOMAIN reads : reads'[i].window = Gone
        /\ \A i \in DOMAIN events : events'[i].window = Gone
    BY <1>1, <1>2 DEF Logout, NoScreen
  <2> QED BY <2>1 DEF LoginReadsLast
<1>3. ASSUME NEW early \in BOOLEAN, SetupTabBar(early) PROVE LoginReadsLast'
  <2> SUFFICES ASSUME Untouched' PROVE LoginReadsLast'
    BY DEF LoginReadsLast
  <2>1. Untouched
    BY <1>3 DEF SetupTabBar, Untouched, Typed, TypeOK
  <2>2. UNCHANGED <<pending, taken, values, dated>>
    BY <1>3 DEF SetupTabBar, queue, model
  <2>3. DOMAIN reads' = DOMAIN reads /\ \A i \in DOMAIN reads :
          reads'[i].ahead = reads[i].ahead /\ (reads'[i].window = Gone <=> reads[i].window = Gone)
    <3> SUFFICES ASSUME NEW i \in DOMAIN reads
                 PROVE  /\ reads'[i].ahead = reads[i].ahead
                        /\ reads'[i].window = Gone <=> reads[i].window = Gone
      BY <1>3 DEF SetupTabBar
    <3>1. reads'[i] = IF reads[i].window \in Window
                        THEN [reads[i] EXCEPT !.window = Covered] ELSE reads[i]
      BY <1>3 DEF SetupTabBar
    <3> QED BY <1>1, <3>1
  <2>4. DOMAIN events' = DOMAIN events /\ \A i \in DOMAIN events :
          events'[i].old = events[i].old /\ (events'[i].window = Gone <=> events[i].window = Gone)
    <3> SUFFICES ASSUME NEW i \in DOMAIN events
                 PROVE  /\ events'[i].old = events[i].old
                        /\ events'[i].window = Gone <=> events[i].window = Gone
      BY <1>3 DEF SetupTabBar
    <3>1. events'[i] = IF events[i].window \in Window
                         THEN [events[i] EXCEPT !.window = Covered] ELSE events[i]
      BY <1>3 DEF SetupTabBar
    <3> QED BY <1>1, <3>1
  <2> QED BY <2>1, <2>2, <2>3, <2>4 DEF LoginReadsLast
<1> QED BY <1>2, <1>3

LEMMA LastStep ==
  ASSUME FarmInv, [Next]_vars
  PROVE  LoginReadsLast'
<1>1. Typed /\ LoginReadsLast
  BY DEF FarmInv, ChoiceInv
<1>2. ASSUME UNCHANGED <<bars, loaded, pending, taken, reads, events, values, dated>>
      PROVE  LoginReadsLast'
  BY <1>1, <1>2 DEF LoginReadsLast, Untouched
<1>3. CASE Logout \/ \E early \in BOOLEAN : SetupTabBar(early)
  BY <1>1, <1>3, LastScreens
<1>4. CASE Kill
  BY <1>4 DEF Kill, NoScreen, LoginReadsLast
<1>5. CASE Launch \/ ChainEnds \/ ShowAutomation
  BY <1>2, <1>5 DEF Launch, ChainEnds, ShowAutomation, queue, model, screen, login
<1>6. ASSUME LoginRead \/ ShowInfo \/ Tick \/ TickGone PROVE LoginReadsLast'
  <2>1. /\ \E w : Ask(w)
        /\ UNCHANGED <<bars, pending, taken, events, values, dated>>
        /\ "manual" \in loaded => "manual" \in loaded'
    BY <1>6 DEF LoginRead, ShowInfo, Tick, TickGone, login, queue, model, screen
  <2> QED BY <1>1, <2>1, LastAsk
<1>7. CASE ShowManual
  <2>1. ~ Untouched'
    BY <1>1, <1>7 DEF ShowManual, login, Untouched, Typed, TypeOK
  <2> QED BY <2>1 DEF LoginReadsLast
<1>8. CASE (\E c \in Control : Toggle(c)) \/ (\E c \in Command : PressReset(c))
  <2>1. tab = "manual" /\ bars' = bars /\ loaded' = loaded
    BY <1>8 DEF Toggle, PressReset, login, screen
  <2>2. ~ Untouched'
    BY <1>1, <2>1 DEF Untouched, Typed, TypeOK, LoadedBehindTabBar
  <2> QED BY <2>2 DEF LoginReadsLast
<1>9. CASE Take
  BY <1>1, <1>9, LastTake
<1>10. CASE Apply \/ Reconnect
  BY <1>2, <1>10 DEF Apply, Reconnect, login, screen, model
<1>11. CASE Ack \/ Refuse
  <2>1. /\ taken > 0 /\ taken' = taken - 1 /\ pending' = Tail(pending)
        /\ UNCHANGED <<bars, loaded, reads, events, values, dated>>
    BY <1>1, <1>11, QueueFacts DEF Ack, Refuse, login, screen, model
  <2> QED BY <1>1, <2>1, LastLeave
<1>12. ASSUME Answer \/ Cancel PROVE LoginReadsLast'
  <2>1. /\ Served /\ UNCHANGED <<bars, loaded, pending, taken, values, dated>>
        /\ \/ events' = events
           \/ events' = Append(events, [window |-> Head(reads).window, snap |-> Held,
                                        old |-> {c \in Control : Untaken(c)}])
    BY <1>12 DEF Answer, Cancel, login, screen, model, queue
  <2> QED BY <1>1, <2>1, LastServe
<1>13. CASE Deliver
  BY <1>1, <1>13, LastDeliver
<1>14. ASSUME NEW k, NEW v, OtherWrite(k, v) PROVE LoginReadsLast'
  BY <1>2, <1>14 DEF OtherWrite, login, queue, model, screen
<1>15. CASE UNCHANGED vars
  BY <1>2, <1>15 DEF vars, login, queue, model, screen
<1> QED
  BY <1>3, <1>4, <1>5, <1>6, <1>7, <1>8, <1>9, <1>10, <1>11, <1>12, <1>13, <1>14, <1>15
  DEF Next, Logins, Windows, Store, Others

-----------------------------------------------------------------------------
(***************************************************************************)
(* The theorems.                                                           *)
(***************************************************************************)
LEMMA FarmInit == Init => FarmInv
<1> SUFFICES ASSUME Init PROVE FarmInv
  OBVIOUS
<1>1. Typed
  BY TypeInit
<1>2. \A c \in Choice : goal[c] = NoGoal
  BY DEF Init
<1>3. LastChoiceWins /\ AppliedChoice /\ ManualHonest /\ AnswersAgree /\ ValuesAgree
  BY <1>2, Keys DEF LastChoiceWins, AppliedChoice, ManualHonest, AnswersAgree, ValuesAgree
<1>4. LoginReadsLast
  BY DEF Init, LoginReadsLast
<1> QED BY <1>1, <1>3, <1>4 DEF FarmInv, ChoiceInv

LEMMA FarmStep == FarmInv /\ [Next]_vars => FarmInv'
<1> SUFFICES ASSUME FarmInv, [Next]_vars PROVE FarmInv'
  OBVIOUS
<1>1. Typed'
  BY TypeStep DEF FarmInv
<1>2. ManualHonest' /\ AnswersAgree' /\ ValuesAgree'
  BY HonestStep DEF Honest, ManualHonest, AnswersAgree, ValuesAgree
<1> QED BY <1>1, <1>2, FollowsStep, LastStep DEF FarmInv, ChoiceInv

\* The inductive invariant behind the theorems that follow.
THEOREM FarmCorrect == Spec => []FarmInv
BY FarmInit, FarmStep, PTL DEF Spec

\* The queue always yields the user's last choice of every control.
THEOREM LastChoiceHolds == Spec => []LastChoiceWins
<1>1. FarmInv => LastChoiceWins
  BY DEF FarmInv, ChoiceInv
<1> QED BY <1>1, FarmCorrect, PTL

\* A switch shows what was chosen with it, also when the answers under way were
\* computed before or after the client had the choice, unless what it shows was
\* computed before.
THEOREM ManualIsHonest == Spec => []ManualHonest
<1>1. FarmInv => ManualHonest
  BY DEF FarmInv, ChoiceInv
<1> QED BY <1>1, FarmCorrect, PTL

\* The first Manual window of a login starts from every choice made before the
\* login, whatever part of the queue the client and the server have seen.
THEOREM LoginStartsFromChoices == Spec => []LoginShowsChoices
<1>1. FarmInv => LoginShowsChoices
  <2> SUFFICES ASSUME FarmInv, NEW c \in Control, Untouched, values # Blank, goal[c] # NoGoal
               PROVE  values[Equipment(c)] = goal[c]
    BY DEF LoginShowsChoices
  <2>1. dated = {}
    BY DEF FarmInv, ChoiceInv, LoginReadsLast
  <2> QED BY <2>1 DEF FarmInv, ChoiceInv, ValuesAgree
<1> QED BY <1>1, FarmCorrect, PTL

-----------------------------------------------------------------------------
(***************************************************************************)
(* The window keeps the panel's promise.                                   *)
(***************************************************************************)
Farm  == [c \in Choice |-> root[Equipment(c)]]
Quiet == [c \in Choice |-> Settled(c)]

\* Truth-valued functions that agree everywhere are the same.
LEMMA SameTruth ==
  ASSUME NEW S, NEW f \in [S -> BOOLEAN], NEW g \in [S -> BOOLEAN],
         \A d \in S : f[d] <=> g[d]
  PROVE  f = g
<1>1. \A d \in S : f[d] = g[d]
  <2> SUFFICES ASSUME NEW d \in S PROVE f[d] = g[d]
    OBVIOUS
  <2>1. f[d] \in BOOLEAN /\ g[d] \in BOOLEAN /\ (f[d] <=> g[d])
    OBVIOUS
  <2> QED BY <2>1
<1> QED BY <1>1

\* The panel's view of the queue, before and after a step that changes it for
\* one control at most.
LEMMA QuietStep ==
  ASSUME NEW c \in Choice, NEW b \in BOOLEAN, Settled(c)' <=> b,
         \A d \in Choice : d # c => (Settled(d)' <=> Settled(d))
  PROVE  Quiet' = [Quiet EXCEPT ![c] = b]
<1>1. \A d \in Choice : Settled(d) \in BOOLEAN /\ Settled(d)' \in BOOLEAN
  BY DEF Settled
<1>2. /\ Quiet \in [Choice -> BOOLEAN] /\ Quiet' \in [Choice -> BOOLEAN]
      /\ [Quiet EXCEPT ![c] = b] \in [Choice -> BOOLEAN]
  BY <1>1 DEF Quiet
<1>3. ASSUME NEW d \in Choice PROVE Quiet'[d] <=> [Quiet EXCEPT ![c] = b][d]
  <2>1. Quiet'[d] = Settled(d)' /\ Quiet[d] = Settled(d)
    BY DEF Quiet
  <2>2. [Quiet EXCEPT ![c] = b][d] = IF d = c THEN b ELSE Quiet[d]
    BY <1>2
  <2>3. CASE d = c
    BY <2>1, <2>2, <2>3, Zenon
  <2>4. CASE d # c
    BY <2>1, <2>2, <2>4, Zenon
  <2> QED BY <2>3, <2>4
<1> QED BY <1>2, <1>3, SameTruth

LEMMA QuietSame ==
  ASSUME \A d \in Choice : Settled(d)' <=> Settled(d)
  PROVE  Quiet' = Quiet
<1>1. \A d \in Choice : Settled(d) \in BOOLEAN /\ Settled(d)' \in BOOLEAN
  BY DEF Settled
<1>2. Quiet \in [Choice -> BOOLEAN] /\ Quiet' \in [Choice -> BOOLEAN]
  BY <1>1 DEF Quiet
<1>3. ASSUME NEW d \in Choice PROVE Quiet'[d] <=> Quiet[d]
  <2>1. Quiet'[d] = Settled(d)' /\ Quiet[d] = Settled(d)
    BY DEF Quiet
  <2> QED BY <2>1, Zenon
<1> QED BY <1>2, <1>3, SameTruth

\* A step that moves no write and no choice is a stutter of the panel.
LEMMA PanelIdle ==
  ASSUME Farm' = Farm, Quiet' = Quiet, goal' = goal
  PROVE  UNCHANGED Panel!vars
BY DEF Panel!vars, Farm, Quiet

\* A choice joins the queue.
LEMMA PanelChoose ==
  ASSUME Typed, NEW c \in Choice, NEW v \in Bit, root' = root,
         pending' = Append(pending, [k \in {Equipment(c)} |-> v]),
         goal' = [goal EXCEPT ![c] = v]
  PROVE  Panel!Next
<1> DEFINE w == [k \in {Equipment(c)} |-> v]
<1>1. pending \in Seq(Write) /\ w \in Write
  <2>1. w \in Write
    BY WriteSets, Zenon
  <2> QED BY <2>1, QueueFacts
<1>2. /\ DOMAIN pending = 1 .. Len(pending) /\ Len(pending) \in Nat
      /\ DOMAIN pending' = 1 .. Len(pending) + 1 /\ pending'[Len(pending) + 1] = w
      /\ \A i \in 1 .. Len(pending) : pending'[i] = pending[i]
  <2> HIDE DEF w
  <2> QED BY <1>1, AppendProperties, LenProperties DEF w
<1>3. ~ Settled(c)'
  BY <1>2 DEF Settled
<1>4. ASSUME NEW d \in Choice, d # c PROVE Settled(d)' <=> Settled(d)
  <2>1. Equipment(d) \notin DOMAIN w
    BY <1>4, Keys
  <2> HIDE DEF w
  <2> QED BY <1>2, <2>1 DEF Settled
<1>5. Quiet' = [Quiet EXCEPT ![c] = FALSE]
  BY <1>3, <1>4, QuietStep
<1>6. Panel!Choose(c, v)
  BY <1>5, Zenon DEF Panel!Choose, Farm, Quiet
<1> QED BY <1>6, Zenon DEF Panel!Next

\* The server applies a write: its equipment wavers.
LEMMA PanelApply ==
  ASSUME Typed, Apply
  PROVE  Panel!Next
<1> DEFINE w == pending[sent + 1]
<1>1. /\ pending \in Seq(Write) /\ sent + 1 \in DOMAIN pending /\ root \in Snapshot
      /\ root' = Written(root, w) /\ UNCHANGED <<pending, goal>>
  BY QueueFacts DEF Typed, TypeOK, Apply
<1>2. w \in Write
  BY <1>1, QueueType
<1>3. PICK c \in Choice : DOMAIN w = {Equipment(c)} /\ w[Equipment(c)] \in Bit
  BY <1>2, WriteSets
<1>4. ~ Settled(c)
  BY <1>1, <1>3 DEF Settled
<1>5. ASSUME NEW d \in Choice
      PROVE  root'[Equipment(d)] = IF d = c THEN w[Equipment(c)] ELSE root[Equipment(d)]
  <2>1. Equipment(d) \in DOMAIN root /\ (Equipment(d) = Equipment(c) <=> d = c)
    BY <1>1, SnapshotHas, Keys
  <2> HIDE DEF w
  <2> QED BY <1>1, <1>3, <2>1 DEF Written
<1> HIDE DEF w
<1>6. Farm' = [Farm EXCEPT ![c] = w[Equipment(c)]]
  BY <1>5 DEF Farm
<1>7. Quiet' = Quiet
  BY <1>1 DEF Quiet, Settled
<1>8. Panel!Waver(c, w[Equipment(c)])
  BY <1>1, <1>4, <1>6, <1>7, Zenon DEF Panel!Waver, Farm, Quiet
<1> QED BY <1>3, <1>8 DEF Panel!Next

\* The oldest write is acknowledged: the last one for its equipment is done.
LEMMA PanelAck ==
  ASSUME FarmInv, FarmInv', Ack
  PROVE  Panel!Next \/ UNCHANGED Panel!vars
<1>1. /\ pending \in Seq(Write) /\ pending # <<>> /\ pending' = Tail(pending)
      /\ root' = root /\ goal' = goal /\ root' \in Snapshot
  BY QueueFacts, EmptySeq DEF FarmInv, Typed, TypeOK, Ack
<1>2. /\ DOMAIN pending = 1 .. Len(pending) /\ Len(pending) \in Nat /\ Len(pending) > 0
      /\ DOMAIN pending' = 1 .. Len(pending) - 1 /\ pending[1] \in Write
      /\ \A i \in 1 .. Len(pending) - 1 : pending'[i] = pending[i + 1]
  <2>1. DOMAIN Tail(pending) = 1 .. Len(Tail(pending))
    BY <1>1, QueueType
  <2> QED BY <1>1, <2>1, QueueType
<1>3. PICK c \in Choice : DOMAIN pending[1] = {Equipment(c)}
  BY <1>2, WriteSets
<1>4. ~ Settled(c)
  BY <1>2, <1>3 DEF Settled
<1>5. ASSUME NEW d \in Choice, d # c \/ ~ Settled(c)' PROVE Settled(d)' <=> Settled(d)
  <2>1. CASE d = c
    BY <1>4, <1>5, <2>1
  <2>2. CASE d # c
    <3>1. Equipment(d) \notin DOMAIN pending[1]
      BY <1>3, <2>2, Keys
    <3>2. ASSUME Settled(d)', NEW i \in DOMAIN pending PROVE Equipment(d) \notin DOMAIN pending[i]
      <4>1. CASE i = 1
        BY <3>1, <4>1
      <4>2. CASE i # 1
        <5>1. i - 1 \in DOMAIN pending' /\ pending'[i - 1] = pending[i]
          BY <1>2, <4>2
        <5> QED BY <3>2, <5>1 DEF Settled
      <4> QED BY <4>1, <4>2
    <3>3. Settled(d) => Settled(d)'
      BY <1>2 DEF Settled
    <3> QED BY <3>2, <3>3 DEF Settled
  <2> QED BY <2>1, <2>2
<1>6. Farm' = Farm
  BY <1>1 DEF Farm
<1>7. CASE ~ Settled(c)'
  <2>1. Quiet' = Quiet
    BY <1>5, <1>7, QuietSame
  <2> QED BY <1>1, <1>6, <2>1, PanelIdle
<1>8. CASE Settled(c)'
  <2>1. Quiet' = [Quiet EXCEPT ![c] = TRUE]
    BY <1>5, <1>8, QuietStep
  <2>2. goal[c] # NoGoal => root[Equipment(c)] = goal[c]
    <3>1. \A i \in DOMAIN pending' : ~ IsLast(pending', Equipment(c), i)
      BY <1>8 DEF Settled, IsLast
    <3>2. Overlay(root', pending')[Equipment(c)] = root'[Equipment(c)]
      <4>1. Equipment(c) \in DOMAIN root'
        BY <1>1, SnapshotHas
      <4> QED BY <3>1, <4>1, OverlayNone
    <3>3. goal'[c] # NoGoal => Overlay(root', pending')[Equipment(c)] = goal'[c]
      BY DEF FarmInv, ChoiceInv, LastChoiceWins
    <3> QED BY <1>1, <3>2, <3>3
  <2>3. goal[c] # NoGoal => Farm[c] = goal[c]
    BY <2>2 DEF Farm
  <2>4. Panel!Settle(c)
    BY <1>1, <1>6, <2>1, <2>3, Zenon DEF Panel!Settle, Farm, Quiet
  <2> QED BY <2>4 DEF Panel!Next
<1> QED BY <1>7, <1>8

\* The oldest write is refused: the user's claim to its equipment ends.
LEMMA PanelRefuse ==
  ASSUME Typed, Refuse
  PROVE  Panel!Next
<1>1. /\ pending \in Seq(Write) /\ pending # <<>> /\ pending' = Tail(pending) /\ root' = root
      /\ goal \in [Choice -> Bit \cup {NoGoal}]
      /\ goal' = [d \in Choice |-> IF Equipment(d) \in DOMAIN pending[1] THEN NoGoal ELSE goal[d]]
  BY QueueFacts, EmptySeq DEF Typed, TypeOK, Refuse
<1>2. /\ DOMAIN pending = 1 .. Len(pending) /\ Len(pending) \in Nat /\ Len(pending) > 0
      /\ DOMAIN pending' = 1 .. Len(pending) - 1 /\ pending[1] \in Write
      /\ \A i \in 1 .. Len(pending) - 1 : pending'[i] = pending[i + 1]
  <2>1. DOMAIN Tail(pending) = 1 .. Len(Tail(pending))
    BY <1>1, QueueType
  <2> QED BY <1>1, <2>1, QueueType
<1>3. PICK c \in Choice : DOMAIN pending[1] = {Equipment(c)}
  BY <1>2, WriteSets
<1>4. ASSUME NEW d \in Choice, d # c PROVE Settled(d)' <=> Settled(d)
  <2>1. Equipment(d) \notin DOMAIN pending[1]
    BY <1>3, <1>4, Keys
  <2>2. ASSUME Settled(d)', NEW i \in DOMAIN pending PROVE Equipment(d) \notin DOMAIN pending[i]
    <3>1. CASE i = 1
      BY <2>1, <3>1
    <3>2. CASE i # 1
      <4>1. i - 1 \in DOMAIN pending' /\ pending'[i - 1] = pending[i]
        BY <1>2, <3>2
      <4> QED BY <2>2, <4>1 DEF Settled
    <3> QED BY <3>1, <3>2
  <2>3. Settled(d) => Settled(d)'
    BY <1>2 DEF Settled
  <2> QED BY <2>2, <2>3 DEF Settled
<1>5. PICK b \in BOOLEAN : Settled(c)' <=> b
  OBVIOUS
<1>6. Quiet' = [Quiet EXCEPT ![c] = b]
  BY <1>4, <1>5, QuietStep
<1>7. goal' = [goal EXCEPT ![c] = NoGoal]
  BY <1>1, <1>3, Keys
<1>8. Farm' = Farm
  BY <1>1 DEF Farm
<1>9. Panel!GiveUp(c, b)
  BY <1>6, <1>7, <1>8, Zenon DEF Panel!GiveUp, Farm, Quiet
<1> QED BY <1>9 DEF Panel!Next

\* Somebody else sets a key, one of the panel's or another.
LEMMA PanelOther ==
  ASSUME Typed, Others
  PROVE  Panel!Next \/ UNCHANGED Panel!vars
<1>1. PICK k, v : OtherWrite(k, v) /\ ((k \in ChoiceKey /\ v \in Bit) \/ k \in Field)
  BY DEF Others
<1>2. /\ root \in Snapshot /\ goal \in [Choice -> Bit \cup {NoGoal}]
      /\ root' = [root EXCEPT ![k] = v] /\ pending' = pending
      /\ goal' = [d \in Choice |-> IF Equipment(d) = k THEN NoGoal ELSE goal[d]]
  BY <1>1 DEF OtherWrite, Typed, TypeOK, queue
<1>3. Quiet' = Quiet
  BY <1>2 DEF Quiet, Settled
<1>4. ASSUME NEW d \in Choice
      PROVE  root'[Equipment(d)] = IF Equipment(d) = k THEN v ELSE root[Equipment(d)]
  BY <1>2, SnapshotHas
<1>5. CASE k \in Field
  <2>1. \A d \in Choice : Equipment(d) # k
    BY <1>5, Keys
  <2>2. Farm' = Farm
    BY <1>4, <2>1 DEF Farm
  <2>3. goal' = goal
    BY <1>2, <2>1
  <2> QED BY <1>3, <2>2, <2>3, PanelIdle
<1>6. CASE k \in ChoiceKey /\ v \in Bit
  <2>1. PICK c \in Choice : k = Equipment(c)
    BY <1>6, Keys
  <2>2. \A d \in Choice : Equipment(d) = k <=> d = c
    BY <2>1, Keys
  <2>3. Farm' = [Farm EXCEPT ![c] = v]
    BY <1>4, <2>2 DEF Farm
  <2>4. goal' = [goal EXCEPT ![c] = NoGoal]
    BY <1>2, <2>2
  <2>5. Panel!Challenge(c, v)
    BY <1>3, <2>3, <2>4, Zenon DEF Panel!Challenge, Farm, Quiet
  <2> QED BY <1>6, <2>5 DEF Panel!Next
<1> QED BY <1>1, <1>5, <1>6

\* The process ends with its queue.
LEMMA PanelKill ==
  ASSUME Kill
  PROVE  Panel!Next
<1>1. /\ root' = root /\ pending' = <<>> /\ goal' = [c \in Choice |-> NoGoal]
  BY DEF Kill
<1>2. \A d \in Choice : Settled(d)'
  BY <1>1 DEF Settled
<1>3. Quiet' = [c \in Choice |-> TRUE]
  <2>1. \A d \in Choice : Settled(d)' \in BOOLEAN
    BY DEF Settled
  <2>2. Quiet' \in [Choice -> BOOLEAN] /\ [c \in Choice |-> TRUE] \in [Choice -> BOOLEAN]
    BY <2>1 DEF Quiet
  <2>3. ASSUME NEW d \in Choice PROVE Quiet'[d] <=> [c \in Choice |-> TRUE][d]
    <3>1. Quiet'[d] = Settled(d)' /\ [c \in Choice |-> TRUE][d] = TRUE
      BY DEF Quiet
    <3> QED BY <1>2, <3>1, Zenon
  <2> QED BY <2>2, <2>3, SameTruth
<1>4. Farm' = Farm
  BY <1>1 DEF Farm
<1>5. Panel!Restart
  BY <1>1, <1>3, <1>4, Zenon DEF Panel!Restart, Farm, Quiet
<1> QED BY <1>5 DEF Panel!Next

LEMMA PanelInit == Init => Panel!Init
<1> SUFFICES ASSUME Init PROVE Panel!Init
  OBVIOUS
<1>1. root \in Snapshot /\ pending = <<>> /\ goal = [c \in Choice |-> NoGoal]
  BY DEF Init
<1>2. Farm \in [Choice -> Bit]
  BY <1>1, SnapshotHas DEF Farm
<1>3. Quiet = [c \in Choice |-> TRUE]
  <2>1. \A d \in Choice : Settled(d) /\ Settled(d) \in BOOLEAN
    BY <1>1 DEF Settled
  <2>2. Quiet \in [Choice -> BOOLEAN] /\ [c \in Choice |-> TRUE] \in [Choice -> BOOLEAN]
    BY <2>1 DEF Quiet
  <2>3. ASSUME NEW d \in Choice PROVE Quiet[d] <=> [c \in Choice |-> TRUE][d]
    <3>1. Quiet[d] = Settled(d) /\ [c \in Choice |-> TRUE][d] = TRUE
      BY DEF Quiet
    <3> QED BY <2>1, <3>1, Zenon
  <2> QED BY <2>2, <2>3, SameTruth
<1> QED BY <1>1, <1>2, <1>3, Zenon DEF Panel!Init, Farm, Quiet

LEMMA PanelStep == FarmInv /\ FarmInv' /\ [Next]_vars => [Panel!Next]_(Panel!vars)
<1> SUFFICES ASSUME FarmInv, FarmInv', [Next]_vars
             PROVE  Panel!Next \/ UNCHANGED Panel!vars
  OBVIOUS
<1>1. Typed
  BY DEF FarmInv
<1>2. ASSUME root' = root, pending' = pending, goal' = goal
      PROVE  Panel!Next \/ UNCHANGED Panel!vars
  <2>1. Farm' = Farm /\ Quiet' = Quiet
    BY <1>2 DEF Farm, Quiet, Settled
  <2> QED BY <1>2, <2>1, PanelIdle
<1>3. CASE Launch \/ LoginRead \/ ChainEnds
            \/ (\E early \in BOOLEAN : SetupTabBar(early)) \/ Logout
  BY <1>2, <1>3 DEF Launch, LoginRead, ChainEnds, SetupTabBar, Logout, queue
<1>4. CASE Kill
  BY <1>4, PanelKill
<1>5. CASE ShowInfo \/ ShowManual \/ ShowAutomation \/ Tick \/ TickGone
  BY <1>2, <1>5 DEF ShowInfo, ShowManual, ShowAutomation, Tick, TickGone, queue
<1>6. ASSUME NEW c \in Control, Toggle(c) PROVE Panel!Next
  <2>1. c \in Choice /\ KeyWritten(c) = Equipment(c) /\ on \in [Control -> Bit]
    BY <1>1, Keys DEF Typed, TypeOK
  <2>2. 1 - on[c] \in Bit
    BY <2>1 DEF Bit
  <2> QED BY <1>1, <1>6, <2>1, <2>2, PanelChoose DEF Toggle
<1>7. ASSUME NEW c \in Command, PressReset(c) PROVE Panel!Next
  <2>1. c \in Choice /\ KeyWritten(c) = Equipment(c) /\ 1 \in Bit
    BY Keys DEF Choice, Bit
  <2> QED BY <1>1, <1>7, <2>1, PanelChoose DEF PressReset
<1>8. CASE Apply
  BY <1>1, <1>8, PanelApply
<1>9. CASE Ack
  BY <1>9, PanelAck
<1>10. CASE Refuse
  BY <1>1, <1>10, PanelRefuse
<1>11. CASE Take \/ Reconnect \/ Answer \/ Cancel \/ Deliver
  BY <1>2, <1>11 DEF Take, Reconnect, Answer, Cancel, Deliver, queue
<1>12. CASE Others
  BY <1>1, <1>12, PanelOther
<1>13. CASE UNCHANGED vars
  BY <1>2, <1>13 DEF vars, queue
<1> QED
  BY <1>3, <1>4, <1>5, <1>6, <1>7, <1>8, <1>9, <1>10, <1>11, <1>12, <1>13
  DEF Next, Logins, Windows, Store

\* The windows over the client's queue implement the panel.
THEOREM PanelRefined == Spec => PanelSpec
<1>1. Init => Panel!Init
  BY PanelInit
<1>2. FarmInv /\ FarmInv' /\ [Next]_vars => [Panel!Next]_(Panel!vars)
  BY PanelStep
<1> QED BY <1>1, <1>2, FarmCorrect, PTL DEF Spec, PanelSpec, Panel!Spec

\* Equipment with no choice on its way does what was chosen for it.
PanelInv ==
  /\ DOMAIN goal = Choice
  /\ \A c \in Choice : Settled(c) /\ goal[c] # NoGoal => root[Equipment(c)] = goal[c]

\* What FarmPanel is worth: whoever keeps its promise (the Manual window does,
\* by PanelRefined) has the equipment do what the switches chose as soon as the
\* client's queue holds no write of the choice.
THEOREM PanelIsKept == PanelSpec => []PanelInv
<1> DEFINE does == [c \in Choice |-> root[Equipment(c)]]
           calm == [c \in Choice |-> Settled(c)]
<1>1. Panel!Init => PanelInv
  <2> SUFFICES ASSUME Panel!Init PROVE PanelInv
    OBVIOUS
  <2>1. goal = [c \in Choice |-> NoGoal]
    BY Zenon DEF Panel!Init
  <2> QED BY <2>1 DEF PanelInv
<1>2. PanelInv /\ [Panel!Next]_(Panel!vars) => PanelInv'
  <2> SUFFICES ASSUME PanelInv, [Panel!Next]_(Panel!vars) PROVE PanelInv'
    OBVIOUS
  <2>1. /\ DOMAIN does = Choice /\ DOMAIN goal = Choice /\ DOMAIN calm = Choice
        /\ \A c \in Choice : calm[c] /\ goal[c] # NoGoal => does[c] = goal[c]
    BY DEF PanelInv
  <2>2. SUFFICES /\ DOMAIN goal' = Choice
                 /\ \A c \in Choice : calm'[c] /\ goal'[c] # NoGoal => does'[c] = goal'[c]
    BY DEF PanelInv
  <2>3. ASSUME NEW c \in Choice, NEW v \in Bit, Panel!Choose(c, v)
        PROVE  /\ goal' = [goal EXCEPT ![c] = v] /\ calm' = [calm EXCEPT ![c] = FALSE]
               /\ does' = does
    BY <2>3, Zenon DEF Panel!Choose
  <2>4. ASSUME NEW c \in Choice, NEW v \in Bit, Panel!Waver(c, v)
        PROVE  /\ ~ calm[c] /\ does' = [does EXCEPT ![c] = v]
               /\ goal' = goal /\ calm' = calm
    BY <2>4, Zenon DEF Panel!Waver
  <2>5. ASSUME NEW c \in Choice, Panel!Settle(c)
        PROVE  /\ goal[c] # NoGoal => does[c] = goal[c]
               /\ calm' = [calm EXCEPT ![c] = TRUE]
               /\ does' = does /\ goal' = goal
    BY <2>5, Zenon DEF Panel!Settle
  <2>6. ASSUME NEW c \in Choice, NEW v \in Bit, Panel!Challenge(c, v)
        PROVE  /\ does' = [does EXCEPT ![c] = v] /\ goal' = [goal EXCEPT ![c] = NoGoal]
               /\ calm' = calm
    BY <2>6, Zenon DEF Panel!Challenge
  <2>7. ASSUME NEW c \in Choice, NEW s \in BOOLEAN, Panel!GiveUp(c, s)
        PROVE  /\ goal' = [goal EXCEPT ![c] = NoGoal] /\ calm' = [calm EXCEPT ![c] = s]
               /\ does' = does
    BY <2>7, Zenon DEF Panel!GiveUp
  <2>8. Panel!Restart => goal' = [c \in Choice |-> NoGoal]
    BY Zenon DEF Panel!Restart
  <2>9. UNCHANGED Panel!vars => does' = does /\ goal' = goal /\ calm' = calm
    BY Zenon DEF Panel!vars
  <2> HIDE DEF does, calm
  <2> DEFINE Kept == /\ DOMAIN goal' = Choice
                     /\ \A e \in Choice :
                          calm'[e] /\ goal'[e] # NoGoal => does'[e] = goal'[e]
  <2>10. CASE \E c \in Choice, v \in Bit :
                Panel!Choose(c, v) \/ Panel!Waver(c, v) \/ Panel!Challenge(c, v)
    <3>1. ASSUME NEW c \in Choice, NEW v \in Bit, Panel!Choose(c, v) PROVE Kept
      BY <2>1, <2>3, <3>1
    <3>2. ASSUME NEW c \in Choice, NEW v \in Bit, Panel!Waver(c, v) PROVE Kept
      BY <2>1, <2>4, <3>2
    <3>3. ASSUME NEW c \in Choice, NEW v \in Bit, Panel!Challenge(c, v) PROVE Kept
      BY <2>1, <2>6, <3>3
    <3> QED BY <2>10, <3>1, <3>2, <3>3
  <2>11. CASE \E c \in Choice : Panel!Settle(c) \/ \E s \in BOOLEAN : Panel!GiveUp(c, s)
    <3>1. ASSUME NEW c \in Choice, Panel!Settle(c)
          PROVE  Kept
      BY <2>1, <2>5, <3>1
    <3>2. ASSUME NEW c \in Choice, NEW s \in BOOLEAN, Panel!GiveUp(c, s)
          PROVE  Kept
      BY <2>1, <2>7, <3>2
    <3> QED BY <2>11, <3>1, <3>2
  <2>12. CASE Panel!Restart
    BY <2>8, <2>12
  <2>13. CASE UNCHANGED Panel!vars
    BY <2>1, <2>9, <2>13
  <2> QED BY <2>10, <2>11, <2>12, <2>13 DEF Panel!Next
<1> QED BY <1>1, <1>2, PTL DEF PanelSpec, Panel!Spec

=============================================================================
