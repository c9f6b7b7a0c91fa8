----------------------------- MODULE Automation -----------------------------
(***************************************************************************)
(* The Automation window (controlWindow_1) with the data model behind it   *)
(* and the Firebase client below: plant settings are created, deleted,     *)
(* selected from a drop-down and started on the farm.                      *)
(*                                                                         *)
(* Everything the window does runs on the main queue, so a handler is one  *)
(* step.  What a handler writes or asks of the database happens later: the *)
(* server applies and acknowledges the queued writes, answers the reads,   *)
(* and the answers come back through the main queue.  The process may be   *)
(* killed at any time (persistence is off: queued writes die with it), the *)
(* connection may drop, the server may refuse, other phones write too.     *)
(*                                                                         *)
(* Login pressed twice puts a second tab bar over the first one: a new     *)
(* window over the same data model, which the reads of the covered window  *)
(* still change.  A failed token fetch signs the user out by force and     *)
(* leaves the window where it is.                                          *)
(***************************************************************************)
EXTENDS Integers, Sequences, SequencesExt, FiniteSets, WriteQueue

CONSTANTS
  Plant,       \* plant names that are one legal database key
  Nested,      \* names that are a path of two keys, such as "basil/sweet"
  Parent,      \* the first key of such a path
  Whole,       \* {}, or the one name "/": the path of users/<uid> itself
  Operator,    \* plants whose name begins with @
  Digit,       \* plants called 0 or 1: a node with no other keys is an array
  BadName,     \* a name child() refuses: empty, or with one of . # $ [ ]
  Trait,       \* texts of the plant trait field
  NoTrait,     \* the empty text
  LastIx,      \* last index of each settings drop-down (24, 24 and 14)
  Null,        \* an absent plant entry; an unknown recipe
  MaxPending,  \* bound: unacknowledged writes
  MaxReads,    \* bound: plant reads asked and answers not yet handled
  MaxLogins,   \* bound: login chains that get as far as the plants' read
  CanExpire    \* whether token fetches may fail and sign the user out

Dropdown == {"timer", "sleep", "temp"}

Name == Plant \cup Nested \cup Whole

ASSUME NameAssumption ==
  /\ IsFiniteSet(Name)
  /\ Operator \subseteq Plant /\ Digit \subseteq Plant
  /\ Plant \cap Nested = {} /\ Plant \cap Whole = {} /\ Nested \cap Whole = {}
  /\ Parent \in [Nested -> Plant]
  /\ BadName \notin Name
  /\ Name \cap Dropdown = {}
  /\ NoTrait \in Trait

ASSUME IndexAssumption == LastIx \in [Dropdown -> Nat]

ASSUME BoundAssumption ==
  /\ MaxPending \in Nat /\ MaxReads \in Nat /\ MaxLogins \in Nat
  /\ CanExpire \in BOOLEAN

(***************************************************************************)
(* Drop-down indices and the minutes and degrees that are stored.          *)
(***************************************************************************)
Step(d) == IF d = "temp" THEN 20 ELSE 30
Base(d) == IF d = "temp" THEN 1 ELSE 0

Encode(d, ix) == (ix + Base(d)) * Step(d)
Decode(d, v)  == (v \div Step(d)) - Base(d)

Value(d) == {Encode(d, ix) : ix \in 0 .. LastIx[d]}

\* The four fields of one plant's node, and what the farm's three keys hold.
Recipe  == {r \in [Dropdown -> UNION {Value(d) : d \in Dropdown}] :
              \A d \in Dropdown : r[d] \in Value(d)}
Setting == [recipe : Recipe, trait : Trait]

ASSUME NullAssumption == Null \notin Setting /\ Null \notin Recipe

Entry == Setting \cup {Null}

\* The nodes of users/<uid> that a write to the name n replaces, and that
\* write: n's node gets the fields e, and whatever was inside it goes.
Inside(n) ==
  {k \in Name : k = n \/ n \in Whole \/ (k \in Nested /\ Parent[k] = n)}
Entered(n, e) == [k \in Inside(n) |-> IF k = n THEN e ELSE Null]

Write == {Entered(n, e) : n \in Name, e \in Entry}
           \cup UNION {[{d} -> Value(d)] : d \in Dropdown}

\* Who asked for the plants: the window on screen, a window under it, or a
\* login chain.
Reader == {"window", "covered", "chain"}
Plants == [Name -> Entry]

\* selectedIndex before any selection; a drop-down's label before or after one.
NoIndex == -1
Title   == -1

\* Why the process died, when it did.
Cause == {"noPlants", "emptied", "nilIndex", "startNilIndex", "badPath",
          "staleRow", "oddName", "coveredRow", "nilLookup", "badIndex"}

VARIABLES
  phase,        \* "off", "on" (the window is loaded), or the cause of a crash
  stored,       \* server: users/<uid>
  farm,         \* server: the three Grow_Light_Max* keys at the root
  pending,      \* client: writes without acknowledgement, oldest first
  sent,         \* how many of them the server has applied on this connection
  reads,        \* who waits for an answer to a read of users/<uid>, oldest first
  events,       \* answers on the main queue, oldest first
  plant_names,  \* DataModel.plant_names; nil when it has no row
  options,      \* plantDropdown.options
  shown,        \* rows on screen while plantDropdown's table is open
  name, trait,  \* texts of plantNameView and plantTraitView
  dd,           \* the three settings drop-downs: selectedIndex and placeholder
  logins,       \* login chains of this process that asked for the plants
  signed,       \* Auth.auth().currentUser is not nil
  goal,         \* history: the recipe last started, Null when it may be void
  exact,        \* history: no one interfered with users/<uid> since the login's read
  behind        \* history: a covered window's read replaced plant_names since
                \* the options were assigned

server == <<stored, farm, pending, sent>>
asked  == <<reads, events>>
form   == <<name, trait, dd>>
table  == <<options, shown>>
login  == <<logins, signed>>
ghost  == <<goal, exact, behind>>
vars   == <<phase, server, asked, plant_names, table, form, login, ghost>>

\* The keys of users/<uid>: plants with settings, plants with another plant
\* inside, and the four fields when the settings were written to "/" (one
\* row stands for the four).
Rows(f) ==
  {p \in Plant : f[p] # Null \/ \E k \in Nested : Parent[k] = p /\ f[k] # Null}
    \cup {w \in Whole : f[w] # Null}

\* The snapshot is not a dictionary: it is null, or an array.
NoDictionary(f) == Rows(f) \subseteq Digit

\* The keys whose settings the getters can read.
Readable(f) == {p \in Plant \ Operator : f[p] # Null}

Cleared == [d \in Dropdown |-> [ix |-> NoIndex, label |-> Title]]

Untitled == \A d \in Dropdown : dd[d].label # Title
Chosen   == \A d \in Dropdown : dd[d].ix # NoIndex

\* Mutant of Current: the temperature's index is not shifted.
CurrentUnshifted == [d \in Dropdown |-> dd[d].ix * Step(d)]

\* current_grow_light_max* as the buttons compute them.
Current == [d \in Dropdown |-> Encode(d, dd[d].ix)]

\* Every queued write of a farm key is lost when the process dies.
Void == \E i \in DOMAIN pending : DOMAIN pending[i] \cap Dropdown # {}

-----------------------------------------------------------------------------
(***************************************************************************)
(* The process.                                                            *)
(***************************************************************************)
Memory ==
  /\ pending' = <<>> /\ sent' = 0 /\ reads' = <<>> /\ events' = <<>>
  /\ plant_names' = [n \in Name |-> Null]
  /\ options' = <<>> /\ shown' = <<>>
  /\ name' = BadName /\ trait' = NoTrait /\ dd' = Cleared
  /\ logins' = 0 /\ signed' = FALSE /\ behind' = FALSE

Die(cause) ==
  /\ phase' = cause
  /\ Memory
  /\ goal' = IF Void THEN Null ELSE goal
  /\ UNCHANGED <<stored, farm, exact>>

Init ==
  /\ phase = "off"
  /\ stored \in Plants
  /\ farm \in Recipe
  /\ pending = <<>> /\ sent = 0 /\ reads = <<>> /\ events = <<>>
  /\ plant_names = [n \in Name |-> Null]
  /\ options = <<>> /\ shown = <<>>
  /\ name = BadName /\ trait = NoTrait /\ dd = Cleared
  /\ logins = 0 /\ signed = FALSE
  /\ goal = Null /\ exact = TRUE /\ behind = FALSE

\* The end of the login chain: the plants' answer s is in, the tab bar selects
\* this window and the window loads.  Others may have written since the answer.
ViewDidLoad(s) ==
  /\ phase # "on"
  /\ IF NoDictionary(s)
       THEN Die("noPlants")
       ELSE /\ phase' = "on"
            /\ plant_names' = s
            /\ \E o \in SetToSeqs(Rows(s)) : options' = o
            /\ logins' = 1 /\ signed' = TRUE
            /\ exact' = (s = stored)
            /\ UNCHANGED <<server, asked, shown, form, goal, behind>>

Kill ==
  /\ phase = "on"
  /\ Die("off")

-----------------------------------------------------------------------------
(***************************************************************************)
(* The user.                                                               *)
(***************************************************************************)
TypeName(n) ==
  /\ phase = "on"
  /\ name' = n
  /\ UNCHANGED <<phase, server, asked, plant_names, table, trait, dd, login, ghost>>

TypeTrait(t) ==
  /\ phase = "on"
  /\ trait' = t
  /\ UNCHANGED <<phase, server, asked, plant_names, table, name, dd, login, ghost>>

\* A row of a settings drop-down: selectedIndex, then didSelect's placeholder.
Pick(d, ix) ==
  /\ phase = "on"
  /\ dd' = [dd EXCEPT ![d] = [ix |-> ix, label |-> ix]]
  /\ UNCHANGED <<phase, server, asked, plant_names, table, name, trait, login, ghost>>

\* Opening builds a table from the options of that moment.
Touch ==
  /\ phase = "on"
  /\ shown' = IF shown = <<>> THEN options ELSE <<>>
  /\ UNCHANGED <<phase, server, asked, plant_names, options, form, login, ghost>>

\* Why a getter's key path ends the process: plant_names holds the key, but
\* not as one plant's settings; another window's read took the key away; or
\* neither.
Unreadable(p) ==
  IF p \in Rows(plant_names) THEN "oddName"
  ELSE IF behind THEN "coveredRow" ELSE "nilLookup"

\* Mutant of TapRow: the settings' labels are not updated.
TapRowKeepsLabels(r) ==
  /\ phase = "on" /\ r \in DOMAIN shown
  /\ IF r \notin DOMAIN options THEN Die("staleRow")
     ELSE LET p == options[r] IN
       IF p \notin Readable(plant_names) THEN Die(Unreadable(p))
       ELSE LET ix == [d \in Dropdown |-> Decode(d, plant_names[p].recipe[d])] IN
         IF \E d \in Dropdown : ix[d] \notin 0 .. LastIx[d] THEN Die("badIndex")
         ELSE /\ shown' = options
              /\ name' = p
              /\ trait' = plant_names[p].trait
              /\ dd' = [d \in Dropdown |-> [ix |-> ix[d], label |-> dd[d].label]]
              /\ UNCHANGED <<phase, server, asked, plant_names, options, login, ghost>>

\* didSelectRowAt looks the row up in the options of now, reloads the table
\* (it stays open) and calls the window's closure.
TapRow(r) ==
  /\ phase = "on" /\ r \in DOMAIN shown
  /\ IF r \notin DOMAIN options THEN Die("staleRow")
     ELSE LET p == options[r] IN
       IF p \notin Readable(plant_names) THEN Die(Unreadable(p))
       ELSE LET ix == [d \in Dropdown |-> Decode(d, plant_names[p].recipe[d])] IN
         IF \E d \in Dropdown : ix[d] \notin 0 .. LastIx[d] THEN Die("badIndex")
         ELSE /\ shown' = options
              /\ name' = p
              /\ trait' = plant_names[p].trait
              /\ dd' = [d \in Dropdown |-> [ix |-> ix[d], label |-> ix[d]]]
              /\ UNCHANGED <<phase, server, asked, plant_names, options, login, ghost>>

RoomFor(writes, queries) ==
  /\ Len(pending) + writes <= MaxPending
  /\ Len(reads) + Len(events) + queries <= MaxReads

\* Mutant of Create: the plants are not read again.
CreateOnly ==
  /\ phase = "on"
  /\ IF ~ Chosen THEN Die("nilIndex")
     ELSE IF ~ Untitled THEN UNCHANGED vars
     ELSE IF ~ signed THEN UNCHANGED vars
     ELSE IF name = BadName THEN Die("badPath")
     ELSE /\ RoomFor(1, 1)
          /\ pending' = Append(pending,
               Entered(name, [recipe |-> Current, trait |-> trait]))
          /\ UNCHANGED <<phase, stored, farm, sent, asked, plant_names, table, form,
                         login, ghost>>

\* The unwraps come before the test of the titles.  Without a user the model
\* neither writes nor reads.
Create ==
  /\ phase = "on"
  /\ IF ~ Chosen THEN Die("nilIndex")
     ELSE IF ~ Untitled THEN UNCHANGED vars
     ELSE IF ~ signed THEN UNCHANGED vars
     ELSE IF name = BadName THEN Die("badPath")
     ELSE /\ RoomFor(1, 1)
          /\ pending' = Append(pending,
               Entered(name, [recipe |-> Current, trait |-> trait]))
          /\ reads' = Append(reads, "window")
          /\ UNCHANGED <<phase, stored, farm, sent, events, plant_names, table, form,
                         login, ghost>>

\* Mutant of Delete: the indices are cleared and the labels are not.
DeleteClearsIndices ==
  /\ phase = "on"
  /\ IF ~ Untitled THEN UNCHANGED vars
     ELSE IF signed /\ name = BadName THEN Die("badPath")
     ELSE /\ signed => RoomFor(1, 1)
          /\ pending' = IF signed THEN Append(pending, Entered(name, Null)) ELSE pending
          /\ reads' = IF signed THEN Append(reads, "window") ELSE reads
          /\ name' = BadName /\ trait' = NoTrait
          /\ dd' = [d \in Dropdown |-> [ix |-> NoIndex, label |-> dd[d].label]]
          /\ UNCHANGED <<phase, stored, farm, sent, events, plant_names, table, login, ghost>>

\* The labels are reset, the selected indices are not.  Without a user the
\* form is cleared all the same.
Delete ==
  /\ phase = "on"
  /\ IF ~ Untitled THEN UNCHANGED vars
     ELSE IF signed /\ name = BadName THEN Die("badPath")
     ELSE /\ signed => RoomFor(1, 1)
          /\ pending' = IF signed THEN Append(pending, Entered(name, Null)) ELSE pending
          /\ reads' = IF signed THEN Append(reads, "window") ELSE reads
          /\ name' = BadName /\ trait' = NoTrait
          /\ dd' = [d \in Dropdown |-> [ix |-> dd[d].ix, label |-> Title]]
          /\ UNCHANGED <<phase, stored, farm, sent, events, plant_names, table, login, ghost>>

\* setValue on one of the farm's keys.
Set(d, v) == [k \in {d} |-> v]

\* Mutant of Start: two of the keys are swapped.
StartSwapped ==
  /\ phase = "on"
  /\ IF ~ Untitled THEN UNCHANGED vars
     ELSE IF ~ Chosen THEN Die("startNilIndex")
     ELSE /\ RoomFor(3, 0)
          /\ pending' = Append(Append(Append(pending,
                          Set("timer", Current["sleep"])),
                          Set("sleep", Current["timer"])),
                          Set("temp", Current["temp"]))
          /\ goal' = Current
          /\ UNCHANGED <<phase, stored, farm, sent, asked, plant_names, table, form,
                         login, exact, behind>>

\* Mutant of Start: one key is not written.
StartWithoutTimer ==
  /\ phase = "on"
  /\ IF ~ Untitled THEN UNCHANGED vars
     ELSE IF ~ Chosen THEN Die("startNilIndex")
     ELSE /\ RoomFor(3, 0)
          /\ pending' = Append(Append(pending,
                          Set("sleep", Current["sleep"])),
                          Set("temp", Current["temp"]))
          /\ goal' = Current
          /\ UNCHANGED <<phase, stored, farm, sent, asked, plant_names, table, form,
                         login, exact, behind>>

\* Three setValue calls, one per key, in this order; nothing asks for a user.
Start ==
  /\ phase = "on"
  /\ IF ~ Untitled THEN UNCHANGED vars
     ELSE IF ~ Chosen THEN Die("startNilIndex")
     ELSE /\ RoomFor(3, 0)
          /\ pending' = Append(Append(Append(pending,
                          Set("timer", Current["timer"])),
                          Set("sleep", Current["sleep"])),
                          Set("temp", Current["temp"]))
          /\ goal' = Current
          /\ UNCHANGED <<phase, stored, farm, sent, asked, plant_names, table, form,
                         login, exact, behind>>

-----------------------------------------------------------------------------
(***************************************************************************)
(* The server and the client library.                                      *)
(***************************************************************************)
Apply ==
  /\ sent < Len(pending)
  /\ stored' = Written(stored, pending[sent + 1])
  /\ farm' = Written(farm, pending[sent + 1])
  /\ sent' = sent + 1
  /\ UNCHANGED <<phase, pending, asked, plant_names, table, form, login, ghost>>

Ack ==
  /\ sent > 0
  /\ pending' = Tail(pending) /\ sent' = sent - 1
  /\ UNCHANGED <<phase, stored, farm, asked, plant_names, table, form, login, ghost>>

\* The connection drops and comes back: all outstanding puts are sent again.
Reconnect ==
  /\ sent > 0
  /\ sent' = 0
  /\ UNCHANGED <<phase, stored, farm, pending, asked, plant_names, table, form, login, ghost>>

\* The server refuses the oldest write and the client reverts it; no
\* completion block tells the application.
Refuse ==
  /\ sent = 0 /\ pending # <<>>
  /\ pending' = Tail(pending)
  /\ exact' = (exact /\ DOMAIN pending[1] \cap Name = {})
  /\ goal' = IF DOMAIN pending[1] \cap Dropdown # {} THEN Null ELSE goal
  /\ UNCHANGED <<phase, stored, farm, sent, asked, plant_names, table, form, login, behind>>

\* The reads of one node are answered in the order in which they were asked.
Answer ==
  /\ reads # <<>>
  /\ reads' = Tail(reads)
  /\ events' = Append(events, [who |-> Head(reads), snap |-> Overlay(stored, pending)])
  /\ UNCHANGED <<phase, server, plant_names, table, form, login, ghost>>

\* withCancel only prints.
Cancel ==
  /\ reads # <<>>
  /\ reads' = Tail(reads)
  /\ exact' = FALSE
  /\ UNCHANGED <<phase, server, events, plant_names, table, form, login, goal, behind>>

\* The next answer on the main queue is for reader w.
Answered(w) == phase = "on" /\ events # <<>> /\ Head(events).who = w

\* Mutant of Refresh: the options are not assigned.
RefreshNamesOnly ==
  /\ Answered("window")
  /\ LET s == Head(events).snap IN
       IF NoDictionary(s) THEN Die("emptied")
       ELSE /\ plant_names' = s
            /\ events' = Tail(events)
            /\ behind' = FALSE
            /\ UNCHANGED <<phase, server, reads, table, form, login, goal, exact>>

\* The completion block of the read: plant_names, then the options.
Refresh ==
  /\ Answered("window")
  /\ LET s == Head(events).snap IN
       IF NoDictionary(s) THEN Die("emptied")
       ELSE /\ plant_names' = s
            /\ \E o \in SetToSeqs(Rows(s)) : options' = o
            /\ events' = Tail(events)
            /\ behind' = FALSE
            /\ UNCHANGED <<phase, server, reads, shown, form, login, goal, exact>>

\* The same block of a window under the one on screen: the data model is
\* shared, the options are the covered window's own.
RefreshCovered ==
  /\ Answered("covered")
  /\ LET s == Head(events).snap IN
       IF NoDictionary(s) THEN Die("emptied")
       ELSE /\ plant_names' = s
            /\ events' = Tail(events)
            /\ behind' = TRUE
            /\ UNCHANGED <<phase, server, reads, table, form, login, goal, exact>>

-----------------------------------------------------------------------------
(***************************************************************************)
(* The login window below, and the auth library.                           *)
(***************************************************************************)

\* Another chain of the same login window: its plants' read is asked.
LoginAgain ==
  /\ phase = "on" /\ signed
  /\ logins < MaxLogins /\ RoomFor(0, 1)
  /\ logins' = logins + 1
  /\ reads' = Append(reads, "chain")
  /\ UNCHANGED <<phase, server, events, plant_names, table, form, signed, ghost>>

\* That chain ends: a second tab bar with a new window over the same model.
\* What the window below has asked for is still its own.
SetupAgain ==
  /\ Answered("chain")
  /\ LET s == Head(events).snap
         Below(w) == IF w = "window" THEN "covered" ELSE w IN
       IF NoDictionary(s) THEN Die("noPlants")
       ELSE /\ plant_names' = s
            /\ \E o \in SetToSeqs(Rows(s)) : options' = o
            /\ shown' = <<>>
            /\ name' = BadName /\ trait' = NoTrait /\ dd' = Cleared
            /\ reads' = [i \in DOMAIN reads |-> Below(reads[i])]
            /\ events' = [i \in DOMAIN Tail(events) |->
                            [Tail(events)[i] EXCEPT !.who = Below(@)]]
            /\ behind' = FALSE
            /\ UNCHANGED <<phase, server, login, goal, exact>>

\* A token fetch fails because the account is disabled, deleted or expired:
\* currentUser is nil from then on, and no window hears of it.
ForcedSignOut ==
  /\ CanExpire
  /\ phase = "on" /\ signed
  /\ signed' = FALSE
  /\ UNCHANGED <<phase, server, asked, plant_names, table, form, logins, ghost>>

\* The sign-in of a chain that has not asked for the plants yet, and may never.
SignInAgain ==
  /\ phase = "on" /\ ~ signed
  /\ signed' = TRUE
  /\ UNCHANGED <<phase, server, asked, plant_names, table, form, logins, ghost>>

-----------------------------------------------------------------------------
(***************************************************************************)
(* Another phone with the same application, logged in as the same user.    *)
(***************************************************************************)
OtherPlant(n, e) ==
  /\ stored' = Written(stored, Entered(n, e)) /\ stored' # stored
  /\ exact' = FALSE
  /\ UNCHANGED <<phase, farm, pending, sent, asked, plant_names, table, form, login,
                 goal, behind>>

OtherStart(d, v) ==
  /\ farm[d] # v
  /\ farm' = [farm EXCEPT ![d] = v]
  /\ goal' = Null
  /\ UNCHANGED <<phase, stored, pending, sent, asked, plant_names, table, form, login,
                 exact, behind>>

-----------------------------------------------------------------------------
User ==
  \/ \E n \in Name \cup {BadName} : TypeName(n)
  \/ \E t \in Trait : TypeTrait(t)
  \/ \E d \in Dropdown : \E ix \in 0 .. LastIx[d] : Pick(d, ix)
  \/ Touch
  \/ \E r \in DOMAIN shown : TapRow(r)
  \/ Create \/ Delete \/ Start

Deliver == Refresh \/ RefreshCovered \/ SetupAgain

Store == Apply \/ Ack \/ Reconnect \/ Refuse \/ Answer \/ Cancel \/ Deliver

Account == LoginAgain \/ ForcedSignOut \/ SignInAgain

Others ==
  \/ \E n \in Name, e \in Entry : OtherPlant(n, e)
  \/ \E d \in Dropdown : \E v \in Value(d) : OtherStart(d, v)

Next ==
  \/ \E s \in Plants : ViewDidLoad(s)
  \/ Kill \/ User \/ Store \/ Account \/ Others

Spec == Init /\ [][Next]_vars

\* The server answers, the client delivers, and although connections drop,
\* some connection lasts until the next acknowledgement.
Fairness == WF_vars(Apply) /\ SF_vars(Ack) /\ WF_vars(Answer) /\ WF_vars(Deliver)

FairSpec == Spec /\ Fairness

-----------------------------------------------------------------------------
(***************************************************************************)
(* Properties.                                                             *)
(***************************************************************************)

\* Types, and with them the range of every number: whatever the buttons
\* compute from the drop-downs, the queue, the server and every snapshot
\* hold only minutes and degrees that the drop-downs can show again.
TypeOK ==
  /\ phase \in {"off", "on"} \cup Cause
  /\ stored \in Plants /\ farm \in Recipe
  /\ pending \in Seq(Write) /\ sent \in 0 .. Len(pending)
  /\ reads \in Seq(Reader) /\ events \in Seq([who : Reader, snap : Plants])
  /\ plant_names \in Plants
  /\ options \in Seq(Plant \cup Whole) /\ shown \in Seq(Plant \cup Whole)
  /\ name \in Name \cup {BadName} /\ trait \in Trait
  /\ DOMAIN dd = Dropdown
  /\ \A d \in Dropdown : dd[d] \in [ix : -1 .. LastIx[d], label : -1 .. LastIx[d]]
  /\ logins \in Nat /\ signed \in BOOLEAN
  /\ goal \in Recipe \cup {Null} /\ exact \in BOOLEAN /\ behind \in BOOLEAN

\* Selecting a row ends the process only where the dictionary really holds no
\* settings under that key (a name that is a path or begins with @), or after
\* a covered window's read took the key away: never because the options and
\* plant_names went apart in the window's own refreshes, and never by an index
\* out of a drop-down's range (controlWindow_1 159-178), whoever wrote the
\* settings.
SelectionSafe == phase \notin {"nilLookup", "badIndex"}

\* Start unwraps selectedIndex only behind the test of the titles, and that
\* test is enough: a drop-down whose label is not its title has an index,
\* through selections, deletions and refreshes in any order.
StartSafe == phase # "startNilIndex"

\* Why they hold: the drop-down lists only keys of plant_names, and a label
\* that is not the title shows the selected index.
OptionsKnown == ~ behind => \A r \in DOMAIN options : options[r] \in Rows(plant_names)
LabelsTrue   == \A d \in Dropdown : dd[d].label # Title => dd[d].ix = dd[d].label
FormInv      == OptionsKnown /\ LabelsTrue /\ SelectionSafe /\ StartSafe

\* The snapshot the data model holds or is about to get.
Latest == IF events = <<>> THEN plant_names ELSE events[Len(events)].snap

\* The refresh that follows every write is enough to keep the list current:
\* when no read is unanswered, the newest snapshot is what the server will
\* hold once the queue drains, through resends, unless another phone wrote
\* or the server refused something.
ListCurrent ==
  phase = "on" /\ exact /\ reads = <<>> => Latest = Overlay(stored, pending)

\* What the user sees of it: once the refreshes are in, the rows of the plant
\* drop-down are exactly the keys of users/<uid> that the server will hold,
\* unless the last of them went to a window under this one.
RowsCurrent ==
  phase = "on" /\ exact /\ reads = <<>> /\ events = <<>> /\ ~ behind
    => Range(options) = Rows(Overlay(stored, pending))

\* Its inductive strengthening: the applied writes are in effect, and nothing
\* is in flight before the window loads.
ListInv ==
  /\ phase # "on" => pending = <<>> /\ sent = 0 /\ reads = <<>> /\ events = <<>>
  /\ phase = "on" /\ exact => Applied(stored, pending, sent)
  /\ ListCurrent

\* The recipe last started is never mixed with an older one for good: laid
\* over the farm's keys, the queue always yields exactly that recipe,
\* although Start is three separate writes that may be resent.
RecipeHeld == goal # Null => Overlay(farm, pending) = goal

\* Its inductive strengthening.
RecipeInv == RecipeHeld /\ (goal # Null => Applied(farm, pending, sent))

\* What Start sends is what the three labels say at that moment.
StartedAsShown ==
  [][goal' # goal /\ goal' # Null =>
       \A d \in Dropdown : goal'[d] = Encode(d, dd[d].label)]_vars

\* What the window promises of the farm's three keys, taken as one piece of
\* equipment that is set to a recipe.
Panel == INSTANCE FarmPanel WITH
  Choice  <- {"recipe"},
  Bit     <- Recipe,
  NoGoal  <- Null,
  farm    <- [c \in {"recipe"} |-> farm],
  wish    <- [c \in {"recipe"} |-> goal],
  settled <- [c \in {"recipe"} |-> ~ Void]

\* The window keeps the promise of FarmPanel: between the first and the last
\* of a recipe's writes the farm may hold a mixture, and once none of them is
\* queued it holds the recipe last started, until another phone, a refusal or
\* the end of the process interferes.
PanelSpec == Panel!Spec

\* A started recipe reaches the farm, whatever the connection does, unless it
\* is superseded, refused or lost with the process.
RecipeArrives == \A r \in Recipe : (goal = r) ~> (farm = r \/ goal # r)

Wanted(p) == p \in Rows(Overlay(stored, pending))
Listed(p) == p \in Range(options)
Disturbed == ~ exact \/ behind \/ phase # "on"

\* The plant list follows the user's writes: a created plant shows up in the
\* drop-down and a deleted one goes, without a restart of the application,
\* unless the refresh went to a window that a second login has covered.
ListCatchesUp ==
  \A p \in Plant :
    /\ Wanted(p) ~> (Listed(p) \/ ~ Wanted(p) \/ Disturbed)
    /\ ~ Wanted(p) ~> (~ Listed(p) \/ Wanted(p) \/ Disturbed)

(***************************************************************************)
(* What the documentation says and the code does not do.                   *)
(***************************************************************************)

\* The drop-down's documentation: didSelect returns the string and index
\* selected.  Rows on screen are not reloaded when the options change, so a
\* tapped row may stand for another plant.  Only changes of the set of plants
\* count here, not the undefined order of allKeys.
TapSelectsShown ==
  [][\A r \in DOMAIN shown :
       TapRow(r) /\ Range(shown) # Range(options) /\ phase' = "on"
         => name' = shown[r]]_vars

=============================================================================
