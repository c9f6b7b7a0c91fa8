# IndoorFarm iOS: TLA+ models, checks and proofs

The application (`src/seniorProject/seniorProject`, Swift) is the remote control
of an indoor farm. The farm's state (sensors, equipment, automation limits) is a
set of keys at the root of a Firebase realtime database, each user's plant
settings are under `users/<uid>`; a controller at the farm, whose program is not
in the repository, reads and writes the same keys. This directory models what the
application does with that database, from its source, and says what was checked
and proved. Paths below are relative to `src/seniorProject/seniorProject` unless
they begin with `Pods` or `src`.

## The system

| Component | State | Operations | Hard part | What makes it correct |
|---|---|---|---|---|
| Automation window (`controlWindow_1`) | plant drop-down and its open table, three settings drop-downs, two texts | load, select, Create, Delete, Start | the list is read back while the write is under way; Start is three writes; rows outlive options | no mixed recipe, list follows the writes, no unwrapped nil where there are settings |
| Info window (`controlWindow_0`) | 14 labels, a timer | load, appear, tick | reads overlap and go on behind other tabs | shows what the farm holds |
| Manual window (`controlWindow2`) | four switches, mode, reset, logout | load, appear, toggle, reset, log out | an old snapshot meets a new choice | the last choice wins; switches tell the truth |
| Data model (`internal_model`) | last snapshot of the root and of the plants | two reads, setters, getters | completion blocks; `currentUser` read late | never used before it is filled |
| Sign-in (`mainMenuWindow`, `emailLoginWindow`, `emailSetupWindow`, `AppDelegate`, `Util`) | navigation stack, current user, provider dialogs, login chains | open, back, login, register, Google, Facebook, logout | nothing blocks the screen while a chain runs | the farm's windows exist only between a sign-in and its sign-out, with that user's data, although the library may sign the user out by force |
| Firebase client (`Pods/FirebaseDatabase`) | unacknowledged puts, parked acknowledgements, listeners, token, state of the connection | open, put, listen, unlisten, acknowledge, revert, retry, fetch a token, authenticate, restore | a connection lost at any point; a retry that meets an interruption, a notification or a late token; resends; no persistence | writes are applied and answered in order; a read returns the pending writes laid over the server's data; a disconnected client always tries again |
| UIDropDown (`Pods/UIDropDown`) | options, selected index, rows | touch, select | `options` has no `didSet` | `didSelect` reports the row that was tapped |

All handlers and completion blocks run on the main queue, so each is one atomic
step. Interleaving comes from everything in between: the server applies, refuses
and acknowledges puts; the client's serial queue takes the calls made of it;
answers are computed and queued; the timer fires; other phones and the farm write;
a token fetch fails and takes the user away; the connection drops; the process is
killed. The call
graph is: menu -> login window -> chain (authenticate, `readDatabase`,
`get_all_plant_settings_firebaseDB`, `Util.setupTabBarController`, push) -> three
windows that share one `DataModel`.

## Modules

- **WriteQueue** - the client's outstanding puts as pure operators. `Overlay` is
  what a read returns, `Written` what the server's store becomes, `Applied` says
  that the puts applied on this connection are in effect.
- **Automation** - the Automation window over `users/<uid>` and the three
  `Grow_Light_Max*` keys. The user's actions are the handlers (`Pick`, `Touch`,
  `TapRow`, `Create`, `Delete`, `Start`, typing); `Apply`, `Ack`, `Reconnect`,
  `Refuse`, `Answer`, `Cancel`, `Refresh` are server and client; `OtherPlant` and
  `OtherStart` another phone; `ViewDidLoad` and `Kill` the process. `LoginAgain`
  and `SetupAgain` are a second chain of the login window below, which puts a new
  window over the same `DataModel`; `RefreshCovered` is the answer of a read that
  the covered window had asked for. `ForcedSignOut` and `SignInAgain` change
  `signed`, on which the data model's guards depend. A crash
  (nil unwrapped, cast failed, index out of range, illegal path) is a value of
  `phase` that names its cause; the next launch is `ViewDidLoad` again.
- **Session** - stack, current user, login chains, Google and Facebook.
  `chains[s].stage` is the block that a chain waits for: `auth`, `root`, `plants`.
  `ForcedSignOut` is the library's: a token fetch that finds the account disabled,
  deleted or expired (`FIRUser.m` 906-914, 1204-1213) makes `currentUser` nil and
  leaves the stack as it is, because the application has no auth-state listener.
  `holder` remembers who signed in last and did not sign out since.
- **FarmAccess** - what signing in and out promise of the farm's windows, with
  neither stack nor chains: they open only behind a sign-in that is under way,
  for its holder, and close together at the sign-out. Being expelled ends the
  sign-in and closes no window.
  Session implements it (`AccessSpec`): a door is a login window on the stack, it
  is being entered while a chain of that window waits for its reads, and behind
  it are the plants of the data model that its tabs share.
- **FarmControl** - Info and Manual window over the root's keys, with logout and
  the next login in one process. `KeyWritten`, `KeyShown` and `Equipment` are the
  three tables of the source that have to agree: tag to setter, getter to
  control, label on screen. A write or a read is handed to the client's serial
  queue (`FIRDatabaseReference.m:145`, `FIRDatabaseQuery.m:412`) and gets there
  later: `taken` counts the writes the client has (`Take`), a read knows how many
  writes are ahead of it, and an answer is laid over with the writes taken by
  then. `ready` counts login chains that have read the root, `bars` the tab bars
  of the login: a second chain of one login window pushes a second tab bar over
  the same data model. `covered` and `leaked` count the Info windows that their
  timers keep reading, below another tab bar or after a logout; a read of the
  latter is marked `Gone`, its answer goes to the data model of its own login.
- **FarmPanel** - what a window promises of the farm's equipment, with neither
  queue nor server: a choice may waver while it is on its way, and settles only
  where the equipment does what was chosen. FarmControl implements it with one
  piece of equipment per switch, Automation with the recipe as a whole, whose
  three keys are written one after the other (`PanelSpec` in both).
- **Connection** - `FPersistentConnection` with `FIRRetryHelper`, `FConnection`
  and the token provider. `connState`, `interrupts`, `retry`, `force`, `link` are
  its state machine (`Open`, `Interrupt`, `Resume`, `RetryFires`,
  `TokenFetched`, `TokenFailed`, `Handshake`, `Disconnect`); `puts`, `parked`,
  `listens`, `unacked` its requests (`Put`, `Listen`, `Unlisten`, `RestoreState`,
  `PutReply`, `ListenReply`). `asked` and `mail` are token fetches and what the
  auth library sends back, first in, first out, because both the answers and the
  announcements pass through the main queue. `upstream` and `downstream` are the
  messages of one connection and vanish with it.
- **WriteStream** - what that client promises about writes: applied in order,
  answered in order, started over from the oldest unanswered one. Connection
  implements it (`StreamSpec`); its steps are `Apply`, `Ack` and `Reconnect` of
  Automation and FarmControl.
- **MCAutomation, MCSession, MCFarmControl** - the modules TLC checks, with the
  constants of their instances (Connection needs none).
- **WriteQueueProofs, AutomationProofs, SessionProofs, FarmControlProofs,
  WriteStreamProofs, ConnectionProofs, ConnectionStreamProofs,
  ConnectionReadProofs** - lemmas and theorems.

The layers meet in two places. The windows' models have a queue of puts whose
first `sent` are applied; that this is what the client does is
`Connection!StreamSpec`. They read `Overlay(server, queue)`; that a read of the
client shows all writes made before is `Connection!ReadSeesWrites`. The client
breaks the latter in one situation (ConnectionStrands), which the windows' models
therefore leave out: a read whose connection is lost between its data and its
answer while an acknowledgement waits behind it.

Numbers are kept as the code computes them: `Encode` multiplies an index by 30
minutes, or its successor by 20 degrees, `Decode` divides back. `allKeys` has no
defined order: `options` is any arrangement of the keys.

A plant's name is a path, as `child()` takes it: one key (`Plant`), a path of two
keys (`Nested`, with `Parent` its first key), `/` (`Whole`: `users/<uid>` itself),
or `BadName`, which stands for every text that `child()` refuses; the empty text
is one, so a cleared name field is `BadName`. A write sets the nodes `Inside` its
name. The rows of the drop-down are the first keys; one whose node has no settings
of its own, or whose name begins with `@` (`Operator`), ends the process when it is
selected, because the getters unwrap `value(forKeyPath:)`. Keys that are numerals
(`Digit`) and nothing else come back as an array, and the cast to a dictionary
leaves `plant_names` nil.

Operators whose comment begins
"Mutant of" are faulty variants, used to see that a property can fail.

History variables record what the user did and never guide a step: `goal` (the
recipe or setting last chosen, void once someone else overrides it, the server
refuses it or the process takes it down), `exact` (no other phone and no refusal
or cancelled read disturbed the list), `behind` (a covered window's read replaced
`plant_names` since the options were assigned), `dated` and `raced` in FarmControl
(choices younger than the data model's values, and than what a switch shows),
`holder` and `raced` in Session (who signed in; another user's sign-in replaced
the holder somebody entering or inside relied on, since the last sign-out),
`denied`, `rejected` (the last
token the client was told is refused) and `stranded` (a lost connection has left
acknowledgements parked).

## What the runs show

| Run | Properties | Instance | Distinct states |
|---|---|---|---|
| AutomationWindow | TypeOK, SelectionSafe, StartSafe, RowsCurrent | 1 plant and "/", 1 recipe, 1 write, 2 reads, 2 chains | 1.24M |
| AutomationRecipe | RecipeHeld, StartedAsShown, RecipeArrives, PanelSpec | 1 plant and 1 inside it, 2 recipes, 4 writes, no reads | 100k |
| AutomationList | ListCurrent, ListCatchesUp | 1 plant and 1 called 0, 1 recipe, 1 write, 1 read, forced sign-outs | 107k |
| SessionTabs | TypeOK, TabsSignedIn, TabsLoaded, TabsOwn, AccessSpec, LoginLeadsToTabs | 2 accounts, 2 windows, 2 chains, forced sign-outs | 484k |
| FarmManual | TypeOK, LastChoiceWins, ManualHonest, LoginShowsChoices, PanelSpec | 1 switch and the reset button, 2 writes, 1 read, 2 tab bars, leftover timers | 291k |
| FarmDelivery | ChoiceArrives, InfoCatchesUp | mode and reset, 1 write, 1 read, 1 tab bar | 173k |
| ConnectionWrites | TypeOK, UnackedExact, LastWriteWins, NothingForgotten, ReadSeesWrites, StreamSpec | 2 writes, 2 reads, 2 tokens, 2 drops | 1.96M |
| ConnectionReopens | StateMatches, RequestsEnd | 1 write, 1 read, 2 drops, one of every other fault | 249k |

Every property has a mutant of the code under which TLC finds it violated
(PROJECT.json, `mutants`).

Four runs show the code doing something else than its comments or documentation
say; each is a finding in PROJECT.json with the quoted line.

- SessionBack: going back while the login chain runs ends the process when the
  plants arrive.
- AutomationStaleRow: a row of a drop-down opened before a refresh selects
  another plant.
- ConnectionRevoked: a token that the server has refused is used again. The wish
  for a new one (`forceAuthTokenRefresh`) is moved into the retry block, and a
  notification or a failed fetch replaces that block by one without it.
- ConnectionStrands: `onDisconnect` sets `unackedListensCount` to 0 but does not
  acknowledge the parked puts. The write tree keeps such a put although it is
  answered, a later put is acknowledged at once, and a read then shows the older
  one, until some other read is answered.

The models also contain crashes that need no interleaving and have no run of
their own: Create on an untouched form (`nilIndex` in Automation), the refresh
after the last plant was deleted or when only numerals are left (`emptied`),
selecting a row whose key holds no settings of its own, because a plant was
created under a path, as `/`, or with a name that begins with `@` (`oddName`), an
account without plants (`noPlants` in Session), Create Account with every field
filled in, whatever the registration returns, and a Google sign-in
(`setupNilModel`, `googleNilModel`). One more needs a second login chain: a
covered window's refresh takes a key away that the window on screen still lists
(`coveredRow`). SelectionSafe says that a selection ends the process in no other
way: not because the window's own refreshes let options and dictionary come apart
(`nilLookup`), and not by a stored number (`badIndex`).

**Bounds.** The capacities `MaxPending` and `MaxReads` only disable the user's
next button or the timer's next read; they hide no reaction to what is under way.
Two writes of one key are enough for an old value to be resent over a new one;
four let a Start follow a plant write, so that the queue's prefix is of another
store. Two reads let a covered window's answer arrive among those of the window
over it. One answer in the queue is enough to be older than a choice, and one
write that the client has not taken to be missing from an answer. Larger instances
were run by hand: FarmManual with two reads (5.08M states), and AutomationWindow's
properties with a plant, a plant inside it, two writes, two reads and two chains
(2.01M). No instance has a name with `@`, and only AutomationList signs out by
force inside Automation: the theorems cover both. Two chains in two
windows are enough for a chain to outlive its window while another one has filled
the stack. `MaxWin` bounds login windows per launch. One leftover timer already
interleaves its reads with those of the next login. In Connection two writes are
needed for a wrong order, two reads for one to be parked behind while another is
answered, two drops for a connection to be lost while it restores what the first
loss left; the faults have budgets, so that liveness is checked after the last
one. The proofs below need no bound.

**Fairness.** The server applies and answers, the client delivers (weak
fairness: both retry for ever, `FPersistentConnection` reconnects by itself).
Acknowledgement is strongly fair: connections may drop again and again and each
resend repeats the puts, but some connection lasts until the next
acknowledgement. In Connection nothing is assumed of faults but their budget:
the dispatch queue runs blocks that are due, the auth library answers or fails a
fetch, the server answers a request, an opened connection gets its handshake or
is closed (the web socket has a timeout for opening; that a server which accepted
the socket also sends its handshake is an assumption), and a raised event removes
its listener. The repeating timer is strongly fair because only the bound on
reads can disable it, and not all of its reads are cancelled for ever. In Session
a read of a chain is answered or cancelled. No fairness is assumed of users,
other phones, kills or sign-in providers. Deadlock checking is on except in the
runs of Connection: there the budgets of requests and faults run out, and the
client then rests.

## What is proved

For all values of the constants, under the ASSUMEs of the modules (the plant set
is finite; names, titles and absent values are distinct; last indices and bounds
are naturals; the absent user is no account):

- `AutomationProofs!TypeCorrect`, `SelectionIsSafe`, `StartIsSafe`,
  `StartsWhatIsShown`. `TypeOK` carries the numeric part: every value written is
  `Encode` of a legal index, and `Decode` returns that index. SelectionSafe and
  StartSafe are not inductive; `FormInv` adds that the drop-down lists only
  keys of `plant_names`, unless a covered window's read came in between, and that
  a label other than the title shows the selected index. The latter also gives StartedAsShown, although Delete leaves
  indices and labels in disagreement.
- `AutomationProofs!RecipeIsHeld`. `Overlay(farm, pending) = goal` is not
  inductive: acknowledging a put removes it from the queue. `RecipeInv` adds
  `Applied(farm, pending, sent)`: puts applied on this connection are in effect
  unless a later one of the same key is queued. The argument is in
  WriteQueueProofs, which says how appending, applying, acknowledging and
  resending change `Overlay` and `Applied`.
- `AutomationProofs!RecipeRefined`: the window implements FarmPanel. The step
  that matters is the acknowledgement of a recipe's last write: nothing of the
  recipe is left to lay over the farm, so by `RecipeInv` the farm is the recipe.
- `WriteQueueProofs!QueueDrains` says what `Overlay` means: apply a queue of any
  length to its end, beginning anywhere up to which it is in effect, and the
  store is what a read showed before. The queue's last write of a key exists
  because a nonempty set of positions has a greatest member (`Greatest`, from
  the library's `WFMin` over the naturals).
- `AutomationProofs!ListIsCurrent`, with `ListInv`: the same over `users/<uid>`,
  and nothing is in flight before the window loads. A window that takes over
  changes who asked and not what was answered (`Relabelled`, `LatestTail`).
  `RowsAreCurrent` carries it to the screen: in `RowsInv` the rows are the keys of
  `plant_names`, because
  an order of a finite set, which lists no element twice and has as many places
  as the set has elements, leaves none out (`OrderComplete`).
- `SessionProofs!TypeCorrect`, `TabsAreSignedIn`, `TabsAreLoaded`, `TabsAreOwn`.
  `SessionInv` speaks of the chains as well: those whose window is on the stack
  have a holder and ask for that user's plants, those past the first read have the
  root; the current user is the holder or nobody; and the menu is only at the
  bottom, so a Facebook logout there finds no login window. For any number of
  windows and chains, and any number of forced sign-outs.
- `SessionProofs!AccessRefined`: the screens implement FarmAccess, from
  `SessionInv`. A chain that outlives its window enters nothing, a logout or a
  Facebook logout leaves no door behind. `AccessIsOwn` is what FarmAccess is
  worth: its own invariant, from which a farm on screen is the holder's.
- `FarmControlProofs!TypeCorrect`, `LastChoiceHolds`, `ManualIsHonest`,
  `LoginStartsFromChoices`, `PanelRefined`. `ChoiceInv` adds to LastChoiceWins that
  applied writes are in effect, and to ManualHonest that every answer still to
  come, and the values a window not yet loaded will start from, agree with the
  last choice unless they were computed before the client had it. The step that
  matters is `Answer`: for a control whose write the client has taken, the writes
  taken laid over the farm are the whole queue laid over it (`OverlayCut`). For a
  login it adds that the chain's read waits for every write handed over before it
  (`LoginReadsLast`). A logout keeps the first and makes the others vacuous, a
  leftover window's answer touches neither. With `ChoiceInv` every step of the windows is a step of
  FarmPanel: a choice can settle because the queue laid over the farm is the
  choice, and the put that settles it is applied. `PanelIsKept` is what FarmPanel
  is worth: equipment with no choice on its way does what was chosen last.
- `WriteStreamProofs!LastWriteHolds`, with `StreamInv`: the queue is the latest
  writes in order and the store is the last one applied.
- `ConnectionProofs!TypeCorrect`, `CounterExact`. That the unsigned counter stays
  natural needs that it equals the listens and answers under way (`Typed`).
- `ConnectionProofs!StatesCorrect`. `StateInv` adds that at most one token fetch
  is current, that an announcement is not an answer, and that messages are under
  way only on an open connection.
- `ConnectionStreamProofs!StreamRefined`, `LastWriteHolds`. `AuthInv` says that
  the first authentication is answered before renewals, so that restoreState runs
  once and before any other put of a connection. `PutInv` says that the puts on
  the wire are the outstanding ones, in order: first those the server has
  applied, then those still to be. LastWriteHolds is WriteStream's theorem under
  the refinement.
- `ConnectionReadProofs!ReadsSeeWrites`, for every node and not only the one the
  puts share. Three more parts: the store is at least as new as the last put
  applied on this connection (`StoreInv`), the parked acknowledgements are those
  of the newest answered puts, one after the other, and some listen is
  unanswered (`ParkedInv`), and every datum on its way is as new as the acknowledgements
  before it (`FreshInv`).
- `ConnectionReadProofs!NothingIsLost`, with `ReadInv`: on a connection that is
  ready every unanswered put and every listen without its event is on the wire,
  in one direction or the other. It is the safety half of RequestsEnd: what is
  under way is answered by fairness alone.

TabsOwn is what lets Automation speak of one node `users/<uid>`: the plants are the
holder's, unless another user's sign-in completes while the windows are up.
Automation has the guards by `currentUser` itself, as `signed`.

Only model-checked: every liveness property (RecipeArrives, ListCatchesUp,
LoginLeadsToTabs, ChoiceArrives, InfoCatchesUp, RequestsEnd), because fairness is
out of the prover's reach. Every safety property of the passing runs is proved,
and every refinement.

## What is not modelled

- The farm's program. Its writes are `OtherWrite`: any key, any value, any time.
- Logging out and in again without ending the process, in Automation: Session and
  FarmControl have it, Automation begins with a new process. A second chain that
  signs in somebody else is in Session (`raced`); Automation's chains are all of
  one user.
- The client's serial queue, in Automation. Reads and writes pass through it in the
  order of the calls, so an answer that comes before the block of a later write is
  the answer that was computed before that write's handler; only a history like
  FarmControl's `raced`, which compares an answer with a handler, tells the two
  apart, and Automation has none.
- Of the database client: delays and backoff (a scheduled retry fires some time
  later), transactions, merges, onDisconnect operations, purging of writes and
  filtered queries, which the application does not use; a listen that the server
  cancels after granting it; further data for a listen, since every read of the
  application is a single event. The number of a fetch attempt is abstracted to
  whether it is the current one. The status of an answered put is not used by
  Connection; what a refusal does is in Automation and FarmControl. `GoOffline`
  and `GoOnline` are in the library's interface, the application calls neither.
- The server, beyond this: it handles the requests of a connection in order, and
  no put of a lost connection is applied after one of the next.
- Libraries below the SDKs (`BoringSSL`, `gRPC`, `Protobuf`, `leveldb`, other
  SDKs in `Pods`). They are most of the repository's lines; the application does
  not call them.
- Of plant names: paths of three keys and more, a path that ends in one of the four
  field names inside another plant (`basil/Plant_Trait`), numerals above 1 (whether
  they make an array depends on how many there are), and the name "Plant Select",
  which the buttons treat as a title.
- The text the Info window's labels make of a value.
- Layout, keyboards, orientation (`gui_init`), unused code (`ViewController`,
  `DataService`, `plantSettingsContainer`, the Google disconnect callback).
- The database rules (`src/seniorProject/database.rules.json`). Their verdicts
  are the choice between `Apply` and `Refuse`, `Answer` and `Cancel`. As committed
  they validate only strings at `users/<uid>` and grant no read of the root; with
  them deployed every plant write would be refused and every login chain end at
  its first read.

## Plan

1. Done: WriteQueue, Automation with names as paths, covered windows and forced
   sign-outs, Session, FarmControl with logout, leftover timers, second tab bars
   and the client's queue, FarmPanel, FarmAccess, Connection, WriteStream, and the
   proofs of all their safety properties and refinements.
2. "Plant Select" as a name, and paths into the fields of another plant.
3. Automation over a login that ends and begins again, with puts queued by one
   user and sent as another.
