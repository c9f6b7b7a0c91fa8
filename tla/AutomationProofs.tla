-------------------------- MODULE AutomationProofs --------------------------
(***************************************************************************)
(* Proofs about Automation, for every set of names (paths, operators and   *)
(* numerals among them) and traits, every size of the drop-downs and every *)
(* bound.                                                                  *)
(***************************************************************************)
EXTENDS Automation, WriteQueueProofs, FiniteSetTheorems

-----------------------------------------------------------------------------
(***************************************************************************)
(* The conversions.                                                        *)
(***************************************************************************)

\* Selecting a stored value gives back the index it was created from, and
\* every storable value has an index of the drop-down.
LEMMA ValueDecode ==
  ASSUME NEW d \in Dropdown, NEW v \in Value(d)
  PROVE  v \in Int /\ Decode(d, v) \in 0 .. LastIx[d] /\ Encode(d, Decode(d, v)) = v
<1>1. LastIx[d] \in Nat
  BY IndexAssumption
<1>2. PICK ix \in 0 .. LastIx[d] : v = Encode(d, ix)
  BY DEF Value
<1>3. CASE d = "temp"
  <2>1. v = (ix + 1) * 20
    BY <1>2, <1>3 DEF Encode, Base, Step
  <2>2. v \div 20 = ix + 1
    BY <2>1, <1>1
  <2> QED BY <1>1, <1>3, <2>1, <2>2 DEF Decode, Encode, Base, Step
<1>4. CASE d # "temp"
  <2>1. v = ix * 30
    BY <1>1, <1>2, <1>4 DEF Encode, Base, Step
  <2>2. v \div 30 = ix
    BY <2>1, <1>1
  <2> QED BY <1>1, <1>4, <2>1, <2>2 DEF Decode, Encode, Base, Step
<1> QED BY <1>3, <1>4

\* What the buttons compute from selected drop-downs can be stored.
LEMMA CurrentRecipe ==
  ASSUME TypeOK, Chosen
  PROVE  Current \in Recipe
<1>1. ASSUME NEW d \in Dropdown
      PROVE  Encode(d, dd[d].ix) \in Value(d)
  <2>1. dd[d].ix \in -1 .. LastIx[d] /\ dd[d].ix # -1 /\ LastIx[d] \in Nat
    BY IndexAssumption DEF TypeOK, Chosen, NoIndex
  <2>2. dd[d].ix \in 0 .. LastIx[d]
    BY <2>1
  <2> QED BY <2>2 DEF Value
<1> QED BY <1>1 DEF Current, Recipe

-----------------------------------------------------------------------------
(***************************************************************************)
(* Types.                                                                  *)
(***************************************************************************)

\* The two kinds of writes.
PlantWrites == {Entered(n, e) : n \in Name, e \in Entry}
FarmWrites  == UNION {[{d} -> Value(d)] : d \in Dropdown}

LEMMA WriteKinds == Write = PlantWrites \cup FarmWrites
BY DEF Write, PlantWrites, FarmWrites

\* The write of a plant's name sets nodes of users/<uid> to entries.
LEMMA EnteredType ==
  ASSUME NEW n \in Name, NEW e \in Entry
  PROVE  /\ Entered(n, e) \in Write
         /\ DOMAIN Entered(n, e) = Inside(n) /\ Inside(n) \subseteq Name /\ n \in Inside(n)
         /\ \A k \in Inside(n) : Entered(n, e)[k] \in Entry
         /\ DOMAIN Entered(n, e) \cap Dropdown = {}
<1>1. Inside(n) \subseteq Name /\ n \in Inside(n)
  BY DEF Inside
<1>2. DOMAIN Entered(n, e) = Inside(n) /\ \A k \in Inside(n) : Entered(n, e)[k] \in Entry
  BY DEF Entered, Entry
<1>3. Entered(n, e) \in PlantWrites
  BY DEF PlantWrites
<1>4. Entered(n, e) \in Write
  BY <1>3, WriteKinds
<1> QED BY <1>1, <1>2, <1>4, NameAssumption

\* A write of one of the farm's keys.
LEMMA SetType ==
  ASSUME NEW d \in Dropdown, NEW v \in Value(d)
  PROVE  /\ Set(d, v) \in Write /\ DOMAIN Set(d, v) = {d} /\ Set(d, v)[d] = v
         /\ d \notin Name
<1>1. DOMAIN Set(d, v) = {d} /\ Set(d, v)[d] = v
  BY DEF Set
<1>2. Set(d, v) \in [{d} -> Value(d)]
  BY DEF Set
<1>3. Set(d, v) \in Write
  BY <1>2, WriteKinds DEF FarmWrites
<1> QED BY <1>1, <1>3, NameAssumption

\* There are no other writes.
LEMMA WriteType ==
  ASSUME NEW w \in Write
  PROVE  \/ DOMAIN w \subseteq Name /\ \A k \in DOMAIN w : w[k] \in Entry
         \/ \E d \in Dropdown : DOMAIN w = {d} /\ w[d] \in Value(d)
<1>1. CASE w \in PlantWrites
  <2>1. PICK n \in Name, e \in Entry : w = Entered(n, e)
    BY <1>1 DEF PlantWrites
  <2> QED BY <2>1, EnteredType
<1>2. CASE w \in FarmWrites
  <2>1. PICK d \in Dropdown : w \in [{d} -> Value(d)]
    BY <1>2 DEF FarmWrites
  <2> QED BY <2>1
<1> QED BY <1>1, <1>2, WriteKinds

LEMMA OverlayType ==
  ASSUME TypeOK
  PROVE  Overlay(stored, pending) \in Plants
<1>1. DOMAIN stored = Name /\ \A n \in Name : stored[n] \in Entry
  BY DEF TypeOK, Plants
<1>2. \A i \in DOMAIN pending : pending[i] \in Write
  BY ElementOfSeq, LenProperties DEF TypeOK
<1>3. ASSUME NEW n \in Name
      PROVE  Overlay(stored, pending)[n] \in Entry
  <2>1. CASE \E i \in DOMAIN pending : IsLast(pending, n, i)
    <3>1. PICK i \in DOMAIN pending : IsLast(pending, n, i)
      BY <2>1
    <3>2. Overlay(stored, pending)[n] = pending[i][n]
      BY <3>1, <1>1, OverlayLast DEF TypeOK
    <3>3. n \in DOMAIN pending[i] /\ n \notin Dropdown
      BY <3>1, NameAssumption DEF IsLast
    <3> QED BY <3>2, <3>3, <1>2, WriteType
  <2>2. CASE \A i \in DOMAIN pending : ~ IsLast(pending, n, i)
    BY <2>2, <1>1, OverlayNone
  <2> QED BY <2>1, <2>2
<1>4. Overlay(stored, pending) = [n \in Name |-> Overlay(stored, pending)[n]]
  BY <1>1 DEF Overlay
<1> QED BY <1>3, <1>4 DEF Plants

\* A snapshot has finitely many rows, and the order in which a dictionary
\* lists them is a sequence of them.
LEMMA RowsFinite ==
  ASSUME NEW f
  PROVE  Rows(f) \subseteq Plant \cup Whole /\ IsFiniteSet(Rows(f))
<1>1. Rows(f) \subseteq Plant \cup Whole
  BY DEF Rows
<1>2. Rows(f) \subseteq Name
  BY <1>1 DEF Name
<1> QED BY <1>1, <1>2, NameAssumption, FS_Subset

LEMMA OrderType ==
  ASSUME NEW f, NEW o \in SetToSeqs(Rows(f))
  PROVE  o \in Seq(Plant \cup Whole) /\ \A r \in DOMAIN o : o[r] \in Rows(f)
<1>1. Cardinality(Rows(f)) \in Nat
  BY RowsFinite, FS_CardinalityType
<1>2. o \in [1 .. Cardinality(Rows(f)) -> Rows(f)]
  BY DEF SetToSeqs
<1>3. o \in Seq(Plant \cup Whole)
  BY <1>1, <1>2, RowsFinite, SeqDef
<1> QED BY <1>2, <1>3

LEMMA DieType ==
  ASSUME TypeOK, NEW c \in {"off"} \cup Cause, Die(c)
  PROVE  TypeOK'
<1>1. Memory
  BY DEF Die
<1>2. /\ pending' \in Seq(Write) /\ sent' \in 0 .. Len(pending')
      /\ reads' \in Seq(Reader) /\ events' \in Seq([who : Reader, snap : Plants])
      /\ options' \in Seq(Plant \cup Whole) /\ shown' \in Seq(Plant \cup Whole)
  BY <1>1, EmptySeq DEF Memory
<1>3. /\ plant_names' \in Plants
      /\ name' \in Name \cup {BadName} /\ trait' \in Trait
      /\ logins' \in Nat /\ signed' \in BOOLEAN /\ behind' \in BOOLEAN
  BY <1>1, NameAssumption DEF Memory, Entry, Plants
<1>4. DOMAIN dd' = Dropdown /\ \A d \in Dropdown :
        dd'[d] \in [ix : -1 .. LastIx[d], label : -1 .. LastIx[d]]
  BY <1>1, IndexAssumption DEF Memory, Cleared, NoIndex, Title
<1>5. /\ phase' \in {"off", "on"} \cup Cause
      /\ stored' \in Plants /\ farm' \in Recipe
      /\ goal' \in Recipe \cup {Null} /\ exact' \in BOOLEAN
  BY DEF Die, TypeOK
<1> QED BY <1>2, <1>3, <1>4, <1>5 DEF TypeOK

LEMMA TypeInit == Init => TypeOK
<1> SUFFICES ASSUME Init PROVE TypeOK
  OBVIOUS
<1>1. /\ pending \in Seq(Write) /\ sent \in 0 .. Len(pending)
      /\ reads \in Seq(Reader) /\ events \in Seq([who : Reader, snap : Plants])
      /\ options \in Seq(Plant \cup Whole) /\ shown \in Seq(Plant \cup Whole)
  BY EmptySeq DEF Init
<1>2. DOMAIN dd = Dropdown /\ \A d \in Dropdown :
        dd[d] \in [ix : -1 .. LastIx[d], label : -1 .. LastIx[d]]
  BY IndexAssumption DEF Init, Cleared, NoIndex, Title
<1>3. plant_names \in Plants
  BY DEF Init, Plants, Entry
<1> QED BY <1>1, <1>2, <1>3, NameAssumption DEF Init, TypeOK

\* Append and Tail stay inside a sequence type.
LEMMA QueueType ==
  ASSUME NEW S, NEW q \in Seq(S)
  PROVE  /\ \A w \in S : Append(q, w) \in Seq(S) /\ Len(Append(q, w)) = Len(q) + 1
                           /\ Append(q, w) # <<>>
         /\ q # <<>> => Tail(q) \in Seq(S) /\ Len(Tail(q)) = Len(q) - 1 /\ Len(q) > 0
         /\ Len(q) \in Nat
BY AppendProperties, HeadTailProperties, LenProperties, EmptySeq

\* A queue of readers or answers keeps its type when every element changes.
LEMMA MapType ==
  ASSUME NEW S, NEW T, NEW q \in Seq(S), NEW m,
         m = [i \in DOMAIN q |-> m[i]], \A i \in DOMAIN q : m[i] \in T
  PROVE  m \in Seq(T) /\ Len(m) = Len(q)
<1>1. DOMAIN q = 1 .. Len(q) /\ Len(q) \in Nat
  BY LenProperties
<1>2. m \in [1 .. Len(q) -> T]
  BY <1>1
<1>3. m \in Seq(T)
  BY <1>1, <1>2, SeqDef
<1> QED BY <1>1, <1>2, <1>3, LenProperties

LEMMA TypeLoad == TypeOK /\ (\E s \in Plants : ViewDidLoad(s)) => TypeOK'
<1> SUFFICES ASSUME TypeOK, NEW s \in Plants, ViewDidLoad(s) PROVE TypeOK'
  OBVIOUS
<1>1. CASE NoDictionary(s)
  BY <1>1, DieType DEF ViewDidLoad, Cause
<1>2. CASE ~ NoDictionary(s)
  <2>1. options' \in Seq(Plant \cup Whole)
    BY <1>2, OrderType DEF ViewDidLoad
  <2>2. exact' \in BOOLEAN
    BY <1>2, Zenon DEF ViewDidLoad
  <2> QED BY <1>2, <2>1, <2>2 DEF ViewDidLoad, TypeOK, server, asked, form
<1> QED BY <1>1, <1>2

LEMMA UnreadableCause == \A p : Unreadable(p) \in {"oddName", "coveredRow", "nilLookup"}
BY DEF Unreadable

LEMMA TypeTap == TypeOK /\ (\E r \in DOMAIN shown : TapRow(r)) => TypeOK'
<1> SUFFICES ASSUME TypeOK, NEW r \in DOMAIN shown, TapRow(r) PROVE TypeOK'
  OBVIOUS
<1> DEFINE p == options[r]
           ix == [d \in Dropdown |-> Decode(d, plant_names[p].recipe[d])]
<1>1. CASE \E c \in Cause : Die(c)
  BY <1>1, DieType
<1>2. CASE ~ \E c \in Cause : Die(c)
  <2>1. /\ r \in DOMAIN options /\ p \in Readable(plant_names)
        /\ \A d \in Dropdown : ix[d] \in 0 .. LastIx[d]
        /\ shown' = options /\ name' = p /\ trait' = plant_names[p].trait
        /\ dd' = [d \in Dropdown |-> [ix |-> ix[d], label |-> ix[d]]]
        /\ UNCHANGED <<phase, server, asked, plant_names, options, login, ghost>>
    BY <1>2, UnreadableCause DEF TapRow, Cause
  <2>2. p \in Plant /\ p \in Name /\ plant_names[p] # Null
    BY <2>1 DEF Readable, Name
  <2>3. plant_names[p] \in Setting
    BY <2>2 DEF TypeOK, Entry, Plants
  <2>4. DOMAIN dd' = Dropdown /\ \A d \in Dropdown :
          dd'[d] \in [ix : -1 .. LastIx[d], label : -1 .. LastIx[d]]
    <3> HIDE DEF ix
    <3> QED BY <2>1, IndexAssumption
  <2>5. trait' \in Trait
    BY <2>1, <2>3 DEF Setting
  <2> QED BY <2>1, <2>2, <2>4, <2>5 DEF TypeOK, server, asked, login, ghost
<1> QED BY <1>1, <1>2

\* Two facts about Create and Delete that the proofs need again: what they
\* queue is an entry of a plant's name, and a read goes with it.
PlantWritten ==
  \E n \in Name, e \in Entry :
    /\ pending' = Append(pending, Entered(n, e)) /\ reads' = Append(reads, "window")
    /\ phase = "on" /\ UNCHANGED <<phase, stored, farm, sent, events, plant_names,
                                   table, login, ghost>>

LEMMA CreateWrites ==
  ASSUME TypeOK, Create, ~ \E c \in Cause : Die(c), ~ UNCHANGED vars
  PROVE  PlantWritten /\ UNCHANGED form
<1> DEFINE e == [recipe |-> Current, trait |-> trait]
<1>1. /\ Chosen /\ name # BadName /\ pending' = Append(pending, Entered(name, e))
      /\ reads' = Append(reads, "window") /\ phase = "on"
      /\ UNCHANGED <<phase, stored, farm, sent, events, plant_names, table, form,
                     login, ghost>>
  BY DEF Create, Cause
<1>2. name \in Name /\ e \in Entry
  BY <1>1, CurrentRecipe DEF TypeOK, Entry, Setting
<1> HIDE DEF e
<1> QED BY <1>1, <1>2 DEF PlantWritten

LEMMA DeleteWrites ==
  ASSUME TypeOK, Delete, ~ \E c \in Cause : Die(c), ~ UNCHANGED vars
  PROVE  /\ name' = BadName /\ trait' = NoTrait
         /\ dd' = [d \in Dropdown |-> [ix |-> dd[d].ix, label |-> Title]]
         /\ \/ PlantWritten
            \/ UNCHANGED <<phase, server, asked, plant_names, table, login, ghost>>
<1>1. /\ signed => name # BadName
      /\ pending' = IF signed THEN Append(pending, Entered(name, Null)) ELSE pending
      /\ reads' = IF signed THEN Append(reads, "window") ELSE reads
      /\ name' = BadName /\ trait' = NoTrait
      /\ dd' = [d \in Dropdown |-> [ix |-> dd[d].ix, label |-> Title]]
      /\ phase = "on"
      /\ UNCHANGED <<phase, stored, farm, sent, events, plant_names, table, login, ghost>>
  BY DEF Delete, Cause
<1>2. CASE signed
  <2>1. name \in Name /\ Null \in Entry
    BY <1>1, <1>2 DEF TypeOK, Entry
  <2> QED BY <1>1, <1>2, <2>1 DEF PlantWritten
<1>3. CASE ~ signed
  BY <1>1, <1>3 DEF server, asked
<1> QED BY <1>1, <1>2, <1>3

LEMMA PlantWrittenType ==
  ASSUME TypeOK, PlantWritten
  PROVE  /\ pending' \in Seq(Write) /\ sent' \in 0 .. Len(pending')
         /\ reads' \in Seq(Reader)
<1>1. PICK n \in Name, e \in Entry :
        /\ pending' = Append(pending, Entered(n, e)) /\ reads' = Append(reads, "window")
        /\ sent' = sent
  BY DEF PlantWritten
<1>2. Entered(n, e) \in Write /\ "window" \in Reader
  BY EnteredType DEF Reader
<1> QED BY <1>1, <1>2, QueueType DEF TypeOK

LEMMA TypeButtons == TypeOK /\ (Create \/ Delete \/ Start) => TypeOK'
<1> SUFFICES ASSUME TypeOK, Create \/ Delete \/ Start PROVE TypeOK'
  OBVIOUS
<1>1. CASE \E c \in Cause : Die(c)
  BY <1>1, DieType
<1>2. CASE UNCHANGED vars
  BY <1>2 DEF TypeOK, vars, server, asked, table, form, login, ghost
<1>3. ASSUME Create, ~ \E c \in Cause : Die(c), ~ UNCHANGED vars
      PROVE  TypeOK'
  <2>1. PlantWritten /\ UNCHANGED form
    BY <1>3, CreateWrites
  <2> QED BY <2>1, PlantWrittenType DEF PlantWritten, TypeOK, table, form, login, ghost
<1>4. ASSUME Delete, ~ \E c \in Cause : Die(c), ~ UNCHANGED vars
      PROVE  TypeOK'
  <2>1. /\ name' = BadName /\ trait' = NoTrait
        /\ dd' = [d \in Dropdown |-> [ix |-> dd[d].ix, label |-> Title]]
        /\ \/ PlantWritten
           \/ UNCHANGED <<phase, server, asked, plant_names, table, login, ghost>>
    BY <1>4, DeleteWrites
  <2>2. DOMAIN dd' = Dropdown /\ \A d \in Dropdown :
          dd'[d] \in [ix : -1 .. LastIx[d], label : -1 .. LastIx[d]]
    BY <2>1, IndexAssumption DEF TypeOK, Title
  <2>3. name' \in Name \cup {BadName} /\ trait' \in Trait
    BY <2>1, NameAssumption
  <2>4. CASE PlantWritten
    BY <2>2, <2>3, <2>4, PlantWrittenType DEF PlantWritten, TypeOK, table, login, ghost
  <2>5. CASE UNCHANGED <<phase, server, asked, plant_names, table, login, ghost>>
    BY <2>2, <2>3, <2>5 DEF TypeOK, server, asked, table, login, ghost
  <2> QED BY <2>1, <2>4, <2>5
<1>5. ASSUME Start, ~ \E c \in Cause : Die(c), ~ UNCHANGED vars
      PROVE  TypeOK'
  <2> DEFINE w(d) == Set(d, Current[d])
  <2>1. /\ Chosen /\ goal' = Current
        /\ pending' = Append(Append(Append(pending, w("timer")), w("sleep")), w("temp"))
        /\ UNCHANGED <<phase, stored, farm, sent, asked, plant_names, table, form,
                       login, exact, behind>>
    BY <1>5 DEF Start, Cause
  <2>2. Current \in Recipe
    BY <2>1, CurrentRecipe
  <2>3. w("timer") \in Write /\ w("sleep") \in Write /\ w("temp") \in Write
    BY <2>2, SetType DEF Recipe, Dropdown
  <2>4. pending' \in Seq(Write) /\ sent' \in 0 .. Len(pending')
    <3> HIDE DEF w
    <3>1. Append(pending, w("timer")) \in Seq(Write)
      BY <2>3, QueueType DEF TypeOK
    <3>2. Append(Append(pending, w("timer")), w("sleep")) \in Seq(Write)
      BY <3>1, <2>3, QueueType
    <3>3. pending' \in Seq(Write) /\ Len(pending') = Len(pending) + 3
      BY <3>1, <3>2, <2>1, <2>3, QueueType DEF TypeOK
    <3> QED BY <3>3, <2>1, QueueType DEF TypeOK
  <2> QED BY <2>1, <2>2, <2>4 DEF TypeOK, asked, table, form, login
<1> QED BY <1>1, <1>2, <1>3, <1>4, <1>5

\* The answer at the head of the main queue, and the queue without it.
LEMMA HeadType ==
  ASSUME TypeOK, events # <<>>
  PROVE  /\ Head(events).snap \in Plants /\ Head(events) \in [who : Reader, snap : Plants]
         /\ Tail(events) \in Seq([who : Reader, snap : Plants])
<1> DEFINE S == [who : Reader, snap : Plants]
<1>1. events \in Seq(S)
  BY DEF TypeOK
<1>2. Head(events) \in S /\ Tail(events) \in Seq(S)
  <2> HIDE DEF S
  <2> QED BY <1>1, HeadTailProperties
<1> QED BY <1>2

\* A second window takes over: the readers change, the answers do not.
LEMMA Relabelled ==
  ASSUME TypeOK, SetupAgain, events # <<>>, ~ NoDictionary(Head(events).snap)
  PROVE  /\ reads' \in Seq(Reader) /\ Len(reads') = Len(reads)
         /\ events' \in Seq([who : Reader, snap : Plants])
         /\ Len(events') = Len(Tail(events))
         /\ \A i \in DOMAIN Tail(events) : events'[i].snap = Tail(events)[i].snap
<1> DEFINE Below(w) == IF w = "window" THEN "covered" ELSE w
           S == [who : Reader, snap : Plants]
           t == Tail(events)
<1>1. /\ reads' = [i \in DOMAIN reads |-> Below(reads[i])]
      /\ events' = [i \in DOMAIN t |-> [t[i] EXCEPT !.who = Below(@)]]
  BY DEF SetupAgain
<1>2. \A i \in DOMAIN reads : reads[i] \in Reader
  BY ElementOfSeq, LenProperties DEF TypeOK
<1>3. t \in Seq(S)
  BY HeadType
<1>4. \A i \in DOMAIN t : t[i] \in S
  <2> HIDE DEF S, t
  <2> QED BY <1>3, ElementOfSeq, LenProperties
<1>5. \A i \in DOMAIN reads : reads'[i] \in Reader
  BY <1>1, <1>2 DEF Reader
<1>6. \A i \in DOMAIN t : events'[i] \in S /\ events'[i].snap = t[i].snap
  <2> SUFFICES ASSUME NEW i \in DOMAIN t
               PROVE  events'[i] \in S /\ events'[i].snap = t[i].snap
    OBVIOUS
  <2> HIDE DEF t
  <2>1. t[i] \in S /\ events'[i] = [t[i] EXCEPT !.who = Below(@)]
    BY <1>1, <1>4
  <2> QED BY <2>1 DEF Reader
<1>7. reads' = [i \in DOMAIN reads |-> reads'[i]] /\ events' = [i \in DOMAIN t |-> events'[i]]
  <2> HIDE DEF t
  <2> QED BY <1>1
<1>8. reads' \in Seq(Reader) /\ Len(reads') = Len(reads)
  BY <1>5, <1>7, MapType DEF TypeOK
<1>9. events' \in Seq(S) /\ Len(events') = Len(t)
  <2> HIDE DEF S, t
  <2> QED BY <1>3, <1>6, <1>7, MapType
<1> QED BY <1>6, <1>8, <1>9

LEMMA TypeDeliver == TypeOK /\ Deliver => TypeOK'
<1> SUFFICES ASSUME TypeOK, Deliver PROVE TypeOK'
  OBVIOUS
<1> DEFINE s == Head(events).snap
<1>1. events # <<>>
  BY DEF Deliver, Refresh, RefreshCovered, SetupAgain, Answered
<1>2. s \in Plants /\ Tail(events) \in Seq([who : Reader, snap : Plants])
  BY <1>1, HeadType
<1>3. CASE NoDictionary(s)
  <2>1. \E c \in Cause : Die(c)
    BY <1>3 DEF Deliver, Refresh, RefreshCovered, SetupAgain, Cause
  <2> QED BY <2>1, DieType
<1>4. CASE ~ NoDictionary(s) /\ Refresh
  <2>1. options' \in Seq(Plant \cup Whole)
    BY <1>4, OrderType DEF Refresh
  <2> QED BY <1>2, <1>4, <2>1 DEF Refresh, TypeOK, server, form, login
<1>5. CASE ~ NoDictionary(s) /\ RefreshCovered
  BY <1>2, <1>5 DEF RefreshCovered, TypeOK, server, table, form, login
<1>6. CASE ~ NoDictionary(s) /\ SetupAgain
  <2>1. /\ plant_names' = s /\ \E o \in SetToSeqs(Rows(s)) : options' = o
        /\ shown' = <<>> /\ name' = BadName /\ trait' = NoTrait /\ dd' = Cleared
        /\ behind' = FALSE
        /\ UNCHANGED <<phase, server, login, goal, exact>>
    BY <1>6 DEF SetupAgain
  <2>2. options' \in Seq(Plant \cup Whole) /\ shown' \in Seq(Plant \cup Whole)
    BY <2>1, OrderType, EmptySeq
  <2>3. reads' \in Seq(Reader) /\ events' \in Seq([who : Reader, snap : Plants])
    BY <1>1, <1>6, Relabelled
  <2>4. DOMAIN dd' = Dropdown /\ \A d \in Dropdown :
          dd'[d] \in [ix : -1 .. LastIx[d], label : -1 .. LastIx[d]]
    BY <2>1, IndexAssumption DEF Cleared, NoIndex, Title
  <2>5. name' \in Name \cup {BadName} /\ trait' \in Trait
    BY <2>1, NameAssumption
  <2> QED BY <1>2, <2>1, <2>2, <2>3, <2>4, <2>5 DEF TypeOK, server, login
<1> QED BY <1>3, <1>4, <1>5, <1>6 DEF Deliver

LEMMA TypeStore == TypeOK /\ Store => TypeOK'
<1> SUFFICES ASSUME TypeOK, Store PROVE TypeOK'
  OBVIOUS
<1>1. CASE Apply
  <2> DEFINE w == pending[sent + 1]
  <2>1. w \in Write
    BY <1>1, ElementOfSeq DEF Apply, TypeOK
  <2>2. \/ DOMAIN w \subseteq Name /\ \A k \in DOMAIN w : w[k] \in Entry
        \/ \E d \in Dropdown : DOMAIN w = {d} /\ w[d] \in Value(d)
    BY <2>1, WriteType
  <2>3. stored' = Written(stored, w) /\ farm' = Written(farm, w)
    BY <1>1 DEF Apply
  <2> HIDE DEF w
  <2>4. stored' \in Plants
    BY <2>2, <2>3, NameAssumption DEF TypeOK, Written, Plants
  <2>5. farm' \in Recipe
    <3>1. /\ farm \in [Dropdown -> UNION {Value(d) : d \in Dropdown}]
          /\ \A d \in Dropdown : farm[d] \in Value(d)
      BY DEF TypeOK, Recipe
    <3>2. farm' = [d \in Dropdown |-> IF d \in DOMAIN w THEN w[d] ELSE farm[d]]
      BY <2>3, <3>1 DEF Written
    <3>3. \A d \in Dropdown : farm'[d] \in Value(d)
      BY <2>2, <3>1, <3>2, NameAssumption
    <3> QED BY <3>2, <3>3 DEF Recipe
  <2> QED BY <1>1, <2>4, <2>5, LenProperties DEF Apply, TypeOK, asked, table, form, login, ghost
<1>2. CASE Ack
  <2>1. pending # <<>>
    BY <1>2, EmptySeq DEF Ack, TypeOK
  <2>2. pending' \in Seq(Write) /\ sent' \in 0 .. Len(pending')
    BY <1>2, <2>1, QueueType DEF Ack, TypeOK
  <2> QED BY <1>2, <2>2 DEF Ack, TypeOK, asked, table, form, login, ghost
<1>3. CASE Reconnect
  BY <1>3, QueueType DEF Reconnect, TypeOK, asked, table, form, login, ghost
<1>4. CASE Refuse
  <2>1. pending' \in Seq(Write) /\ sent' \in 0 .. Len(pending')
    BY <1>4, QueueType DEF Refuse, TypeOK
  <2>2. exact' \in BOOLEAN
    BY <1>4, Zenon DEF Refuse, TypeOK
  <2> QED BY <1>4, <2>1, <2>2 DEF Refuse, TypeOK, asked, table, form, login
<1>5. CASE Answer
  <2> DEFINE e == [who |-> Head(reads), snap |-> Overlay(stored, pending)]
  <2>1. Head(reads) \in Reader /\ reads' \in Seq(Reader)
    BY <1>5, HeadTailProperties DEF Answer, TypeOK
  <2>2. e \in [who : Reader, snap : Plants]
    BY <2>1, OverlayType
  <2>3. events' = Append(events, e)
    BY <1>5 DEF Answer
  <2> HIDE DEF e
  <2>4. events' \in Seq([who : Reader, snap : Plants])
    BY <2>2, <2>3, QueueType DEF TypeOK
  <2> QED BY <1>5, <2>1, <2>4 DEF Answer, TypeOK, server, table, form, login, ghost
<1>6. CASE Cancel
  <2>1. reads' \in Seq(Reader)
    BY <1>6, QueueType DEF Cancel, TypeOK
  <2>2. exact' \in BOOLEAN
    BY <1>6, Zenon DEF Cancel
  <2> QED BY <1>6, <2>1, <2>2 DEF Cancel, TypeOK, server, table, form, login
<1>7. CASE Deliver
  BY <1>7, TypeDeliver
<1> QED BY <1>1, <1>2, <1>3, <1>4, <1>5, <1>6, <1>7 DEF Store

\* The login window and the auth library.
LEMMA TypeAccount == TypeOK /\ Account => TypeOK'
<1> SUFFICES ASSUME TypeOK, Account PROVE TypeOK'
  OBVIOUS
<1>1. CASE LoginAgain
  <2>1. reads' \in Seq(Reader)
    BY <1>1, QueueType DEF LoginAgain, TypeOK, Reader
  <2> QED BY <1>1, <2>1 DEF LoginAgain, TypeOK, server, table, form, ghost
<1>2. CASE ForcedSignOut \/ SignInAgain
  BY <1>2 DEF ForcedSignOut, SignInAgain, TypeOK, server, asked, table, form, ghost
<1> QED BY <1>1, <1>2 DEF Account

LEMMA TypeStep == TypeOK /\ [Next]_vars => TypeOK'
<1> SUFFICES ASSUME TypeOK, [Next]_vars PROVE TypeOK'
  OBVIOUS
<1>1. CASE \E s \in Plants : ViewDidLoad(s)
  BY <1>1, TypeLoad
<1>2. CASE Kill
  BY <1>2, DieType DEF Kill
<1>3. CASE \E n \in Name \cup {BadName} : TypeName(n)
  BY <1>3 DEF TypeName, TypeOK, server, asked, table, login, ghost
<1>4. CASE \E t \in Trait : TypeTrait(t)
  BY <1>4 DEF TypeTrait, TypeOK, server, asked, table, login, ghost
<1>5. ASSUME NEW d \in Dropdown, NEW ix \in 0 .. LastIx[d], Pick(d, ix)
      PROVE  TypeOK'
  <2>1. ix \in -1 .. LastIx[d]
    BY IndexAssumption
  <2> QED BY <1>5, <2>1 DEF Pick, TypeOK, server, asked, table, login, ghost
<1>6. CASE Touch
  BY <1>6, EmptySeq DEF Touch, TypeOK, server, asked, form, login, ghost
<1>7. CASE \E r \in DOMAIN shown : TapRow(r)
  BY <1>7, TypeTap
<1>8. CASE Create \/ Delete \/ Start
  BY <1>8, TypeButtons
<1>9. CASE Store
  BY <1>9, TypeStore
<1>10. ASSUME NEW n \in Name, NEW e \in Entry, OtherPlant(n, e)
       PROVE  TypeOK'
  <2>1. stored' \in Plants
    BY <1>10, EnteredType DEF OtherPlant, TypeOK, Plants, Written
  <2> QED BY <1>10, <2>1 DEF OtherPlant, TypeOK, asked, table, form, login
<1>11. ASSUME NEW d \in Dropdown, NEW v \in Value(d), OtherStart(d, v)
       PROVE  TypeOK'
  <2>1. farm' \in Recipe
    BY <1>11 DEF OtherStart, TypeOK, Recipe
  <2> QED BY <1>11, <2>1 DEF OtherStart, TypeOK, asked, table, form, login
<1>12. CASE UNCHANGED vars
  BY <1>12 DEF TypeOK, vars, server, asked, table, form, login, ghost
<1>13. CASE Account
  BY <1>13, TypeAccount
<1> QED
  BY <1>1, <1>2, <1>3, <1>4, <1>5, <1>6, <1>7, <1>8, <1>9, <1>10, <1>11, <1>12, <1>13
     DEF Next, User, Others

\* Type correctness, with the range of every stored number.
THEOREM TypeCorrect == Spec => []TypeOK
BY TypeInit, TypeStep, PTL DEF Spec
-----------------------------------------------------------------------------
(***************************************************************************)
(* The form.                                                               *)
(***************************************************************************)

LEMMA DieForm ==
  ASSUME NEW c \in {"off", "noPlants", "emptied", "nilIndex", "badPath", "staleRow",
                    "oddName", "coveredRow"},
         Die(c)
  PROVE  FormInv'
<1>1. OptionsKnown'
  BY DEF Die, Memory, OptionsKnown
<1>2. LabelsTrue'
  BY DEF Die, Memory, LabelsTrue, Cleared, NoIndex, Title
<1>3. SelectionSafe' /\ StartSafe'
  BY DEF Die, SelectionSafe, StartSafe
<1> QED BY <1>1, <1>2, <1>3 DEF FormInv

\* The steps that touch neither the list nor the drop-downs nor the phase.
LEMMA FormFrame ==
  ASSUME FormInv, UNCHANGED <<phase, options, plant_names, behind, dd>>
  PROVE  FormInv'
BY DEF FormInv, OptionsKnown, LabelsTrue, SelectionSafe, StartSafe, Rows

\* A tapped row that is in range is a key of the dictionary unless a covered
\* window's read came in between, and the numbers stored under a readable key
\* are indices of the drop-downs.
LEMMA FormTap ==
  ASSUME TypeOK, FormInv, NEW r \in DOMAIN shown, TapRow(r)
  PROVE  FormInv'
<1> DEFINE p == options[r]
           ix == [d \in Dropdown |-> Decode(d, plant_names[p].recipe[d])]
<1>1. CASE r \notin DOMAIN options
  BY <1>1, DieForm DEF TapRow
<1>2. CASE r \in DOMAIN options /\ p \notin Readable(plant_names)
  <2>1. Die(Unreadable(p))
    BY <1>2 DEF TapRow
  <2>2. behind \/ p \in Rows(plant_names)
    BY <1>2 DEF FormInv, OptionsKnown
  <2>3. Unreadable(p) \in {"oddName", "coveredRow"}
    BY <2>2 DEF Unreadable
  <2> HIDE DEF p
  <2> QED BY <2>1, <2>3, DieForm
<1>3. CASE r \in DOMAIN options /\ p \in Readable(plant_names)
  <2>1. p \in Name /\ plant_names[p] # Null
    BY <1>3 DEF Readable, Name
  <2>2. plant_names[p].recipe \in Recipe
    BY <2>1 DEF TypeOK, Entry, Setting, Plants
  <2>3. \A d \in Dropdown : plant_names[p].recipe[d] \in Value(d)
    BY <2>2 DEF Recipe
  <2>4. \A d \in Dropdown : ix[d] \in 0 .. LastIx[d]
    BY <2>3, ValueDecode
  <2>5. /\ dd' = [d \in Dropdown |-> [ix |-> ix[d], label |-> ix[d]]]
        /\ UNCHANGED <<phase, plant_names, options, behind>>
    BY <1>3, <2>4 DEF TapRow, ghost
  <2>6. LabelsTrue'
    <3> HIDE DEF ix
    <3> QED BY <2>5 DEF LabelsTrue
  <2> QED BY <2>5, <2>6 DEF FormInv, OptionsKnown, SelectionSafe, StartSafe, Rows
<1> QED BY <1>1, <1>2, <1>3

LEMMA FormButtons ==
  ASSUME TypeOK, FormInv, Create \/ Delete \/ Start
  PROVE  FormInv'
<1>1. CASE Create
  <2>1. CASE Die("nilIndex") \/ Die("badPath")
    BY <2>1, DieForm
  <2>2. CASE ~ (Die("nilIndex") \/ Die("badPath"))
    BY <1>1, <2>2, FormFrame DEF Create, vars, server, table, form, ghost
  <2> QED BY <2>1, <2>2
<1>2. CASE Delete
  <2>1. CASE Die("badPath")
    BY <2>1, DieForm
  <2>2. CASE UNCHANGED vars
    BY <2>2, FormFrame DEF vars, server, table, form, ghost
  <2>3. CASE ~ Die("badPath") /\ ~ UNCHANGED vars
    <3>1. /\ dd' = [d \in Dropdown |-> [ix |-> dd[d].ix, label |-> Title]]
          /\ UNCHANGED <<phase, plant_names, options, behind>>
      BY <1>2, <2>3 DEF Delete, table, ghost
    <3> QED BY <3>1 DEF FormInv, OptionsKnown, LabelsTrue, SelectionSafe, StartSafe, Rows
  <2> QED BY <2>1, <2>2, <2>3
<1>3. CASE Start
  <2>1. Untitled => Chosen
    BY DEF Untitled, Chosen, FormInv, LabelsTrue, Title, NoIndex
  <2> QED BY <1>3, <2>1, FormFrame DEF Start, vars, server, table, form, ghost
<1> QED BY <1>1, <1>2, <1>3

\* The answers that come back: a new window or a refresh lists what it got, a
\* covered window's answer leaves the options behind.
LEMMA FormDeliver == FormInv /\ Deliver => FormInv'
<1> SUFFICES ASSUME FormInv, Deliver PROVE FormInv'
  OBVIOUS
<1> DEFINE s == Head(events).snap
<1>1. CASE NoDictionary(s)
  <2>1. Die("emptied") \/ Die("noPlants")
    BY <1>1 DEF Deliver, Refresh, RefreshCovered, SetupAgain
  <2> QED BY <2>1, DieForm
<1>2. CASE ~ NoDictionary(s) /\ Refresh
  <2>1. plant_names' = s /\ \E o \in SetToSeqs(Rows(s)) : options' = o
    BY <1>2 DEF Refresh
  <2>2. OptionsKnown'
    BY <2>1, OrderType DEF OptionsKnown, Rows
  <2> QED BY <1>2, <2>2 DEF Refresh, FormInv, LabelsTrue, SelectionSafe, StartSafe, form
<1>3. CASE ~ NoDictionary(s) /\ RefreshCovered
  BY <1>3 DEF RefreshCovered, FormInv, OptionsKnown, LabelsTrue, SelectionSafe, StartSafe, form
<1>4. CASE ~ NoDictionary(s) /\ SetupAgain
  <2>1. /\ plant_names' = s /\ \E o \in SetToSeqs(Rows(s)) : options' = o
        /\ dd' = Cleared /\ phase' = phase
    BY <1>4 DEF SetupAgain
  <2>2. OptionsKnown'
    BY <2>1, OrderType DEF OptionsKnown, Rows
  <2> QED BY <2>1, <2>2
          DEF FormInv, LabelsTrue, SelectionSafe, StartSafe, Cleared, Title
<1> QED BY <1>1, <1>2, <1>3, <1>4 DEF Deliver

LEMMA FormStep == TypeOK /\ FormInv /\ [Next]_vars => FormInv'
<1> SUFFICES ASSUME TypeOK, FormInv, [Next]_vars PROVE FormInv'
  OBVIOUS
<1>1. ASSUME NEW s \in Plants, ViewDidLoad(s) PROVE FormInv'
  <2>1. CASE NoDictionary(s)
    BY <1>1, <2>1, DieForm DEF ViewDidLoad
  <2>2. CASE ~ NoDictionary(s)
    <3>1. plant_names' = s /\ \E o \in SetToSeqs(Rows(s)) : options' = o
      BY <1>1, <2>2 DEF ViewDidLoad
    <3>2. OptionsKnown'
      BY <3>1, OrderType DEF OptionsKnown, Rows
    <3> QED BY <1>1, <2>2, <3>2
            DEF ViewDidLoad, FormInv, LabelsTrue, SelectionSafe, StartSafe, form
  <2> QED BY <2>1, <2>2
<1>2. CASE Kill
  BY <1>2, DieForm DEF Kill
<1>3. CASE \E n \in Name \cup {BadName} : TypeName(n)
  BY <1>3, FormFrame DEF TypeName, table, ghost
<1>4. CASE \E t \in Trait : TypeTrait(t)
  BY <1>4, FormFrame DEF TypeTrait, table, ghost
<1>5. ASSUME NEW d \in Dropdown, NEW ix \in 0 .. LastIx[d], Pick(d, ix)
      PROVE  FormInv'
  <2>1. LabelsTrue'
    BY <1>5 DEF Pick, FormInv, LabelsTrue, TypeOK
  <2> QED BY <1>5, <2>1 DEF Pick, FormInv, OptionsKnown, SelectionSafe, StartSafe, table, ghost, Rows
<1>6. CASE Touch
  BY <1>6, FormFrame DEF Touch, form, ghost
<1>7. CASE \E r \in DOMAIN shown : TapRow(r)
  BY <1>7, FormTap
<1>8. CASE Create \/ Delete \/ Start
  BY <1>8, FormButtons
<1>9. CASE Apply \/ Ack \/ Reconnect \/ Refuse \/ Answer \/ Cancel
  BY <1>9, FormFrame DEF Apply, Ack, Reconnect, Refuse, Answer, Cancel, table, form, ghost
<1>10. CASE Deliver
  BY <1>10, FormDeliver
<1>11. CASE Others
  BY <1>11, FormFrame DEF Others, OtherPlant, OtherStart, table, form
<1>12. CASE UNCHANGED vars
  BY <1>12, FormFrame DEF vars, table, form, ghost
<1>13. CASE Account
  BY <1>13, FormFrame DEF Account, LoginAgain, ForcedSignOut, SignInAgain, table, form, ghost
<1> QED
  BY <1>1, <1>2, <1>3, <1>4, <1>5, <1>6, <1>7, <1>8, <1>9, <1>10, <1>11, <1>12, <1>13
     DEF Next, User, Store

LEMMA FormInit == Init => FormInv
BY DEF Init, FormInv, OptionsKnown, LabelsTrue, SelectionSafe, StartSafe, Cleared, Title

LEMMA FormCorrect == Spec => [](TypeOK /\ FormInv)
<1>1. Init => TypeOK /\ FormInv
  BY TypeInit, FormInit
<1>2. TypeOK /\ FormInv /\ [Next]_vars => (TypeOK /\ FormInv)'
  BY TypeStep, FormStep
<1> QED BY <1>1, <1>2, PTL DEF Spec

\* A selection ends the process only at a key that really holds no settings
\* of its own, or after a covered window's read.
THEOREM SelectionIsSafe == Spec => []SelectionSafe
<1>1. FormInv => SelectionSafe
  BY DEF FormInv
<1> QED BY <1>1, FormCorrect, PTL

\* Start never unwraps a missing index.
THEOREM StartIsSafe == Spec => []StartSafe
<1>1. FormInv => StartSafe
  BY DEF FormInv
<1> QED BY <1>1, FormCorrect, PTL
\* The recipe last started changes only in Start; every other step keeps it
\* or voids it.
LEMMA GoalStep ==
  ASSUME [Next]_vars
  PROVE  \/ goal' = goal
         \/ goal' = Null
         \/ Start /\ Untitled /\ Chosen /\ goal' = Current
<1>1. CASE \E c \in {"off"} \cup Cause : Die(c)
  BY <1>1 DEF Die
<1>2. CASE Start
  BY <1>1, <1>2 DEF Start, Cause, vars, ghost
<1>3. CASE (\E s \in Plants : ViewDidLoad(s)) \/ Kill
  BY <1>1, <1>3 DEF ViewDidLoad, Kill, Cause
<1>4. CASE \E r \in DOMAIN shown : TapRow(r)
  BY <1>1, <1>4, UnreadableCause DEF TapRow, Cause, ghost
<1>5. CASE Create \/ Delete
  BY <1>1, <1>5 DEF Create, Delete, Cause, vars, ghost
<1>6. CASE Store
  BY <1>1, <1>6 DEF Store, Apply, Ack, Reconnect, Refuse, Answer, Cancel, Deliver,
                    Refresh, RefreshCovered, SetupAgain, Cause, ghost
<1>7. CASE Others
  BY <1>7 DEF Others, OtherPlant, OtherStart
<1>8. CASE \/ \E n \in Name \cup {BadName} : TypeName(n)
           \/ \E t \in Trait : TypeTrait(t)
           \/ \E d \in Dropdown : \E ix \in 0 .. LastIx[d] : Pick(d, ix)
           \/ Touch
  BY <1>8 DEF TypeName, TypeTrait, Pick, Touch, ghost
<1>9. CASE UNCHANGED vars
  BY <1>9 DEF vars, ghost
<1>10. CASE Account
  BY <1>10 DEF Account, LoginAgain, ForcedSignOut, SignInAgain, ghost
<1> QED BY <1>2, <1>3, <1>4, <1>5, <1>6, <1>7, <1>8, <1>9, <1>10 DEF Next, User

\* What is started is what is shown.
THEOREM StartsWhatIsShown == Spec => StartedAsShown
<1>1. FormInv /\ [Next]_vars =>
        [goal' # goal /\ goal' # Null =>
           \A d \in Dropdown : goal'[d] = Encode(d, dd[d].label)]_vars
  <2> SUFFICES ASSUME FormInv, [Next]_vars, goal' # goal, goal' # Null
               PROVE  \A d \in Dropdown : goal'[d] = Encode(d, dd[d].label)
    OBVIOUS
  <2>1. Untitled /\ goal' = Current
    BY GoalStep
  <2> QED BY <2>1 DEF Untitled, Current, FormInv, LabelsTrue
<1> QED BY <1>1, FormCorrect, PTL DEF Spec, StartedAsShown

-----------------------------------------------------------------------------
(***************************************************************************)
(* The write queue.                                                        *)
(***************************************************************************)

\* What a step may do to the queue, and what it then does to the stores.
QueueKept  == UNCHANGED <<stored, farm, pending, sent, goal>>
QueueGrown == \E n \in Name, e \in Entry :
                /\ pending' = Append(pending, Entered(n, e))
                /\ UNCHANGED <<stored, farm, sent, goal>>
QueueStart == /\ Current \in Recipe /\ goal' = Current
              /\ pending' = Append(Append(Append(pending,
                               Set("timer", Current["timer"])),
                               Set("sleep", Current["sleep"])),
                               Set("temp", Current["temp"]))
              /\ UNCHANGED <<stored, farm, sent>>

LEMMA QueueStep ==
  ASSUME TypeOK, [Next]_vars
  PROVE  \/ \E c \in {"off"} \cup Cause : Die(c)
         \/ QueueKept \/ QueueGrown \/ QueueStart
         \/ Apply \/ Ack \/ Reconnect \/ Refuse
         \/ \E n \in Name, e \in Entry : OtherPlant(n, e)
         \/ \E d \in Dropdown : \E v \in Value(d) : OtherStart(d, v)
<1> SUFFICES ASSUME ~ \E c \in {"off"} \cup Cause : Die(c)
             PROVE  \/ QueueKept \/ QueueGrown \/ QueueStart
                    \/ Apply \/ Ack \/ Reconnect \/ Refuse
                    \/ \E n \in Name, e \in Entry : OtherPlant(n, e)
                    \/ \E d \in Dropdown : \E v \in Value(d) : OtherStart(d, v)
  OBVIOUS
<1>1. CASE (\E s \in Plants : ViewDidLoad(s)) \/ Kill
  BY <1>1 DEF ViewDidLoad, Kill, Cause, QueueKept, server
<1>2. CASE \/ \E n \in Name \cup {BadName} : TypeName(n)
           \/ \E t \in Trait : TypeTrait(t)
           \/ \E d \in Dropdown : \E ix \in 0 .. LastIx[d] : Pick(d, ix)
           \/ Touch
  BY <1>2 DEF TypeName, TypeTrait, Pick, Touch, QueueKept, server, ghost
<1>3. CASE \E r \in DOMAIN shown : TapRow(r)
  BY <1>3, UnreadableCause DEF TapRow, Cause, QueueKept, server, ghost
<1>4. CASE Create
  <2>1. CASE UNCHANGED vars
    BY <2>1 DEF vars, server, ghost, QueueKept
  <2>2. CASE ~ UNCHANGED vars
    BY <1>4, <2>2, CreateWrites DEF PlantWritten, QueueGrown, ghost
  <2> QED BY <2>1, <2>2
<1>5. CASE Delete
  <2>1. CASE UNCHANGED vars
    BY <2>1 DEF vars, server, ghost, QueueKept
  <2>2. CASE ~ UNCHANGED vars
    BY <1>5, <2>2, DeleteWrites DEF PlantWritten, QueueGrown, QueueKept, server, ghost
  <2> QED BY <2>1, <2>2
<1>6. CASE Start
  <2>1. CASE UNCHANGED vars
    BY <2>1 DEF vars, server, ghost, QueueKept
  <2>2. CASE ~ UNCHANGED vars
    <3>1. Chosen
      BY <1>6, <2>2 DEF Start, Cause
    <3>2. Current \in Recipe
      BY <3>1, CurrentRecipe
    <3> QED BY <1>6, <2>2, <3>1, <3>2 DEF Start, Cause, QueueStart
  <2> QED BY <2>1, <2>2
<1>7. CASE Answer \/ Cancel \/ Deliver \/ Account
  BY <1>7 DEF Answer, Cancel, Deliver, Refresh, RefreshCovered, SetupAgain, Account,
              LoginAgain, ForcedSignOut, SignInAgain, Cause, QueueKept, server, ghost
<1>8. CASE UNCHANGED vars
  BY <1>8 DEF vars, server, ghost, QueueKept
<1> QED BY <1>1, <1>2, <1>3, <1>4, <1>5, <1>6, <1>7, <1>8 DEF Next, User, Store, Others

\* The three writes of Start are writes of the queue.
LEMMA StartWrites ==
  ASSUME TypeOK, QueueStart, NEW d \in Dropdown
  PROVE  /\ Set(d, Current[d]) \in Write
         /\ DOMAIN Set(d, Current[d]) = {d} /\ Set(d, Current[d])[d] = Current[d]
BY SetType DEF QueueStart, Recipe

\* A store's functions are determined by their values.
LEMMA StoreFunctions ==
  ASSUME TypeOK
  PROVE  /\ DOMAIN stored = Name /\ stored = [n \in DOMAIN stored |-> stored[n]]
         /\ DOMAIN farm = Dropdown /\ farm = [d \in DOMAIN farm |-> farm[d]]
BY DEF TypeOK, Recipe, Plants

\* A write of keys of another store is invisible in this one.
LEMMA WrittenElsewhere ==
  ASSUME NEW base, NEW w, DOMAIN w \cap DOMAIN base = {},
         base = [k \in DOMAIN base |-> base[k]]
  PROVE  Written(base, w) = base
<1>1. Written(base, w) = [k \in DOMAIN base |-> base[k]]
  BY DEF Written
<1> QED BY <1>1

LEMMA OverlayFunction ==
  ASSUME NEW base, NEW q
  PROVE  /\ DOMAIN Overlay(base, q) = DOMAIN base
         /\ Overlay(base, q) = [k \in DOMAIN Overlay(base, q) |-> Overlay(base, q)[k]]
BY DEF Overlay

-----------------------------------------------------------------------------
(***************************************************************************)
(* The recipe.                                                             *)
(***************************************************************************)

\* Start overwrites all three keys, so older writes, applied or not, no
\* longer count.
LEMMA RecipeStart ==
  ASSUME TypeOK, QueueStart
  PROVE  RecipeInv'
<1> DEFINE w(d) == Set(d, Current[d])
           q1 == Append(pending, w("timer"))
           q2 == Append(q1, w("sleep"))
           q3 == Append(q2, w("temp"))
<1>1. w("timer") \in Write /\ w("sleep") \in Write /\ w("temp") \in Write
  BY StartWrites DEF Dropdown
<1>2. pending' = q3 /\ goal' = Current /\ farm' = farm /\ sent' = sent
  BY DEF QueueStart
<1>3. pending \in Seq(Write) /\ sent \in 0 .. Len(pending) /\ Len(pending) \in Nat
  BY LenProperties DEF TypeOK
<1>4. /\ DOMAIN w("timer") = {"timer"} /\ w("timer")["timer"] = Current["timer"]
      /\ DOMAIN w("sleep") = {"sleep"} /\ w("sleep")["sleep"] = Current["sleep"]
      /\ DOMAIN w("temp") = {"temp"} /\ w("temp")["temp"] = Current["temp"]
  BY StartWrites DEF Dropdown
<1> HIDE DEF w
<1>5. /\ q1 \in Seq(Write) /\ Len(q1) = Len(pending) + 1
      /\ q1[Len(pending) + 1] = w("timer")
      /\ Overlay(farm, q1) = Written(Overlay(farm, pending), w("timer"))
  BY <1>1, <1>3, AppendProperties, OverlayAppend
<1> HIDE DEF q1
<1>6. /\ q2 \in Seq(Write) /\ Len(q2) = Len(pending) + 2
      /\ q2[Len(pending) + 1] = w("timer") /\ q2[Len(pending) + 2] = w("sleep")
      /\ Overlay(farm, q2) = Written(Overlay(farm, q1), w("sleep"))
  BY <1>1, <1>3, <1>5, AppendProperties, OverlayAppend
<1> HIDE DEF q2
<1>7. /\ q3 \in Seq(Write) /\ DOMAIN q3 = 1 .. (Len(pending) + 3)
      /\ q3[Len(pending) + 1] = w("timer") /\ q3[Len(pending) + 2] = w("sleep")
      /\ q3[Len(pending) + 3] = w("temp")
      /\ Overlay(farm, q3) = Written(Overlay(farm, q2), w("temp"))
  BY <1>1, <1>3, <1>6, AppendProperties, OverlayAppend, LenProperties
<1> HIDE DEF q3
<1>8. Overlay(farm, q3) = Current
  <2> DEFINE o == Overlay(farm, pending)
  <2>1. DOMAIN o = Dropdown
    BY StoreFunctions, OverlayFunction
  <2> HIDE DEF o
  <2>2. Overlay(farm, q3) = Written(Written(Written(o, w("timer")), w("sleep")), w("temp"))
    BY <1>5, <1>6, <1>7 DEF o
  <2>3. Written(Written(Written(o, w("timer")), w("sleep")), w("temp"))
          = [d \in Dropdown |-> IF d = "temp" THEN Current["temp"]
                                ELSE IF d = "sleep" THEN Current["sleep"]
                                ELSE IF d = "timer" THEN Current["timer"] ELSE o[d]]
    BY <2>1, <1>4 DEF Written
  <2>4. Current = [d \in Dropdown |-> Current[d]]
    BY DEF Current
  <2>5. \A d \in Dropdown : d \in {"timer", "sleep", "temp"}
    BY DEF Dropdown
  <2> QED BY <2>2, <2>3, <2>4, <2>5
<1>9. ASSUME NEW d \in Dropdown, NEW i \in 1 .. sent
      PROVE  ~ IsLast(q3, d, i)
  <2> DEFINE n == Len(pending)
  <2>1. /\ n + 1 \in (n + 1) .. (n + 3) /\ n + 2 \in (n + 1) .. (n + 3)
        /\ n + 3 \in (n + 1) .. (n + 3)
    BY <1>3
  <2>2. d \in DOMAIN q3[n + 1] \/ d \in DOMAIN q3[n + 2] \/ d \in DOMAIN q3[n + 3]
    BY <1>4, <1>7 DEF Dropdown
  <2>3. \E j \in (n + 1) .. (n + 3) : d \in DOMAIN q3[j]
    BY <2>1, <2>2
  <2> QED BY <2>3, <1>3, <1>7 DEF IsLast
<1>10. Applied(farm, q3, sent)
  BY <1>9, StoreFunctions DEF Applied
<1> QED BY <1>2, <1>8, <1>10 DEF RecipeInv, RecipeHeld

LEMMA RecipeStep ==
  ASSUME TypeOK, RecipeInv, [Next]_vars
  PROVE  RecipeInv'
<1> USE DEF RecipeInv, RecipeHeld
<1>1. CASE \E c \in {"off"} \cup Cause : Die(c)
  <2> SUFFICES ASSUME goal' # Null
               PROVE  Overlay(farm', pending') = goal' /\ Applied(farm', pending', sent')
    OBVIOUS
  <2>1. pending' = <<>> /\ sent' = 0 /\ farm' = farm /\ goal' = goal /\ ~ Void
    BY <1>1 DEF Die, Memory
  <2>2. \A d \in Dropdown : \A i \in DOMAIN pending : ~ IsLast(pending, d, i)
    BY <2>1 DEF Void, IsLast
  <2>3. Overlay(farm, pending) = farm
    BY <2>2, StoreFunctions DEF Overlay
  <2>4. Overlay(farm, <<>>) = farm
    BY StoreFunctions, OverlayEmpty
  <2> QED BY <2>1, <2>3, <2>4 DEF Applied
<1>2. CASE QueueKept
  BY <1>2 DEF QueueKept
<1>3. CASE QueueGrown
  <2> SUFFICES ASSUME goal # Null
               PROVE  Overlay(farm', pending') = goal /\ Applied(farm', pending', sent')
    BY <1>3 DEF QueueGrown
  <2>1. PICK w \in Write :
          /\ pending' = Append(pending, w) /\ DOMAIN w \cap Dropdown = {}
          /\ UNCHANGED <<stored, farm, sent, goal>>
    BY <1>3, EnteredType DEF QueueGrown
  <2>3. Overlay(farm, Append(pending, w)) = Written(Overlay(farm, pending), w)
    BY <2>1, OverlayAppend DEF TypeOK
  <2>4. Written(Overlay(farm, pending), w) = Overlay(farm, pending)
    BY <2>1, StoreFunctions, OverlayFunction, WrittenElsewhere
  <2>5. Applied(farm, Append(pending, w), sent)
    BY <2>1, LenProperties, AppliedAppend DEF TypeOK
  <2> QED BY <2>1, <2>3, <2>4, <2>5
<1>4. CASE QueueStart
  BY <1>4, RecipeStart
<1>5. CASE Apply
  <2>1. sent + 1 \in DOMAIN pending /\ sent \in Nat /\ sent < Len(pending)
    BY <1>5, LenProperties DEF Apply, TypeOK
  <2>2. Overlay(farm', pending) = Overlay(farm, pending)
    BY <1>5, <2>1, OverlayWritten DEF Apply, TypeOK
  <2>3. goal # Null => Applied(farm', pending, sent + 1)
    BY <1>5, <2>1, AppliedStep DEF Apply, TypeOK
  <2> QED BY <1>5, <2>2, <2>3 DEF Apply, ghost
<1>6. CASE Ack
  <2> SUFFICES ASSUME goal # Null
               PROVE  Overlay(farm', pending') = goal /\ Applied(farm', pending', sent')
    BY <1>6 DEF Ack, ghost
  <2>1. pending # <<>> /\ sent \in Nat /\ sent > 0 /\ sent <= Len(pending)
    BY <1>6, EmptySeq, LenProperties DEF Ack, TypeOK
  <2>2. \A k \in DOMAIN farm : IsLast(pending, k, 1) => farm[k] = pending[1][k]
    BY <2>1 DEF Applied
  <2>3. Overlay(farm, Tail(pending)) = Overlay(farm, pending)
    BY <2>1, <2>2, OverlayTail DEF TypeOK
  <2>4. Applied(farm, Tail(pending), sent - 1)
    BY <2>1, AppliedTail DEF TypeOK
  <2> QED BY <1>6, <2>3, <2>4 DEF Ack
<1>7. CASE Reconnect
  BY <1>7 DEF Reconnect, Applied, ghost
<1>8. CASE Refuse
  <2> SUFFICES ASSUME goal' # Null
               PROVE  Overlay(farm', pending') = goal' /\ Applied(farm', pending', sent')
    OBVIOUS
  <2>1. /\ pending # <<>> /\ DOMAIN pending[1] \cap Dropdown = {} /\ goal' = goal
        /\ pending' = Tail(pending) /\ sent' = 0 /\ farm' = farm
    BY <1>8 DEF Refuse
  <2>2. \A k \in DOMAIN farm : ~ IsLast(pending, k, 1)
    BY <2>1, StoreFunctions DEF IsLast
  <2>3. Overlay(farm, Tail(pending)) = Overlay(farm, pending)
    BY <2>1, <2>2, OverlayTail DEF TypeOK
  <2> QED BY <2>1, <2>3 DEF Applied
<1>9. CASE Others
  BY <1>9 DEF Others, OtherPlant, OtherStart
<1> QED BY <1>1, <1>2, <1>3, <1>4, <1>5, <1>6, <1>7, <1>8, <1>9, QueueStep DEF Others

\* A started recipe is never mixed with another one for good.
THEOREM RecipeIsHeld == Spec => []RecipeHeld
<1>1. Init => TypeOK /\ RecipeInv
  BY TypeInit DEF Init, RecipeInv, RecipeHeld
<1>2. TypeOK /\ RecipeInv /\ [Next]_vars
        => (TypeOK /\ RecipeInv)'
  BY TypeStep, RecipeStep
<1>3. RecipeInv => RecipeHeld
  BY DEF RecipeInv
<1> QED BY <1>1, <1>2, <1>3, PTL DEF Spec
-----------------------------------------------------------------------------
(***************************************************************************)
(* The plant list.                                                         *)
(***************************************************************************)

\* Every step that queues a plant's write asks for a read, so the claim of
\* ListCurrent waits for the answer.
LEMMA ListGrown ==
  ASSUME TypeOK, ListInv, PlantWritten
  PROVE  ListInv'
<1>1. PICK n \in Name, e \in Entry :
        /\ pending' = Append(pending, Entered(n, e)) /\ reads' = Append(reads, "window")
        /\ phase = "on" /\ UNCHANGED <<phase, stored, sent, exact>>
  BY DEF PlantWritten, ghost
<1>2. reads' # <<>>
  BY <1>1, QueueType DEF TypeOK, Reader
<1>3. Entered(n, e) \in Write
  BY EnteredType
<1>4. exact => Applied(stored, Append(pending, Entered(n, e)), sent)
  BY <1>1, <1>3, LenProperties, AppliedAppend DEF ListInv, TypeOK
<1> QED BY <1>1, <1>2, <1>4 DEF ListInv, ListCurrent

\* The farm's keys are not plants: Start does not touch the list.
LEMMA ListStart ==
  ASSUME TypeOK, ListInv, Start, ~ UNCHANGED vars,
         ~ \E c \in {"off"} \cup Cause : Die(c)
  PROVE  ListInv'
<1> DEFINE w(d) == Set(d, Current[d])
           q1 == Append(pending, w("timer"))
           q2 == Append(q1, w("sleep"))
           q3 == Append(q2, w("temp"))
<1>1. /\ pending' = q3 /\ phase = "on" /\ Chosen
      /\ UNCHANGED <<phase, stored, sent, reads, events, plant_names, exact>>
  BY DEF Start, Cause, asked
<1>2. ASSUME NEW d \in Dropdown
      PROVE  w(d) \in Write /\ DOMAIN w(d) \cap DOMAIN stored = {}
  <2>1. Current[d] \in Value(d)
    BY <1>1, CurrentRecipe DEF Recipe
  <2>2. w(d) \in Write /\ DOMAIN w(d) = {d} /\ d \notin Name
    BY <2>1, SetType
  <2> QED BY <2>2, StoreFunctions
<1> HIDE DEF w
<1>3. ASSUME NEW q \in Seq(Write), NEW d \in Dropdown, sent <= Len(q),
             exact => Applied(stored, q, sent)
      PROVE  /\ Append(q, w(d)) \in Seq(Write) /\ Len(q) \in Nat
             /\ Len(Append(q, w(d))) = Len(q) + 1
             /\ Overlay(stored, Append(q, w(d))) = Overlay(stored, q)
             /\ exact => Applied(stored, Append(q, w(d)), sent)
  <2>1. Overlay(stored, Append(q, w(d))) = Written(Overlay(stored, q), w(d))
    BY <1>2, OverlayAppend
  <2>2. Written(Overlay(stored, q), w(d)) = Overlay(stored, q)
    BY <1>2, OverlayFunction, WrittenElsewhere
  <2>3. exact => Applied(stored, Append(q, w(d)), sent)
    BY <1>2, <1>3, AppliedAppend DEF TypeOK
  <2> QED BY <1>2, <2>1, <2>2, <2>3, QueueType
<1>4. "timer" \in Dropdown /\ "sleep" \in Dropdown /\ "temp" \in Dropdown
  BY DEF Dropdown
<1>5. /\ pending \in Seq(Write) /\ sent <= Len(pending) /\ Len(pending) \in Nat
      /\ sent \in Nat
      /\ exact => Applied(stored, pending, sent)
  BY <1>1, LenProperties DEF TypeOK, ListInv
<1>6. /\ q1 \in Seq(Write) /\ Len(q1) = Len(pending) + 1 /\ sent <= Len(q1)
      /\ Overlay(stored, q1) = Overlay(stored, pending)
      /\ exact => Applied(stored, q1, sent)
  BY <1>3, <1>4, <1>5
<1> HIDE DEF q1
<1>7. /\ q2 \in Seq(Write) /\ Len(q2) = Len(pending) + 2 /\ sent <= Len(q2)
      /\ Overlay(stored, q2) = Overlay(stored, pending)
      /\ exact => Applied(stored, q2, sent)
  BY <1>3, <1>4, <1>5, <1>6
<1> HIDE DEF q2
<1>8. /\ Overlay(stored, q3) = Overlay(stored, pending)
      /\ exact => Applied(stored, q3, sent)
  BY <1>3, <1>4, <1>7
<1> HIDE DEF q3
<1> QED BY <1>1, <1>8 DEF ListInv, ListCurrent, Latest

\* The answer at the head becomes the dictionary: the latest snapshot is the
\* one it was.
LEMMA LatestTail ==
  ASSUME TypeOK, events # <<>>, plant_names' = Head(events).snap,
         events' \in Seq([who : Reader, snap : Plants]), Len(events') = Len(Tail(events)),
         \A i \in DOMAIN Tail(events) : events'[i].snap = Tail(events)[i].snap
  PROVE  Latest' = Latest
<1> DEFINE S == [who : Reader, snap : Plants]
<1>1. events \in Seq(S) /\ events' \in Seq(S)
  BY DEF TypeOK
<1> HIDE DEF S
<1>2. Len(events) \in Nat /\ Len(events) > 0 /\ Tail(events) \in Seq(S)
  BY <1>1, QueueType
<1>3. CASE Len(events) = 1
  <2>1. Len(events') = 0 /\ Head(events) = events[Len(events)]
    BY <1>1, <1>2, <1>3, HeadTailProperties
  <2>2. events' = <<>>
    BY <1>1, <2>1, EmptySeq
  <2> QED BY <2>1, <2>2 DEF Latest
<1>4. CASE Len(events) # 1
  <2> DEFINE t == Tail(events)
             n == Len(events)
  <2>1. /\ Len(t) = n - 1 /\ t \in Seq(S) /\ DOMAIN t = 1 .. Len(t)
        /\ \A i \in 1 .. Len(t) : t[i] = events[i + 1]
    BY <1>1, <1>2, HeadTailProperties, LenProperties
  <2>2. /\ n \in Nat /\ n > 0 /\ n # 1 /\ Len(events') = Len(t)
        /\ \A i \in DOMAIN t : events'[i].snap = t[i].snap
    BY <1>2, <1>4
  <2> HIDE DEF t, n
  <2>3. n - 1 \in 1 .. Len(t) /\ (n - 1) + 1 = n
    BY <2>1, <2>2
  <2>4. events'[Len(events')].snap = events[n].snap
    BY <2>1, <2>2, <2>3
  <2>5. events' # <<>>
    BY <1>1, <2>1, <2>2, EmptySeq
  <2> QED BY <2>4, <2>5 DEF Latest, n
<1> QED BY <1>3, <1>4

\* The three blocks that take an answer from the main queue.
LEMMA ListDeliver ==
  ASSUME TypeOK, ListInv, Deliver, ~ \E c \in Cause : Die(c)
  PROVE  ListInv'
<1> DEFINE s == Head(events).snap
<1>1. /\ events # <<>> /\ phase = "on" /\ ~ NoDictionary(s) /\ plant_names' = s
      /\ UNCHANGED <<phase, stored, pending, sent, exact>>
  BY DEF Deliver, Refresh, RefreshCovered, SetupAgain, Answered, Cause, server
<1>2. /\ events' \in Seq([who : Reader, snap : Plants]) /\ Len(events') = Len(Tail(events))
      /\ \A i \in DOMAIN Tail(events) : events'[i].snap = Tail(events)[i].snap
      /\ reads' = <<>> => reads = <<>>
  <2>1. CASE Refresh \/ RefreshCovered
    <3>1. events' = Tail(events) /\ reads' = reads
      BY <1>1, <2>1 DEF Refresh, RefreshCovered
    <3> QED BY <1>1, <3>1, HeadType
  <2>2. CASE SetupAgain
    <3>1. /\ reads' \in Seq(Reader) /\ Len(reads') = Len(reads)
          /\ events' \in Seq([who : Reader, snap : Plants])
          /\ Len(events') = Len(Tail(events))
          /\ \A i \in DOMAIN Tail(events) : events'[i].snap = Tail(events)[i].snap
      BY <1>1, <2>2, Relabelled
    <3>2. reads' = <<>> => reads = <<>>
      BY <3>1, EmptySeq DEF TypeOK
    <3> QED BY <3>1, <3>2
  <2> QED BY <2>1, <2>2 DEF Deliver
<1>3. Latest' = Latest
  BY <1>1, <1>2, LatestTail
<1> QED BY <1>1, <1>2, <1>3 DEF ListInv, ListCurrent

LEMMA ListStep ==
  ASSUME TypeOK, ListInv, [Next]_vars
  PROVE  ListInv'
<1>1. CASE \E c \in {"off"} \cup Cause : Die(c)
  BY <1>1 DEF Die, Memory, Cause, ListInv, ListCurrent
<1> SUFFICES ASSUME ~ \E c \in {"off"} \cup Cause : Die(c)
             PROVE  ListInv'
  BY <1>1
<1>2. CASE UNCHANGED <<phase, stored, pending, sent, reads, events, plant_names, exact>>
  BY <1>2 DEF ListInv, ListCurrent, Latest
<1>3. ASSUME NEW s \in Plants, ViewDidLoad(s) PROVE ListInv'
  <2>1. /\ phase # "on" /\ phase' = "on" /\ plant_names' = s /\ exact' = (s = stored)
        /\ UNCHANGED <<stored, pending, sent, reads, events>>
    BY <1>3 DEF ViewDidLoad, Cause, server, asked
  <2>2. pending = <<>> /\ sent = 0 /\ reads = <<>> /\ events = <<>>
    BY <2>1 DEF ListInv
  <2>3. Overlay(stored, <<>>) = stored
    BY StoreFunctions, OverlayEmpty
  <2>4. Applied(stored, pending, sent)'
    BY <2>1, <2>2 DEF Applied
  <2>5. ListCurrent'
    BY <2>1, <2>2, <2>3 DEF ListCurrent, Latest
  <2> QED BY <2>1, <2>4, <2>5 DEF ListInv
<1>4. CASE Kill
  BY <1>4 DEF Kill
<1>5. CASE \/ \E n \in Name \cup {BadName} : TypeName(n)
           \/ \E t \in Trait : TypeTrait(t)
           \/ \E d \in Dropdown : \E ix \in 0 .. LastIx[d] : Pick(d, ix)
           \/ Touch
           \/ \E r \in DOMAIN shown : TapRow(r)
           \/ \E d \in Dropdown : \E v \in Value(d) : OtherStart(d, v)
           \/ UNCHANGED vars
  BY <1>2, <1>5, UnreadableCause
     DEF TypeName, TypeTrait, Pick, Touch, TapRow, OtherStart, Cause, vars, server,
         asked, ghost
<1>6. CASE Create \/ Delete
  <2>1. CASE UNCHANGED vars
    BY <1>5, <2>1
  <2>2. CASE PlantWritten
    BY <2>2, ListGrown
  <2>3. CASE UNCHANGED <<phase, server, asked, plant_names, table, login, ghost>>
    BY <1>2, <2>3 DEF server, asked, ghost
  <2> QED BY <1>6, <2>1, <2>2, <2>3, CreateWrites, DeleteWrites
<1>7. CASE Start
  BY <1>5, <1>7, ListStart
<1>8. CASE Apply
  <2>1. sent + 1 \in DOMAIN pending /\ sent \in Nat /\ sent < Len(pending)
    BY <1>8, LenProperties DEF Apply, TypeOK
  <2>2. Overlay(stored', pending) = Overlay(stored, pending)
    BY <1>8, <2>1, OverlayWritten DEF Apply, TypeOK
  <2>3. phase = "on" /\ exact => Applied(stored', pending, sent + 1)
    BY <1>8, <2>1, AppliedStep DEF Apply, TypeOK, ListInv
  <2>4. phase = "on"
    BY <2>1, EmptySeq DEF ListInv
  <2> QED BY <1>8, <2>2, <2>3, <2>4 DEF Apply, asked, ghost, ListInv, ListCurrent, Latest
<1>9. CASE Ack
  <2>1. /\ pending # <<>> /\ sent \in Nat /\ sent > 0 /\ sent <= Len(pending)
        /\ phase = "on"
    BY <1>9, EmptySeq, LenProperties DEF Ack, TypeOK, ListInv
  <2>2. ASSUME exact
        PROVE  /\ Overlay(stored, Tail(pending)) = Overlay(stored, pending)
               /\ Applied(stored, Tail(pending), sent - 1)
    <3>1. Applied(stored, pending, sent)
      BY <2>1, <2>2 DEF ListInv
    <3>2. \A k \in DOMAIN stored : IsLast(pending, k, 1) => stored[k] = pending[1][k]
      BY <2>1, <3>1 DEF Applied
    <3> QED BY <2>1, <3>1, <3>2, OverlayTail, AppliedTail DEF TypeOK
  <2> QED BY <1>9, <2>1, <2>2 DEF Ack, asked, ghost, ListInv, ListCurrent, Latest
<1>10. CASE Reconnect
  BY <1>10 DEF Reconnect, asked, ghost, ListInv, ListCurrent, Latest, Applied
<1>11. CASE Refuse
  <2>1. /\ pending # <<>> /\ pending' = Tail(pending) /\ sent' = 0 /\ phase = "on"
        /\ exact' => exact /\ DOMAIN pending[1] \cap Name = {}
        /\ UNCHANGED <<phase, stored, reads, events, plant_names>>
    BY <1>11 DEF Refuse, asked, ListInv
  <2>2. ASSUME exact'
        PROVE  Overlay(stored, Tail(pending)) = Overlay(stored, pending)
    <3>1. \A k \in DOMAIN stored : ~ IsLast(pending, k, 1)
      BY <2>1, <2>2, StoreFunctions DEF IsLast
    <3> QED BY <2>1, <3>1, OverlayTail DEF TypeOK
  <2> QED BY <2>1, <2>2 DEF ListInv, ListCurrent, Latest, Applied
<1>12. CASE Answer
  <2> DEFINE a == [who |-> Head(reads), snap |-> Overlay(stored, pending)]
             S == [who : Reader, snap : Plants]
  <2>1. /\ events' = Append(events, a) /\ reads # <<>>
        /\ UNCHANGED <<phase, stored, pending, sent, plant_names, exact>>
    BY <1>12 DEF Answer, server, ghost
  <2>2. a \in S /\ events \in Seq(S) /\ a.snap = Overlay(stored, pending)
    BY <2>1, OverlayType, HeadTailProperties DEF TypeOK
  <2> HIDE DEF a, S
  <2>3. Len(events') = Len(events) + 1 /\ events'[Len(events) + 1] = a /\ events' \in Seq(S)
    BY <2>1, <2>2, AppendProperties
  <2>4. events' # <<>>
    BY <2>2, <2>3, EmptySeq, QueueType
  <2>5. Latest' = Overlay(stored, pending)
    BY <2>2, <2>3, <2>4 DEF Latest
  <2>6. phase = "on"
    BY <2>1 DEF ListInv
  <2> QED BY <2>1, <2>5, <2>6 DEF ListInv, ListCurrent
<1>13. CASE Cancel
  BY <1>13 DEF Cancel, server, ListInv, ListCurrent
<1>14. CASE Deliver
  BY <1>14, ListDeliver
<1>15. CASE \E n \in Name, e \in Entry : OtherPlant(n, e)
  BY <1>15 DEF OtherPlant, asked, ListInv, ListCurrent
<1>16. CASE LoginAgain
  <2>1. reads' # <<>>
    BY <1>16, QueueType DEF LoginAgain, TypeOK, Reader
  <2> QED BY <1>16, <2>1 DEF LoginAgain, server, ghost, ListInv, ListCurrent
<1>17. CASE ForcedSignOut \/ SignInAgain
  BY <1>2, <1>17 DEF ForcedSignOut, SignInAgain, server, asked, ghost
<1> QED
  BY <1>3, <1>4, <1>5, <1>6, <1>7, <1>8, <1>9, <1>10, <1>11, <1>12, <1>13, <1>14, <1>15,
     <1>16, <1>17 DEF Next, User, Store, Account, Others

\* The refreshes keep the plant list current.
THEOREM ListIsCurrent == Spec => []ListCurrent
<1>1. Init => TypeOK /\ ListInv
  BY TypeInit DEF Init, ListInv, ListCurrent
<1>2. TypeOK /\ ListInv /\ [Next]_vars
        => (TypeOK /\ ListInv)'
  BY TypeStep, ListStep
<1>3. ListInv => ListCurrent
  BY DEF ListInv
<1> QED BY <1>1, <1>2, <1>3, PTL DEF Spec

-----------------------------------------------------------------------------
(***************************************************************************)
(* The rows of the plant drop-down.                                        *)
(***************************************************************************)

\* An order of a finite set lists all of it: it has as many places as the
\* set has elements, and no element twice.
LEMMA OrderComplete ==
  ASSUME NEW S, IsFiniteSet(S), NEW o \in SetToSeqs(S)
  PROVE  Range(o) = S
<1> DEFINE D == 1 .. Cardinality(S)
<1>1. Cardinality(S) \in Nat
  BY FS_CardinalityType
<1>2. IsFiniteSet(D) /\ Cardinality(D) = Cardinality(S)
  BY <1>1, FS_Interval
<1>3. o \in [D -> S] /\ \A i, j \in D : i # j => o[i] # o[j]
  BY DEF SetToSeqs
<1>4. o \in Injection(D, S)
  <2>1. \A i, j \in D : o[i] = o[j] => i = j
    BY <1>3
  <2> HIDE DEF D
  <2> QED BY <1>3, <2>1 DEF Injection, IsInjective
<1>5. o \in Surjection(D, S)
  BY <1>2, <1>4, FS_Injection
<1>6. \A x \in S : \E i \in D : o[i] = x
  BY <1>5 DEF Surjection
<1> HIDE DEF D
<1> QED BY <1>3, <1>6 DEF Range

\* While the window is loaded and no covered window's read came in between,
\* the rows are the keys of its dictionary.
RowsInv == phase = "on" /\ ~ behind => Range(options) = Rows(plant_names)

LEMMA RowsOrdered ==
  ASSUME NEW f, NEW o \in SetToSeqs(Rows(f))
  PROVE  Range(o) = Rows(f)
BY RowsFinite, OrderComplete

LEMMA RowsStep == RowsInv /\ [Next]_vars => RowsInv'
<1> SUFFICES ASSUME RowsInv, [Next]_vars PROVE RowsInv'
  OBVIOUS
<1>1. ASSUME NEW c \in {"off"} \cup Cause, Die(c) PROVE RowsInv'
  BY <1>1 DEF Die, Cause, RowsInv
<1> SUFFICES ASSUME ~ \E c \in {"off"} \cup Cause : Die(c)
             PROVE  RowsInv'
  BY <1>1
<1>2. CASE UNCHANGED <<phase, plant_names, options, behind>>
  BY <1>2 DEF RowsInv, Rows
<1>3. ASSUME NEW f, NEW o \in SetToSeqs(Rows(f)), plant_names' = f, options' = o
      PROVE  RowsInv'
  BY <1>3, RowsOrdered DEF RowsInv, Rows
<1>4. CASE (\E s \in Plants : ViewDidLoad(s)) \/ Refresh \/ SetupAgain
  <2>1. \E f : \E o \in SetToSeqs(Rows(f)) : plant_names' = f /\ options' = o
    BY <1>4 DEF ViewDidLoad, Refresh, SetupAgain, Cause
  <2> QED BY <1>3, <2>1
<1>5. CASE RefreshCovered
  BY <1>5 DEF RefreshCovered, Cause, RowsInv
<1>6. CASE \E r \in DOMAIN shown : TapRow(r)
  BY <1>2, <1>6, UnreadableCause DEF TapRow, Cause, ghost
<1>7. CASE Create \/ Delete \/ Start
  BY <1>2, <1>7 DEF Create, Delete, Start, Cause, vars, table, ghost
<1>8. CASE Kill
  BY <1>8 DEF Kill
<1>9. CASE Apply \/ Ack \/ Reconnect \/ Refuse \/ Answer \/ Cancel
  BY <1>2, <1>9 DEF Apply, Ack, Reconnect, Refuse, Answer, Cancel, table, ghost
<1>10. CASE \/ \E n \in Name \cup {BadName} : TypeName(n)
            \/ \E t \in Trait : TypeTrait(t)
            \/ \E d \in Dropdown : \E ix \in 0 .. LastIx[d] : Pick(d, ix)
            \/ Touch
  BY <1>2, <1>10 DEF TypeName, TypeTrait, Pick, Touch, table, ghost
<1>11. CASE Others \/ Account \/ UNCHANGED vars
  BY <1>2, <1>11 DEF Others, OtherPlant, OtherStart, Account, LoginAgain, ForcedSignOut,
                     SignInAgain, vars, table, ghost
<1> QED BY <1>4, <1>5, <1>6, <1>7, <1>8, <1>9, <1>10, <1>11 DEF Next, User, Store, Deliver

\* Once the refreshes are in, the rows of the plant drop-down are exactly the
\* keys the server will hold, for every number of plants and whatever their
\* names look like.
THEOREM RowsAreCurrent == Spec => []RowsCurrent
<1> DEFINE Inv == TypeOK /\ ListInv /\ RowsInv
<1>1. Init => Inv
  BY TypeInit DEF Init, ListInv, ListCurrent, RowsInv
<1>2. Inv /\ [Next]_vars => Inv'
  BY TypeStep, ListStep, RowsStep
<1>3. Inv => RowsCurrent
  BY DEF ListInv, ListCurrent, RowsInv, RowsCurrent, Latest
<1> QED BY <1>1, <1>2, <1>3, PTL DEF Spec

-----------------------------------------------------------------------------
(***************************************************************************)
(* The window keeps the promise of FarmPanel.                              *)
(***************************************************************************)

\* The one piece of equipment of the mapping, set to x and then to y.
LEMMA OneSet ==
  ASSUME NEW x, NEW y
  PROVE  /\ [c \in {"recipe"} |-> x]["recipe"] = x
         /\ [[c \in {"recipe"} |-> x] EXCEPT !["recipe"] = y] = [c \in {"recipe"} |-> y]
OBVIOUS

\* A step that leaves the farm's keys, the choice and the question whether
\* one is queued is a stutter of the panel.
LEMMA PanelIdle ==
  ASSUME farm' = farm, goal' = goal, Void' <=> Void
  PROVE  UNCHANGED Panel!vars
<1>1. (~ Void') = (~ Void)
  OBVIOUS
<1> QED BY <1>1, Zenon DEF Panel!vars

\* Whether a write of the farm is queued, for a queue that grew or shrank.
LEMMA VoidAppend ==
  ASSUME NEW w \in Write, pending \in Seq(Write), pending' = Append(pending, w)
  PROVE  Void' <=> Void \/ DOMAIN w \cap Dropdown # {}
<1> DEFINE n == Len(pending) + 1
<1>1. /\ DOMAIN pending' = 1 .. n /\ DOMAIN pending = 1 .. Len(pending) /\ Len(pending) \in Nat
      /\ pending'[n] = w /\ \A i \in 1 .. Len(pending) : pending'[i] = pending[i]
  BY AppendProperties, LenProperties
<1> QED BY <1>1 DEF Void

LEMMA VoidTail ==
  ASSUME pending \in Seq(Write), pending # <<>>, pending' = Tail(pending)
  PROVE  Void <=> Void' \/ DOMAIN pending[1] \cap Dropdown # {}
<1>1. /\ DOMAIN pending = 1 .. Len(pending) /\ Len(pending) \in Nat /\ Len(pending) >= 1
      /\ DOMAIN pending' = 1 .. Len(pending) - 1
      /\ \A i \in 1 .. Len(pending) - 1 : pending'[i] = pending[i + 1]
  BY HeadTailProperties, LenProperties, EmptySeq
<1>2. Void' => Void
  BY <1>1 DEF Void
<1>3. DOMAIN pending[1] \cap Dropdown # {} => Void
  BY <1>1 DEF Void
<1>4. ASSUME Void PROVE Void' \/ DOMAIN pending[1] \cap Dropdown # {}
  <2>1. PICK i \in 1 .. Len(pending) : DOMAIN pending[i] \cap Dropdown # {}
    BY <1>1, <1>4 DEF Void
  <2>2. CASE i = 1
    BY <2>1, <2>2
  <2>3. CASE i # 1
    <3>1. i - 1 \in 1 .. Len(pending) - 1 /\ (i - 1) + 1 = i
      BY <1>1, <2>3
    <3> QED BY <1>1, <2>1, <3>1 DEF Void
  <2> QED BY <2>2, <2>3
<1> QED BY <1>2, <1>3, <1>4

\* Start is a choice.
LEMMA PanelStart ==
  ASSUME TypeOK, QueueStart
  PROVE  Panel!Next
<1> DEFINE w(d) == Set(d, Current[d])
           q == Append(Append(pending, w("timer")), w("sleep"))
<1>1. /\ w("timer") \in Write /\ w("sleep") \in Write /\ w("temp") \in Write
      /\ DOMAIN w("temp") \cap Dropdown # {}
  BY StartWrites DEF Dropdown
<1>2. pending' = Append(q, w("temp")) /\ goal' = Current /\ Current \in Recipe /\ farm' = farm
  BY DEF QueueStart
<1> HIDE DEF w
<1>3. q \in Seq(Write)
  BY <1>1, QueueType DEF TypeOK
<1> HIDE DEF q
<1>4. /\ Len(q) + 1 \in DOMAIN pending' /\ pending'[Len(q) + 1] = w("temp")
  BY <1>1, <1>2, <1>3, AppendProperties, LenProperties
<1>5. (~ Void') = FALSE
  BY <1>1, <1>4 DEF Void
<1>6. Panel!Choose("recipe", Current)
  BY <1>2, <1>5, OneSet, Zenon DEF Panel!Choose
<1> QED BY <1>2, <1>6 DEF Panel!Next

\* The server applies a write: the farm wavers if the write is one of a recipe.
LEMMA PanelApply ==
  ASSUME TypeOK, Apply
  PROVE  Panel!Next \/ UNCHANGED Panel!vars
<1> DEFINE w == pending[sent + 1]
<1>1. /\ sent + 1 \in DOMAIN pending /\ farm' = Written(farm, w)
      /\ UNCHANGED <<pending, goal>>
  BY LenProperties DEF TypeOK, Apply, ghost
<1>2. Void' <=> Void
  BY <1>1 DEF Void
<1>3. CASE DOMAIN w \cap Dropdown # {}
  <2>1. Void
    BY <1>1, <1>3 DEF Void
  <2>2. (~ Void) = FALSE /\ (~ Void') = FALSE
    BY <1>2, <2>1
  <2>3. farm' \in Recipe
    BY TypeStore DEF Store, TypeOK
  <2>4. Panel!Waver("recipe", farm')
    BY <1>1, <2>2, OneSet, Zenon DEF Panel!Waver
  <2> QED BY <2>3, <2>4 DEF Panel!Next
<1>4. CASE DOMAIN w \cap Dropdown = {}
  <2>1. farm' = farm
    BY <1>1, <1>4, StoreFunctions, WrittenElsewhere
  <2> QED BY <1>1, <1>2, <2>1, PanelIdle
<1> QED BY <1>3, <1>4

\* An acknowledgement settles the farm when it is the last one of a recipe:
\* by then the farm holds what was started, because nothing is left to lay over.
LEMMA PanelAck ==
  ASSUME TypeOK, TypeOK', RecipeInv', Ack
  PROVE  Panel!Next \/ UNCHANGED Panel!vars
<1>1. pending # <<>> /\ pending' = Tail(pending) /\ farm' = farm /\ goal' = goal
  BY EmptySeq, LenProperties DEF Ack, TypeOK, ghost
<1>2. Void' => Void
  BY <1>1, VoidTail DEF TypeOK
<1>3. CASE Void' <=> Void
  BY <1>1, <1>3, PanelIdle
<1>4. CASE Void /\ ~ Void'
  <2>1. Overlay(farm, pending)' = farm'
    <3>1. \A d \in Dropdown : \A i \in DOMAIN pending' : ~ IsLast(pending', d, i)
      BY <1>4 DEF Void, IsLast
    <3> QED BY <1>1, <3>1, StoreFunctions DEF Overlay
  <2>2. goal # Null => farm = goal
    BY <1>1, <2>1 DEF RecipeInv, RecipeHeld
  <2>3. (~ Void') = TRUE
    BY <1>4
  <2>4. Panel!Settle("recipe")
    BY <1>1, <2>2, <2>3, OneSet, Zenon DEF Panel!Settle
  <2> QED BY <2>4 DEF Panel!Next
<1> QED BY <1>2, <1>3, <1>4

\* A refused write of a recipe gives the recipe up; other writes may follow.
LEMMA PanelRefuse ==
  ASSUME TypeOK, Refuse
  PROVE  Panel!Next \/ UNCHANGED Panel!vars
<1>1. /\ pending # <<>> /\ pending' = Tail(pending) /\ farm' = farm
      /\ goal' = IF DOMAIN pending[1] \cap Dropdown # {} THEN Null ELSE goal
  BY DEF Refuse
<1>2. Void <=> Void' \/ DOMAIN pending[1] \cap Dropdown # {}
  BY <1>1, VoidTail DEF TypeOK
<1>3. CASE DOMAIN pending[1] \cap Dropdown # {}
  <2>1. PICK s \in BOOLEAN : (~ Void') = s
    OBVIOUS
  <2>2. goal' = Null
    BY <1>1, <1>3
  <2>3. Panel!GiveUp("recipe", s)
    BY <1>1, <2>1, <2>2, OneSet, Zenon DEF Panel!GiveUp
  <2> QED BY <2>3 DEF Panel!Next
<1>4. CASE DOMAIN pending[1] \cap Dropdown = {}
  BY <1>1, <1>2, <1>4, PanelIdle
<1> QED BY <1>3, <1>4

\* Another phone's start challenges the farm.
LEMMA PanelOther ==
  ASSUME TypeOK, TypeOK', NEW d \in Dropdown, NEW v \in Value(d), OtherStart(d, v)
  PROVE  Panel!Next
<1>1. goal' = Null /\ UNCHANGED pending /\ farm' \in Recipe
  BY DEF OtherStart, TypeOK
<1>2. (~ Void') = (~ Void)
  BY <1>1 DEF Void
<1>3. Panel!Challenge("recipe", farm')
  BY <1>1, <1>2, OneSet, Zenon DEF Panel!Challenge
<1> QED BY <1>1, <1>3 DEF Panel!Next

\* The process ends: a queued recipe is lost, an acknowledged one stands.
LEMMA PanelDie ==
  ASSUME NEW c, Die(c)
  PROVE  Panel!Next \/ UNCHANGED Panel!vars
<1>1. /\ pending' = <<>> /\ farm' = farm
      /\ goal' = IF Void THEN Null ELSE goal
  BY DEF Die, Memory
<1>2. (~ Void') = TRUE
  BY <1>1 DEF Void
<1>3. CASE Void
  <2>1. goal' = Null
    BY <1>1, <1>3
  <2>2. Panel!Restart
    BY <1>1, <1>2, <2>1, Zenon DEF Panel!Restart
  <2> QED BY <2>2 DEF Panel!Next
<1>4. CASE ~ Void
  BY <1>1, <1>2, <1>4, PanelIdle
<1> QED BY <1>3, <1>4

LEMMA PanelInit == Init => Panel!Init
<1> SUFFICES ASSUME Init PROVE Panel!Init
  OBVIOUS
<1>1. farm \in Recipe /\ goal = Null /\ (~ Void) = TRUE
  BY DEF Init, Void
<1>2. [c \in {"recipe"} |-> farm] \in [{"recipe"} -> Recipe]
  BY <1>1
<1> QED BY <1>1, <1>2, Zenon DEF Panel!Init

LEMMA PanelStep ==
  ASSUME TypeOK, TypeOK', RecipeInv', [Next]_vars
  PROVE  [Panel!Next]_(Panel!vars)
<1>1. CASE \E c \in {"off"} \cup Cause : Die(c)
  BY <1>1, PanelDie
<1>2. CASE QueueKept
  BY <1>2, PanelIdle DEF QueueKept, Void
<1>3. CASE QueueGrown
  <2>1. PICK w \in Write :
          /\ pending' = Append(pending, w) /\ DOMAIN w \cap Dropdown = {}
          /\ UNCHANGED <<stored, farm, sent, goal>>
    BY <1>3, EnteredType DEF QueueGrown
  <2>2. Void' <=> Void
    BY <2>1, VoidAppend DEF TypeOK
  <2> QED BY <2>1, <2>2, PanelIdle
<1>4. CASE QueueStart
  BY <1>4, PanelStart
<1>5. CASE Apply
  BY <1>5, PanelApply
<1>6. CASE Ack
  BY <1>6, PanelAck
<1>7. CASE Reconnect
  BY <1>7, PanelIdle DEF Reconnect, Void, ghost
<1>8. CASE Refuse
  BY <1>8, PanelRefuse
<1>9. CASE \E n \in Name, e \in Entry : OtherPlant(n, e)
  BY <1>9, PanelIdle DEF OtherPlant, Void
<1>10. CASE \E d \in Dropdown : \E v \in Value(d) : OtherStart(d, v)
  BY <1>10, PanelOther
<1> QED BY <1>1, <1>2, <1>3, <1>4, <1>5, <1>6, <1>7, <1>8, <1>9, <1>10, QueueStep

\* The Automation window implements FarmPanel with the recipe as its equipment.
THEOREM RecipeRefined == Spec => PanelSpec
<1> DEFINE Inv == TypeOK /\ RecipeInv
<1>1. Init => Inv /\ Panel!Init
  BY TypeInit, PanelInit DEF Init, RecipeInv, RecipeHeld
<1>2. Inv /\ [Next]_vars => Inv'
  BY TypeStep, RecipeStep
<1>3. Inv /\ Inv' /\ [Next]_vars => [Panel!Next]_(Panel!vars)
  BY PanelStep
<1> QED BY <1>1, <1>2, <1>3, PTL DEF Spec, PanelSpec, Panel!Spec

=============================================================================
