-------------------------- MODULE ConnectionProofs --------------------------
(***************************************************************************)
(* Proofs about Connection, for any number of requests, tokens and faults. *)
(***************************************************************************)
EXTENDS Connection, FiniteSetTheorems, SequenceTheorems, TLAPS

-----------------------------------------------------------------------------
(***************************************************************************)
(* Sequences of messages.                                                  *)
(***************************************************************************)

\* A message joins a queue, or the oldest one leaves it.
LEMMA SeqAppend ==
  ASSUME NEW S, NEW q \in Seq(S), NEW x \in S
  PROVE  /\ Append(q, x) \in Seq(S) /\ Len(q) \in Nat /\ DOMAIN q = 1 .. Len(q)
         /\ DOMAIN Append(q, x) = 1 .. Len(q) + 1 /\ Len(Append(q, x)) = Len(q) + 1
         /\ Append(q, x)[Len(q) + 1] = x
         /\ \A i \in 1 .. Len(q) : Append(q, x)[i] = q[i]
BY AppendProperties, LenProperties

LEMMA SeqTail ==
  ASSUME NEW S, NEW q \in Seq(S), q # <<>>
  PROVE  /\ Tail(q) \in Seq(S) /\ Len(q) \in Nat /\ Len(q) > 0 /\ DOMAIN q = 1 .. Len(q)
         /\ Head(q) = q[1] /\ Head(q) \in S
         /\ DOMAIN Tail(q) = 1 .. Len(q) - 1 /\ Len(Tail(q)) = Len(q) - 1
         /\ \A i \in 1 .. Len(q) - 1 : Tail(q)[i] = q[i + 1]
<1>1. /\ Tail(q) \in Seq(S) /\ Len(q) \in Nat /\ Len(q) > 0 /\ DOMAIN q = 1 .. Len(q)
      /\ Head(q) = q[1] /\ Head(q) \in S /\ Len(Tail(q)) = Len(q) - 1
      /\ \A i \in 1 .. Len(q) - 1 : Tail(q)[i] = q[i + 1]
  BY HeadTailProperties, LenProperties, EmptySeq
<1> QED BY <1>1, LenProperties

LEMMA SeqConcat ==
  ASSUME NEW S, NEW q \in Seq(S), NEW t \in Seq(S)
  PROVE  /\ q \o t \in Seq(S) /\ Len(q) \in Nat /\ Len(t) \in Nat
         /\ DOMAIN q = 1 .. Len(q) /\ DOMAIN t = 1 .. Len(t)
         /\ DOMAIN (q \o t) = 1 .. Len(q) + Len(t)
         /\ \A i \in 1 .. Len(q) : (q \o t)[i] = q[i]
         /\ \A i \in 1 .. Len(t) : (q \o t)[Len(q) + i] = t[i]
<1>1. /\ q \o t \in Seq(S) /\ Len(q) \in Nat /\ Len(t) \in Nat
      /\ DOMAIN q = 1 .. Len(q) /\ DOMAIN t = 1 .. Len(t)
      /\ Len(q \o t) = Len(q) + Len(t)
      /\ \A i \in 1 .. Len(q) + Len(t) :
           (q \o t)[i] = IF i <= Len(q) THEN q[i] ELSE t[i - Len(q)]
  BY ConcatProperties, LenProperties
<1>2. DOMAIN (q \o t) = 1 .. Len(q) + Len(t)
  BY <1>1, LenProperties
<1>3. ASSUME NEW i \in 1 .. Len(t) PROVE (q \o t)[Len(q) + i] = t[i]
  <2>1. Len(q) + i \in 1 .. Len(q) + Len(t) /\ ~ (Len(q) + i <= Len(q))
        /\ Len(q) + i - Len(q) = i
    BY <1>1
  <2> QED BY <1>1, <2>1
<1> QED BY <1>1, <1>2, <1>3

\* A sequence given by a function of its index.
LEMMA SeqMap ==
  ASSUME NEW S, NEW n \in Nat, NEW f \in [1 .. n -> S]
  PROVE  f \in Seq(S) /\ Len(f) = n /\ DOMAIN f = 1 .. n
BY SeqDef, LenProperties

\* A request is taken out of a sequence.
LEMMA WithoutType ==
  ASSUME NEW S, NEW q \in Seq(S), NEW x
  PROVE  Without(q, x) \in Seq(S)
<1>1. CASE x \notin ToSet(q)
  BY <1>1 DEF Without
<1>2. CASE x \in ToSet(q)
  <2> DEFINE i == CHOOSE j \in DOMAIN q : q[j] = x
  <2>1. i \in DOMAIN q /\ DOMAIN q = 1 .. Len(q) /\ Len(q) \in Nat
    BY <1>2, LenProperties DEF ToSet
  <2> HIDE DEF i
  <2>2. SubSeq(q, 1, i - 1) \in Seq(S) /\ SubSeq(q, i + 1, Len(q)) \in Seq(S)
    <3>1. 1 \in Int /\ i - 1 \in Int /\ i + 1 \in Int /\ Len(q) \in Int
      BY <2>1
    <3>2. /\ \A j \in 1 .. i - 1 : q[j] \in S
          /\ \A j \in i + 1 .. Len(q) : q[j] \in S
      BY <2>1, ElementOfSeq
    <3> QED BY <3>1, <3>2, SubSeqProperties
  <2>3. SubSeq(q, 1, i - 1) \o SubSeq(q, i + 1, Len(q)) \in Seq(S)
    BY <2>2, ConcatProperties
  <2> QED BY <1>2, <2>3 DEF Without, RemoveAt, i
<1> QED BY <1>1, <1>2

-----------------------------------------------------------------------------
(***************************************************************************)
(* How many listens are under way.                                         *)
(***************************************************************************)
Listening(q) == {i \in DOMAIN q : q[i].op = "listen"}
Count(q)     == Cardinality(Listening(q))

LEMMA CountType ==
  ASSUME NEW S, NEW q \in Seq(S)
  PROVE  IsFiniteSet(Listening(q)) /\ Count(q) \in Nat /\ Listening(q) \subseteq 1 .. Len(q)
<1>1. Listening(q) \subseteq 1 .. Len(q) /\ Len(q) \in Nat
  BY LenProperties DEF Listening
<1>2. IsFiniteSet(1 .. Len(q))
  BY <1>1, FS_Interval
<1> QED BY <1>1, <1>2, FS_Subset, FS_CardinalityType DEF Count

LEMMA CountEmpty == Count(<<>>) = 0
<1>1. Listening(<<>>) = {}
  BY DEF Listening
<1> QED BY <1>1, FS_EmptySet DEF Count

\* Moving a set of indices along does not change how many they are.
LEMMA Shifted ==
  ASSUME NEW A, IsFiniteSet(A), A \subseteq Int, NEW k \in Int
  PROVE  /\ IsFiniteSet({k + i : i \in A})
         /\ Cardinality({k + i : i \in A}) = Cardinality(A)
<1> DEFINE B == {k + i : i \in A}
           f == [i \in A |-> k + i]
<1>1. f \in Bijection(A, B)
  BY DEF Bijection, Injection, Surjection, IsInjective
<1> QED BY <1>1, FS_Bijection DEF ExistsBijection

LEMMA CountConcat ==
  ASSUME NEW S, NEW q \in Seq(S), NEW t \in Seq(S)
  PROVE  Count(q \o t) = Count(q) + Count(t)
<1> DEFINE n == Len(q)
           T == {n + i : i \in Listening(t)}
<1>1. /\ n \in Nat /\ Len(t) \in Nat /\ DOMAIN q = 1 .. n /\ DOMAIN t = 1 .. Len(t)
      /\ DOMAIN (q \o t) = 1 .. n + Len(t)
      /\ \A i \in 1 .. n : (q \o t)[i] = q[i]
      /\ \A i \in 1 .. Len(t) : (q \o t)[n + i] = t[i]
  BY SeqConcat
<1>2. Listening(q \o t) = Listening(q) \cup T
  <2>1. ASSUME NEW i \in Listening(q \o t) PROVE i \in Listening(q) \cup T
    <3>1. CASE i \in 1 .. n
      BY <1>1, <2>1, <3>1 DEF Listening
    <3>2. CASE i \notin 1 .. n
      <4>1. i \in 1 .. n + Len(t) /\ i - n \in 1 .. Len(t) /\ n + (i - n) = i
        BY <1>1, <2>1, <3>2 DEF Listening
      <4>2. i - n \in Listening(t)
        BY <1>1, <2>1, <4>1 DEF Listening
      <4> QED BY <4>1, <4>2
    <3> QED BY <3>1, <3>2
  <2>2. ASSUME NEW i \in Listening(q) PROVE i \in Listening(q \o t)
    BY <1>1, <2>2 DEF Listening
  <2>3. ASSUME NEW i \in Listening(t) PROVE n + i \in Listening(q \o t)
    BY <1>1, <2>3 DEF Listening
  <2> QED BY <2>1, <2>2, <2>3
<1>3. /\ IsFiniteSet(Listening(q)) /\ Listening(q) \subseteq 1 .. n
      /\ IsFiniteSet(Listening(t)) /\ Listening(t) \subseteq 1 .. Len(t)
      /\ Count(q) \in Nat /\ Count(t) \in Nat
  BY CountType
<1>4. IsFiniteSet(T) /\ Cardinality(T) = Count(t)
  BY <1>1, <1>3, Shifted, SMTT(30) DEF Count
<1>5. Listening(q) \cap T = {}
  BY <1>1, <1>3
<1>6. Cardinality(Listening(q) \cup T) = Cardinality(Listening(q)) + Cardinality(T)
  <2> HIDE DEF T
  <2>1. Cardinality(Listening(q) \cap T) = 0
    BY <1>5, FS_EmptySet
  <2>2. Cardinality(Listening(q) \cup T) =
          Cardinality(Listening(q)) + Cardinality(T) - Cardinality(Listening(q) \cap T)
    BY <1>3, <1>4, FS_Union
  <2> QED BY <1>3, <1>4, <2>1, <2>2 DEF Count
<1> QED BY <1>2, <1>4, <1>6 DEF Count

LEMMA CountOne ==
  ASSUME NEW x
  PROVE  Count(<<x>>) = IF x.op = "listen" THEN 1 ELSE 0
<1>1. DOMAIN <<x>> = {1} /\ <<x>>[1] = x
  OBVIOUS
<1>2. CASE x.op = "listen"
  <2>1. Listening(<<x>>) = {1}
    BY <1>1, <1>2 DEF Listening
  <2> QED BY <1>2, <2>1, FS_Singleton DEF Count
<1>3. CASE x.op # "listen"
  <2>1. Listening(<<x>>) = {}
    BY <1>1, <1>3 DEF Listening
  <2> QED BY <1>3, <2>1, FS_EmptySet DEF Count
<1> QED BY <1>2, <1>3

LEMMA CountAppend ==
  ASSUME NEW S, NEW q \in Seq(S), NEW x \in S
  PROVE  Count(Append(q, x)) = Count(q) + (IF x.op = "listen" THEN 1 ELSE 0)
<1>1. <<x>> \in Seq(S) /\ Append(q, x) = q \o <<x>>
  BY AppendIsConcat
<1> QED BY <1>1, CountConcat, CountOne

\* A sequence c made of the head of q and its tail t is q.
LEMMA Unroll ==
  ASSUME NEW S, NEW q \in Seq(S), NEW t \in Seq(S), NEW c \in Seq(S),
         Len(q) > 0, Len(t) = Len(q) - 1,
         \A i \in 1 .. Len(q) - 1 : t[i] = q[i + 1],
         DOMAIN c = 1 .. 1 + Len(t), c[1] = q[1],
         \A i \in 1 .. Len(t) : c[1 + i] = t[i]
  PROVE  q = c
<1>1. Len(q) \in Nat /\ Len(c) \in Nat /\ DOMAIN c = 1 .. Len(c)
  BY LenProperties
<1>2. ASSUME NEW i \in 1 .. Len(q) PROVE q[i] = c[i]
  <2>1. CASE i = 1
    BY <2>1
  <2>2. CASE i # 1
    <3>1. i - 1 \in 1 .. Len(t) /\ (i - 1) + 1 = i /\ 1 + (i - 1) = i
      BY <1>1, <2>2
    <3>2. c[1 + (i - 1)] = t[i - 1] /\ t[i - 1] = q[(i - 1) + 1]
      BY <1>1, <3>1
    <3> QED BY <3>1, <3>2
  <2> QED BY <2>1, <2>2
<1>3. Len(c) = Len(q)
  BY <1>1
<1> QED BY <1>1, <1>2, <1>3, SeqEqual

LEMMA CountTail ==
  ASSUME NEW S, NEW q \in Seq(S), q # <<>>
  PROVE  Count(q) = Count(Tail(q)) + (IF Head(q).op = "listen" THEN 1 ELSE 0)
<1> DEFINE h == <<Head(q)>>
           t == Tail(q)
<1>1. /\ h \in Seq(S) /\ t \in Seq(S) /\ Len(h) = 1 /\ h[1] = q[1]
      /\ Len(q) \in Nat /\ Len(q) > 0 /\ Len(t) = Len(q) - 1
      /\ \A i \in 1 .. Len(q) - 1 : t[i] = q[i + 1]
  BY SeqTail
<1>2. Count(h) = IF Head(q).op = "listen" THEN 1 ELSE 0
  BY CountOne
<1> HIDE DEF h, t
<1>3. q = h \o t
  <2> DEFINE c == h \o t
  <2>1. /\ c \in Seq(S) /\ DOMAIN c = 1 .. Len(h) + Len(t)
        /\ \A i \in 1 .. Len(h) : c[i] = h[i]
        /\ \A i \in 1 .. Len(t) : c[Len(h) + i] = t[i]
    <3>1. h \in Seq(S) /\ t \in Seq(S)
      BY <1>1
    <3> QED BY <3>1, SeqConcat
  <2> HIDE DEF c
  <2>2. DOMAIN c = 1 .. 1 + Len(t) /\ c[1] = q[1] /\ \A i \in 1 .. Len(t) : c[1 + i] = t[i]
    BY <1>1, <2>1
  <2>3. q = c
    BY <1>1, <2>1, <2>2, Unroll
  <2> QED BY <2>3 DEF c
<1>4. Count(q) = Count(h) + Count(t)
  BY <1>1, <1>3, CountConcat
<1>5. Count(h) \in Nat /\ Count(t) \in Nat
  BY <1>1, CountType
<1>6. Count(q) = Count(t) + Count(h)
  BY <1>4, <1>5
<1> QED BY <1>2, <1>6 DEF t

\* What restoreState sends: every listen once, and no put among them.
LEMMA RestoredType ==
  ASSUME puts \in Seq(Nat), listens \in Seq(Nat)
  PROVE  Restored \in Seq(Request) /\ Count(Restored) = Len(listens)
<1> DEFINE l == [i \in DOMAIN listens |-> Req("listen", listens[i])]
           p == [i \in DOMAIN puts |-> Req("put", puts[i])]
<1>1. /\ Len(puts) \in Nat /\ Len(listens) \in Nat
      /\ DOMAIN puts = 1 .. Len(puts) /\ DOMAIN listens = 1 .. Len(listens)
  BY LenProperties
<1>2. \A a \in Nat : Req("listen", a) \in Request /\ Req("put", a) \in Request
  BY DEF Req, Request
<1>3. l \in [1 .. Len(listens) -> Request] /\ p \in [1 .. Len(puts) -> Request]
  BY <1>1, <1>2
<1>4. /\ \A i \in 1 .. Len(listens) : l[i].op = "listen"
      /\ \A i \in 1 .. Len(puts) : p[i].op # "listen"
  BY <1>1 DEF Req
<1> HIDE DEF l, p
<1>5. /\ l \in Seq(Request) /\ DOMAIN l = 1 .. Len(listens)
      /\ p \in Seq(Request) /\ DOMAIN p = 1 .. Len(puts)
  BY <1>1, <1>3, SeqMap
<1>6. Listening(l) = 1 .. Len(listens) /\ Listening(p) = {}
  BY <1>4, <1>5 DEF Listening
<1>7. Count(l) = Len(listens) /\ Count(p) = 0
  <2>1. Cardinality(1 .. Len(listens)) = Len(listens)
    <3>1. Len(listens) \in Int /\ 1 \in Int
      BY <1>1
    <3>2. Cardinality(1 .. Len(listens)) =
            IF 1 > Len(listens) THEN 0 ELSE Len(listens) - 1 + 1
      BY <3>1, FS_Interval
    <3> QED BY <1>1, <3>2
  <2> QED BY <1>6, <2>1, FS_EmptySet DEF Count
<1>8. l \o p \in Seq(Request) /\ Count(l \o p) = Len(listens)
  BY <1>1, <1>5, <1>7, CountConcat, ConcatProperties
<1> QED BY <1>8 DEF Restored, l, p

-----------------------------------------------------------------------------
(***************************************************************************)
(* Types, and the count of the listens under way.                          *)
(***************************************************************************)
Counted == unacked = Count(upstream) + Count(downstream)
Typed   == TypeOK /\ Counted

LEMMA ReqType ==
  ASSUME NEW a \in Nat
  PROVE  \A op \in {"auth", "reauth", "unauth", "put", "listen", "unlisten"} :
           Req(op, a) \in Request /\ Req(op, a).op = op
BY DEF Req, Request

LEMMA OneType ==
  ASSUME NEW S, NEW x \in S
  PROVE  <<x>> \in Seq(S) /\ Count(<<x>>) = IF x.op = "listen" THEN 1 ELSE 0
<1>1. <<x>> \in Seq(S)
  OBVIOUS
<1> QED BY <1>1, CountOne

LEMMA TwoType ==
  ASSUME NEW S, NEW d \in S, NEW x \in S, d.op # "listen", x.op = "listen"
  PROVE  <<d, x>> \in Seq(S) /\ Count(<<d, x>>) = 1
<1>1. <<d, x>> \in Seq(S) /\ DOMAIN <<d, x>> = {1, 2}
  OBVIOUS
<1>2. <<d, x>>[1] = d /\ <<d, x>>[2] = x
  OBVIOUS
<1>3. Listening(<<d, x>>) = {2}
  BY <1>1, <1>2 DEF Listening
<1> QED BY <1>1, <1>3, FS_Singleton DEF Count

\* The server answers every listen exactly once.
LEMMA AnswersType ==
  ASSUME store \in Nat, revoked \in Nat, NEW r \in Request, NEW a \in Answers(r)
  PROVE  a \in Seq(Response) /\ Count(a) = IF r.op = "listen" THEN 1 ELSE 0
<1>1. r.arg \in Nat /\ r.op \in {"auth", "reauth", "unauth", "put", "listen", "unlisten"}
      /\ (r.arg > revoked) \in BOOLEAN
  BY DEF Request
<1>2. ASSUME NEW op \in {"auth", "reauth", "put", "listen"}, NEW ok \in BOOLEAN
      PROVE  Resp(op, r.arg, ok) \in Response /\ Resp(op, r.arg, ok).op = op
             /\ DataPush(r.arg) \in Response /\ DataPush(r.arg).op = "data"
  BY <1>1 DEF Resp, DataPush, Response
<1>3. ASSUME NEW op \in {"auth", "reauth", "put", "listen"}, NEW ok \in BOOLEAN
      PROVE  /\ <<Resp(op, r.arg, ok)>> \in Seq(Response)
             /\ Count(<<Resp(op, r.arg, ok)>>) = IF op = "listen" THEN 1 ELSE 0
  <2>1. Resp(op, r.arg, ok) \in Response /\ Resp(op, r.arg, ok).op = op
    BY <1>2
  <2> QED BY <2>1, OneType
<1>4. CASE r.op \in {"auth", "reauth"}
  <2>1. a = <<Resp(r.op, r.arg, r.arg > revoked)>>
    BY <1>4 DEF Answers
  <2>2. <<Resp(r.op, r.arg, r.arg > revoked)>> \in Seq(Response)
        /\ Count(<<Resp(r.op, r.arg, r.arg > revoked)>>) = 0
    BY <1>1, <1>3, <1>4
  <2> QED BY <1>4, <2>1, <2>2
<1>5. CASE r.op = "put"
  <2>1. a = <<Resp("put", r.arg, TRUE)>>
    BY <1>5 DEF Answers
  <2> QED BY <1>3, <1>5, <2>1
<1>6. CASE r.op = "listen" /\ a = <<DataPush(r.arg), Resp("listen", r.arg, TRUE)>>
  <2>1. /\ DataPush(r.arg) \in Response /\ DataPush(r.arg).op # "listen"
        /\ Resp("listen", r.arg, TRUE) \in Response
        /\ Resp("listen", r.arg, TRUE).op = "listen"
    BY <1>2
  <2>2. <<DataPush(r.arg), Resp("listen", r.arg, TRUE)>> \in Seq(Response)
        /\ Count(<<DataPush(r.arg), Resp("listen", r.arg, TRUE)>>) = 1
    BY <2>1, TwoType
  <2> QED BY <1>6, <2>2
<1>7. CASE r.op = "listen" /\ a = <<Resp("listen", r.arg, FALSE)>>
  BY <1>3, <1>7
<1>8. CASE r.op \in {"unauth", "unlisten"}
  <2>1. a = <<>>
    BY <1>8 DEF Answers
  <2> QED BY <1>8, <2>1, CountEmpty
<1>9. r.op = "listen" => \/ a = <<DataPush(r.arg), Resp("listen", r.arg, TRUE)>>
                         \/ a = <<Resp("listen", r.arg, FALSE)>>
  BY DEF Answers
<1> QED BY <1>1, <1>4, <1>5, <1>6, <1>7, <1>8, <1>9

LEMMA InitTyped == Init => Typed
<1> SUFFICES ASSUME Init PROVE Typed
  OBVIOUS
<1>1. Counted
  BY CountEmpty DEF Init, Counted
<1>2. budget \in [Fault -> Nat]
  BY BoundAssumption DEF Init, Fault
<1>3. /\ connState \in State /\ interrupts \subseteq Reason
      /\ made \in [{"put", "listen"} -> Nat] /\ tokens \in [{"now", "issued"} -> Nat]
  BY DEF Init, State, Reason
<1>4. /\ asked \in Seq(Fetch) /\ mail \in Seq(Mail)
      /\ upstream \in Seq(Request) /\ downstream \in Seq(Response)
      /\ puts \in Seq(Nat) /\ parked \in Seq(Nat) /\ listens \in Seq(Nat)
  BY EmptySeq DEF Init
<1>5. TypeOK
  BY <1>2, <1>3, <1>4 DEF Init, TypeOK
<1> QED BY <1>1, <1>5 DEF Typed

LEMMA SpendType ==
  ASSUME NEW f \in Fault, budget \in [Fault -> Nat], Spend(f)
  PROVE  budget' \in [Fault -> Nat]
BY DEF Spend

LEMMA ScheduleType ==
  ASSUME NEW R, NEW f \in BOOLEAN, ScheduleReconnect(R, f), TypeOK
  PROVE  retry' \in {"none", "cached", "forced"} /\ force' \in BOOLEAN
BY DEF ScheduleReconnect, TypeOK

\* A lost connection takes its messages, and the count of its listens, along.
LEMMA DisconnectType ==
  ASSUME NEW R, NEW f \in BOOLEAN, Disconnect(R, f), TypeOK
  PROVE  /\ connState' = "disconnected" /\ connState' \in State /\ link' = "none"
         /\ retry' \in {"none", "cached", "forced"} /\ force' \in BOOLEAN
         /\ upstream' = <<>> /\ downstream' = <<>> /\ unacked' = 0
         /\ stranded' \in BOOLEAN /\ Counted'
<1>1. retry' \in {"none", "cached", "forced"} /\ force' \in BOOLEAN
  BY ScheduleType DEF Disconnect
<1>2. Counted'
  BY CountEmpty DEF Disconnect, Counted
<1>3. connState' = "disconnected" /\ connState' \in State /\ link' = "none"
      /\ upstream' = <<>> /\ downstream' = <<>> /\ unacked' = 0 /\ stranded' \in BOOLEAN
  BY DEF Disconnect, State
<1> QED BY <1>1, <1>2, <1>3

LEMMA InterruptType ==
  ASSUME NEW r \in Reason, Interrupt(r), Typed
  PROVE  /\ connState' \in State /\ interrupts' \subseteq Reason
         /\ link' \in {"none", "connecting", "connected"}
         /\ retry' \in {"none", "cached", "forced"} /\ force' \in BOOLEAN
         /\ upstream' \in Seq(Request) /\ downstream' \in Seq(Response) /\ unacked' \in Nat
         /\ stranded' \in BOOLEAN /\ Counted'
<1>1. interrupts' \subseteq Reason
  BY DEF Interrupt, Typed, TypeOK
<1>2. CASE link # "none"
  <2>1. Disconnect(interrupts', force) /\ TypeOK /\ force \in BOOLEAN
    BY <1>2 DEF Interrupt, Typed, TypeOK
  <2>2. /\ connState' \in State /\ link' = "none"
        /\ retry' \in {"none", "cached", "forced"} /\ force' \in BOOLEAN
        /\ upstream' = <<>> /\ downstream' = <<>> /\ unacked' = 0
        /\ stranded' \in BOOLEAN /\ Counted'
    BY <2>1, DisconnectType
  <2> QED BY <1>1, <2>2
<1>3. CASE link = "none"
  <2>1. Counted'
    BY <1>3 DEF Interrupt, Typed, Counted, wire
  <2> QED BY <1>1, <1>3, <2>1 DEF Interrupt, Typed, TypeOK, State, wire
<1> QED BY <1>2, <1>3 DEF Typed, TypeOK

LEMMA ResumeType ==
  ASSUME NEW r, Resume(r), TypeOK
  PROVE  /\ interrupts' \subseteq Reason
         /\ retry' \in {"none", "cached", "forced"} /\ force' \in BOOLEAN
<1>1. interrupts' \subseteq Reason /\ force \in BOOLEAN
  BY DEF Resume, TypeOK
<1>2. CASE connState = "disconnected"
  BY <1>1, <1>2, ScheduleType DEF Resume
<1>3. CASE connState # "disconnected"
  BY <1>1, <1>3 DEF Resume, TypeOK
<1> QED BY <1>2, <1>3

\* restoreState counts every listen it sends.
LEMMA RestoreType ==
  ASSUME RestoreState, Typed
  PROVE  /\ connState' \in State /\ upstream' \in Seq(Request) /\ unacked' \in Nat
         /\ Count(upstream') = Count(upstream) + Len(listens)
         /\ unacked' = unacked + Len(listens)
<1>1. puts \in Seq(Nat) /\ listens \in Seq(Nat) /\ upstream \in Seq(Request) /\ unacked \in Nat
  BY DEF Typed, TypeOK
<1>2. Restored \in Seq(Request) /\ Count(Restored) = Len(listens) /\ Len(listens) \in Nat
  BY <1>1, RestoredType, LenProperties
<1>3. upstream' = upstream \o Restored /\ unacked' = unacked + Len(listens)
      /\ connState' \in State
  BY DEF RestoreState, State
<1>4. upstream \o Restored \in Seq(Request)
      /\ Count(upstream \o Restored) = Count(upstream) + Count(Restored)
  BY <1>1, <1>2, ConcatProperties, CountConcat
<1> QED BY <1>1, <1>2, <1>3, <1>4

\* Nothing of the connection's messages changes.
LEMMA CountedSame ==
  ASSUME Counted, UNCHANGED <<unacked, upstream, downstream>>
  PROVE  Counted'
BY DEF Counted

LEMMA SwitchTyped ==
  ASSUME Typed, Open \/ GoOnline \/ Nudge
  PROVE  Typed'
<1>1. Counted'
  BY CountedSame DEF Open, GoOnline, Nudge, data, wire, Typed
<1>2. CASE Open
  <2>1. interrupts' \subseteq Reason
        /\ retry' \in {"none", "cached", "forced"} /\ force' \in BOOLEAN
    BY <1>2, ResumeType DEF Open, Typed
  <2> QED BY <1>1, <1>2, <2>1 DEF Open, Typed, TypeOK, data, wire, outside, history
<1>3. CASE GoOnline
  <2>1. interrupts' \subseteq Reason
        /\ retry' \in {"none", "cached", "forced"} /\ force' \in BOOLEAN
    BY <1>3, ResumeType DEF GoOnline, Typed
  <2> QED BY <1>1, <1>3, <2>1 DEF GoOnline, Typed, TypeOK, data, wire, outside, history
<1>4. CASE Nudge
  <2>1. retry' \in {"none", "cached", "forced"} /\ force' \in BOOLEAN
    BY <1>4, ScheduleType DEF Nudge, Typed, TypeOK
  <2>2. budget' \in [Fault -> Nat]
    BY <1>4, SpendType DEF Nudge, Typed, TypeOK, Fault
  <2> QED BY <1>1, <1>4, <2>1, <2>2 DEF Nudge, Typed, TypeOK, data, wire, outside, history
<1> QED BY <1>2, <1>3, <1>4

LEMMA GoOfflineTyped ==
  ASSUME Typed, GoOffline
  PROVE  Typed'
<1>1. /\ connState' \in State /\ interrupts' \subseteq Reason
      /\ link' \in {"none", "connecting", "connected"}
      /\ retry' \in {"none", "cached", "forced"} /\ force' \in BOOLEAN
      /\ upstream' \in Seq(Request) /\ downstream' \in Seq(Response) /\ unacked' \in Nat
      /\ stranded' \in BOOLEAN /\ Counted'
  BY InterruptType DEF GoOffline, Reason
<1>2. budget' \in [Fault -> Nat]
  BY SpendType DEF GoOffline, Typed, TypeOK, Fault
<1> QED BY <1>1, <1>2 DEF GoOffline, Typed, TypeOK, outside

LEMMA ServerKillTyped ==
  ASSUME Typed, ServerKill
  PROVE  Typed'
<1>1. /\ connState' \in State /\ interrupts' \subseteq Reason
      /\ link' \in {"none", "connecting", "connected"}
      /\ retry' \in {"none", "cached", "forced"} /\ force' \in BOOLEAN
      /\ upstream' \in Seq(Request) /\ downstream' \in Seq(Response) /\ unacked' \in Nat
      /\ stranded' \in BOOLEAN /\ Counted'
  BY InterruptType DEF ServerKill, Reason
<1> QED BY <1>1 DEF ServerKill, Typed, TypeOK, outside

LEMMA DropTyped ==
  ASSUME Typed, Drop
  PROVE  Typed'
<1>1. /\ connState' \in State /\ link' = "none"
      /\ retry' \in {"none", "cached", "forced"} /\ force' \in BOOLEAN
      /\ upstream' = <<>> /\ downstream' = <<>> /\ unacked' = 0
      /\ stranded' \in BOOLEAN /\ Counted'
  BY DisconnectType DEF Drop, Typed, TypeOK
<1>2. budget' \in [Fault -> Nat]
  BY SpendType DEF Drop, Typed, TypeOK, Fault
<1>3. upstream' \in Seq(Request) /\ downstream' \in Seq(Response)
  BY <1>1, EmptySeq
<1> QED BY <1>1, <1>2, <1>3 DEF Drop, Typed, TypeOK, outside

\* Fetches and mail that are marked keep their types.
LEMMA MarkedType ==
  ASSUME NEW q \in Seq(Fetch), NEW m \in Seq(Mail)
  PROVE  /\ [i \in DOMAIN q |-> [q[i] EXCEPT !.current = FALSE]] \in Seq(Fetch)
         /\ [i \in DOMAIN q |-> [q[i] EXCEPT !.left = TRUE]] \in Seq(Fetch)
         /\ [i \in DOMAIN m |-> [m[i] EXCEPT !.current = FALSE]] \in Seq(Mail)
<1>1. /\ Len(q) \in Nat /\ DOMAIN q = 1 .. Len(q) /\ \A i \in 1 .. Len(q) : q[i] \in Fetch
      /\ Len(m) \in Nat /\ DOMAIN m = 1 .. Len(m) /\ \A i \in 1 .. Len(m) : m[i] \in Mail
  BY LenProperties, ElementOfSeq
<1>2. \A f \in Fetch : [f EXCEPT !.current = FALSE] \in Fetch
  BY DEF Fetch
<1>3. \A f \in Fetch : [f EXCEPT !.left = TRUE] \in Fetch
  BY DEF Fetch
<1>4. \A x \in Mail : [x EXCEPT !.current = FALSE] \in Mail
  BY DEF Mail
<1>5. [i \in DOMAIN q |-> [q[i] EXCEPT !.current = FALSE]] \in [1 .. Len(q) -> Fetch]
  BY <1>1, <1>2
<1>6. [i \in DOMAIN q |-> [q[i] EXCEPT !.left = TRUE]] \in [1 .. Len(q) -> Fetch]
  BY <1>1, <1>3
<1>7. [i \in DOMAIN m |-> [m[i] EXCEPT !.current = FALSE]] \in [1 .. Len(m) -> Mail]
  BY <1>1, <1>4
<1> QED BY <1>1, <1>5, <1>6, <1>7, SeqMap

LEMMA RetryFiresTyped ==
  ASSUME Typed, RetryFires
  PROVE  Typed'
<1>1. Counted'
  BY CountedSame DEF RetryFires, data, wire, Typed
<1>2. asked' \in Seq(Fetch) /\ mail' \in Seq(Mail)
  <2>1. asked \in Seq(Fetch) /\ mail \in Seq(Mail)
    BY DEF Typed, TypeOK
  <2>2. [current |-> TRUE, forced |-> retry = "forced", left |-> FALSE] \in Fetch
    BY DEF Fetch
  <2>3. /\ [i \in DOMAIN asked |-> [asked[i] EXCEPT !.current = FALSE]] \in Seq(Fetch)
        /\ [i \in DOMAIN mail |-> [mail[i] EXCEPT !.current = FALSE]] \in Seq(Mail)
    BY <2>1, MarkedType
  <2> QED BY <2>2, <2>3, AppendProperties DEF RetryFires
<1>3. connState' \in State /\ retry' \in {"none", "cached", "forced"}
  BY DEF RetryFires, State
<1> QED BY <1>1, <1>2, <1>3 DEF RetryFires, Typed, TypeOK, data, wire, outside, history

LEMMA MailTail ==
  ASSUME TypeOK, mail # <<>>
  PROVE  /\ Tail(mail) \in Seq(Mail) /\ Head(mail).token \in Nat
         /\ Head(mail).kind \in {"token", "error", "change"} /\ Head(mail).current \in BOOLEAN
<1>1. Tail(mail) \in Seq(Mail) /\ Head(mail) \in Mail
  BY SeqTail DEF TypeOK
<1> QED BY <1>1 DEF Mail

LEMMA TokenFetchedTyped ==
  ASSUME Typed, TokenFetched
  PROVE  Typed'
<1>1. Counted'
  BY CountedSame DEF TokenFetched, data, wire, Typed
<1>2. mail' \in Seq(Mail) /\ Head(mail).token \in Nat
  BY MailTail DEF TokenFetched, Typed
<1>3. connState' \in State /\ link' \in {"none", "connecting", "connected"} /\ authToken' \in Nat
  BY <1>2 DEF TokenFetched, OpenNetworkConnection, State, Typed, TypeOK
<1> QED BY <1>1, <1>2, <1>3 DEF TokenFetched, Typed, TypeOK, data, wire, outside, history

LEMMA TokenFailedTyped ==
  ASSUME Typed, TokenFailed
  PROVE  Typed'
<1>1. Counted'
  BY CountedSame DEF TokenFailed, data, wire, Typed
<1>2. mail' \in Seq(Mail)
  BY MailTail DEF TokenFailed, Typed
<1>3. connState' \in State /\ retry' \in {"none", "cached", "forced"} /\ force' \in BOOLEAN
  BY ScheduleType DEF TokenFailed, State, Typed, TypeOK
<1> QED BY <1>1, <1>2, <1>3 DEF TokenFailed, Typed, TypeOK, data, wire, outside, history

\* A request that is no listen leaves the count as it is.
LEMMA SentCounted ==
  ASSUME Typed, NEW op \in {"auth", "reauth", "unauth", "put", "listen", "unlisten"},
         NEW a \in Nat, upstream' = Append(upstream, Req(op, a)), downstream' = downstream,
         unacked' = unacked + (IF op = "listen" THEN 1 ELSE 0)
  PROVE  upstream' \in Seq(Request) /\ unacked' \in Nat /\ Counted'
<1>1. upstream \in Seq(Request) /\ downstream \in Seq(Response) /\ unacked \in Nat
  BY DEF Typed, TypeOK
<1>2. Req(op, a) \in Request /\ Req(op, a).op = op
  BY ReqType
<1>3. Append(upstream, Req(op, a)) \in Seq(Request)
      /\ Count(Append(upstream, Req(op, a))) = Count(upstream) + (IF op = "listen" THEN 1 ELSE 0)
  BY <1>1, <1>2, CountAppend, AppendProperties
<1>4. Count(upstream) \in Nat /\ Count(downstream) \in Nat
  BY <1>1, CountType
<1>5. unacked = Count(upstream) + Count(downstream)
  BY DEF Typed, Counted
<1>6. Counted'
  BY <1>3, <1>4, <1>5 DEF Counted
<1> QED BY <1>1, <1>3, <1>6

LEMMA TokenChangedTyped ==
  ASSUME Typed, TokenChanged
  PROVE  Typed'
<1>1. mail' \in Seq(Mail) /\ authToken' \in Nat
  BY MailTail DEF TokenChanged, Typed
<1>2. unacked \in Nat /\ unacked' = unacked /\ downstream' = downstream
  BY DEF TokenChanged, data, Typed, TypeOK
<1>3. upstream' \in Seq(Request) /\ Counted'
  <2>1. CASE ~ Connected
    <3>1. upstream' = upstream
      BY <2>1 DEF TokenChanged
    <3> QED BY <3>1, <1>2, CountedSame DEF Typed, TypeOK
  <2>2. CASE Connected /\ authToken' # 0
    <3>1. upstream' = Append(upstream, Req("reauth", authToken'))
      BY <2>2 DEF TokenChanged
    <3>2. unacked' = unacked + 0
      BY <1>2
    <3> QED BY <3>1, <3>2, <1>1, <1>2, SentCounted
  <2>3. CASE Connected /\ authToken' = 0
    <3>1. upstream' = Append(upstream, Req("unauth", 0))
      BY <2>3 DEF TokenChanged
    <3>2. unacked' = unacked + 0
      BY <1>2
    <3> QED BY <3>1, <3>2, <1>2, SentCounted
  <2> QED BY <2>1, <2>2, <2>3
<1> QED BY <1>1, <1>3 DEF TokenChanged, Typed, TypeOK, data, outside, history

LEMMA AuthTyped ==
  ASSUME Typed, AuthAnswers \/ AuthFails \/ IssueToken \/ SignOut
  PROVE  Typed'
<1>1. Counted'
  BY CountedSame DEF AuthAnswers, AuthFails, IssueToken, SignOut, data, wire, Typed
<1>2. /\ asked \in Seq(Fetch) /\ mail \in Seq(Mail) /\ tokens \in [{"now", "issued"} -> Nat]
      /\ tokens.now \in Nat /\ tokens.issued \in Nat
  BY DEF Typed, TypeOK
<1>3. ASSUME NEW k \in {"token", "error", "change"}, NEW c \in BOOLEAN, NEW t \in Nat
      PROVE  [kind |-> k, current |-> c, token |-> t] \in Mail
  BY DEF Mail
<1>4. asked # <<>> => Tail(asked) \in Seq(Fetch) /\ Head(asked).current \in BOOLEAN
  <2> SUFFICES ASSUME asked # <<>>
               PROVE  Tail(asked) \in Seq(Fetch) /\ Head(asked).current \in BOOLEAN
    OBVIOUS
  <2>1. Tail(asked) \in Seq(Fetch) /\ Head(asked) \in Fetch
    BY <1>2, SeqTail
  <2> QED BY <2>1 DEF Fetch
<1>5. CASE AuthAnswers
  <2> DEFINE f == Head(asked)
             t == IF f.forced /\ (f.left \/ tokens.now # 0) THEN tokens.issued + 1 ELSE tokens.now
             answer == [kind |-> "token", current |-> f.current, token |-> t]
             change == [kind |-> "change", current |-> FALSE, token |-> t]
  <2>1. t \in Nat
    BY <1>2
  <2>2. answer \in Mail /\ change \in Mail
    BY <1>3, <1>4, <1>5, <2>1 DEF AuthAnswers
  <2>3. asked' = Tail(asked) /\ asked' \in Seq(Fetch)
    BY <1>4, <1>5 DEF AuthAnswers
  <2>4. /\ \/ /\ mail' = Append(mail, answer)
              /\ tokens' = tokens
           \/ /\ tokens' = [now |-> IF f.left THEN tokens.now ELSE t, issued |-> t]
              /\ mail' = mail \o (IF f.left THEN <<answer>> ELSE <<change, answer>>)
    BY <1>5 DEF AuthAnswers
  <2>5. tokens' \in [{"now", "issued"} -> Nat]
    BY <1>2, <2>1, <2>4
  <2> HIDE DEF answer, change
  <2>6. <<answer>> \in Seq(Mail) /\ <<change, answer>> \in Seq(Mail)
    BY <2>2
  <2>7. mail' \in Seq(Mail)
    <3>1. mail' = Append(mail, answer) \/ mail' = mail \o <<answer>>
          \/ mail' = mail \o <<change, answer>>
      BY <2>4
    <3>2. Append(mail, answer) \in Seq(Mail)
      BY <1>2, <2>2, AppendProperties
    <3>3. mail \o <<answer>> \in Seq(Mail) /\ mail \o <<change, answer>> \in Seq(Mail)
      BY <1>2, <2>6, ConcatProperties
    <3> QED BY <3>1, <3>2, <3>3
  <2> QED BY <1>1, <1>5, <2>3, <2>5, <2>7
       DEF AuthAnswers, Typed, TypeOK, client, data, wire, history
<1>6. CASE AuthFails
  <2>1. budget' \in [Fault -> Nat]
    BY <1>6, SpendType DEF AuthFails, Typed, TypeOK, Fault
  <2>2. [kind |-> "error", current |-> Head(asked).current, token |-> 0] \in Mail
    BY <1>3, <1>4, <1>6 DEF AuthFails
  <2>3. mail' \in Seq(Mail) /\ asked' \in Seq(Fetch)
    BY <1>2, <1>4, <1>6, <2>2, AppendProperties DEF AuthFails
  <2> QED BY <1>1, <1>6, <2>1, <2>3
       DEF AuthFails, Typed, TypeOK, client, data, wire, outside, history
<1>7. CASE IssueToken
  <2>1. tokens' \in [{"now", "issued"} -> Nat] /\ tokens'.now \in Nat
    BY <1>2, <1>7 DEF IssueToken
  <2>2. [kind |-> "change", current |-> FALSE, token |-> tokens'.now] \in Mail
    BY <1>3, <2>1
  <2>3. mail' \in Seq(Mail)
    BY <1>2, <1>7, <2>2, AppendProperties DEF IssueToken
  <2> QED BY <1>1, <1>7, <2>1, <2>3
       DEF IssueToken, Typed, TypeOK, client, data, wire, history
<1>8. CASE SignOut
  <2>1. tokens' \in [{"now", "issued"} -> Nat]
    BY <1>2, <1>8 DEF SignOut
  <2>2. [kind |-> "change", current |-> FALSE, token |-> 0] \in Mail
    BY <1>3
  <2>3. mail' \in Seq(Mail)
    BY <1>2, <1>8, <2>2, AppendProperties DEF SignOut
  <2>4. asked' \in Seq(Fetch)
    BY <1>2, <1>8, MarkedType DEF SignOut
  <2> QED BY <1>1, <1>8, <2>1, <2>3, <2>4
       DEF SignOut, Typed, TypeOK, client, data, wire, history
<1> QED BY <1>5, <1>6, <1>7, <1>8

LEMMA HandshakeTyped ==
  ASSUME Typed, Handshake
  PROVE  Typed'
<1>1. connState' \in State /\ upstream' \in Seq(Request) /\ unacked' \in Nat /\ Counted'
  <2>1. CASE authToken = 0
    <3>1. RestoreState /\ downstream' = downstream
      BY <2>1 DEF Handshake
    <3>2. /\ connState' \in State /\ upstream' \in Seq(Request) /\ unacked' \in Nat
          /\ Count(upstream') = Count(upstream) + Len(listens)
          /\ unacked' = unacked + Len(listens)
      BY <3>1, RestoreType
    <3>3. Count(upstream) \in Nat /\ Count(downstream) \in Nat /\ Len(listens) \in Nat
      BY CountType, LenProperties DEF Typed, TypeOK
    <3>4. Counted'
      BY <3>1, <3>2, <3>3 DEF Typed, Counted
    <3> QED BY <3>2, <3>4
  <2>2. CASE authToken # 0
    <3>1. /\ connState' \in State /\ upstream' = Append(upstream, Req("auth", authToken))
          /\ unacked' = unacked + 0 /\ downstream' = downstream /\ authToken \in Nat
      BY <2>2 DEF Handshake, State, Typed, TypeOK
    <3> QED BY <3>1, SentCounted
  <2> QED BY <2>1, <2>2
<1>2. link' \in {"none", "connecting", "connected"}
  BY DEF Handshake
<1> QED BY <1>1, <1>2 DEF Handshake, Typed, TypeOK, outside, history

LEMMA ServeTyped ==
  ASSUME Typed, Serve
  PROVE  Typed'
<1>1. /\ upstream \in Seq(Request) /\ downstream \in Seq(Response) /\ upstream # <<>>
      /\ store \in Nat /\ revoked \in Nat
  BY DEF Serve, Typed, TypeOK
<1>2. /\ Head(upstream) \in Request /\ Tail(upstream) \in Seq(Request)
      /\ Count(upstream) = Count(Tail(upstream)) + (IF Head(upstream).op = "listen" THEN 1 ELSE 0)
  BY <1>1, SeqTail, CountTail
<1>3. PICK a \in Answers(Head(upstream)) : downstream' = downstream \o a
  BY DEF Serve
<1>4. a \in Seq(Response) /\ Count(a) = IF Head(upstream).op = "listen" THEN 1 ELSE 0
  BY <1>1, <1>2, AnswersType
<1>5. downstream \o a \in Seq(Response) /\ Count(downstream \o a) = Count(downstream) + Count(a)
  BY <1>1, <1>4, ConcatProperties, CountConcat
<1>6. upstream' = Tail(upstream) /\ unacked' = unacked
  BY DEF Serve, data
<1>7. Count(Tail(upstream)) \in Nat /\ Count(downstream) \in Nat
  BY <1>1, <1>2, CountType
<1>8. Counted'
  BY <1>2, <1>3, <1>4, <1>5, <1>6, <1>7 DEF Typed, Counted
<1>9. store' \in Nat
  BY <1>1, <1>2 DEF Serve, Request
<1> QED BY <1>2, <1>3, <1>5, <1>6, <1>8, <1>9 DEF Serve, Typed, TypeOK, client, data, history

LEMMA RevokeTyped ==
  ASSUME Typed, Revoke
  PROVE  Typed'
<1> DEFINE m == Resp("revoked", 0, TRUE)
<1>1. m \in Response /\ m.op # "listen"
  BY DEF Resp, Response
<1>2. downstream \in Seq(Response) /\ upstream' = upstream /\ unacked' = unacked
  BY DEF Revoke, data, Typed, TypeOK
<1>3. budget' \in [Fault -> Nat] /\ revoked' \in Nat
  BY SpendType DEF Revoke, Typed, TypeOK, Fault
<1>4. CASE downstream' = downstream
  BY <1>2, <1>3, <1>4, CountedSame DEF Revoke, Typed, TypeOK, client, data, history
<1>5. CASE downstream' = Append(downstream, m)
  <2> HIDE DEF m
  <2>1. Append(downstream, m) \in Seq(Response)
        /\ Count(Append(downstream, m)) = Count(downstream) + 0
    BY <1>1, <1>2, CountAppend, AppendProperties
  <2>2. Count(downstream) \in Nat
    BY <1>2, CountType
  <2>3. Counted'
    BY <1>2, <1>5, <2>1, <2>2 DEF Typed, Counted
  <2> QED BY <1>2, <1>3, <1>5, <2>1, <2>3 DEF Revoke, Typed, TypeOK, client, data, history
<1> QED BY <1>4, <1>5 DEF Revoke

LEMMA PutTyped ==
  ASSUME Typed, Put
  PROVE  Typed'
<1> DEFINE id == made.put + 1
<1>1. id \in Nat /\ made' \in [{"put", "listen"} -> Nat] /\ puts' = Append(puts, id)
  <2>1. made \in [{"put", "listen"} -> Nat] /\ id \in Nat
    BY DEF Typed, TypeOK
  <2>2. made' = [made EXCEPT !.put = id] /\ puts' = Append(puts, id)
    BY DEF Put
  <2> QED BY <2>1, <2>2
<1>2. puts' \in Seq(Nat)
  BY <1>1, AppendProperties DEF Typed, TypeOK
<1>3. unacked' = unacked /\ unacked \in Nat /\ downstream' = downstream
  BY DEF Put, Typed, TypeOK
<1>4. CASE CanSendWrites
  <2>1. upstream' = Append(upstream, Req("put", id)) /\ unacked' = unacked + 0
    BY <1>3, <1>4 DEF Put
  <2>2. upstream' \in Seq(Request) /\ Counted'
    BY <1>1, <1>3, <2>1, SentCounted
  <2> QED BY <1>1, <1>2, <2>2 DEF Put, Typed, TypeOK, client, outside, history
<1>5. CASE ~ CanSendWrites
  <2>1. upstream' = upstream
    BY <1>5 DEF Put
  <2>2. Counted'
    BY <1>3, <2>1, CountedSame DEF Typed
  <2> QED BY <1>1, <1>2, <2>1, <2>2 DEF Put, Typed, TypeOK, client, outside, history
<1> QED BY <1>4, <1>5

LEMMA ListenTyped ==
  ASSUME Typed, Listen
  PROVE  Typed'
<1> DEFINE id == made.listen + 1
<1>1. id \in Nat /\ made' \in [{"put", "listen"} -> Nat] /\ listens' = Append(listens, id)
  <2>1. made \in [{"put", "listen"} -> Nat] /\ id \in Nat
    BY DEF Typed, TypeOK
  <2>2. made' = [made EXCEPT !.listen = id] /\ listens' = Append(listens, id)
    BY DEF Listen
  <2> QED BY <2>1, <2>2
<1>2. listens' \in Seq(Nat)
  BY <1>1, AppendProperties DEF Typed, TypeOK
<1>3. unacked \in Nat /\ downstream' = downstream
  BY DEF Listen, Typed, TypeOK
<1>4. CASE Connected
  <2>1. upstream' = Append(upstream, Req("listen", id)) /\ unacked' = unacked + 1
    BY <1>3, <1>4 DEF Listen
  <2>2. upstream' \in Seq(Request) /\ Counted' /\ unacked' \in Nat
    BY <1>1, <1>3, <2>1, SentCounted
  <2> QED BY <1>1, <1>2, <2>2 DEF Listen, Typed, TypeOK, client, outside, history
<1>5. CASE ~ Connected
  <2>1. upstream' = upstream /\ unacked' = unacked
    BY <1>5 DEF Listen
  <2>2. Counted'
    BY <1>3, <2>1, CountedSame DEF Typed
  <2> QED BY <1>1, <1>2, <2>1, <2>2 DEF Listen, Typed, TypeOK, client, outside, history
<1> QED BY <1>4, <1>5

LEMMA UnlistenTyped ==
  ASSUME Typed, NEW id \in fired, Unlisten(id)
  PROVE  Typed'
<1>1. id \in Nat /\ fired' \subseteq Nat /\ listens' \in Seq(Nat)
  BY WithoutType DEF Unlisten, Typed, TypeOK
<1>2. unacked' = unacked /\ unacked \in Nat /\ downstream' = downstream
  BY DEF Unlisten, Typed, TypeOK
<1>3. CASE Connected
  <2>1. upstream' = Append(upstream, Req("unlisten", id)) /\ unacked' = unacked + 0
    BY <1>2, <1>3 DEF Unlisten
  <2>2. upstream' \in Seq(Request) /\ Counted'
    BY <1>1, <1>2, <2>1, SentCounted
  <2> QED BY <1>1, <2>2 DEF Unlisten, Typed, TypeOK, client, outside, history
<1>4. CASE ~ Connected
  <2>1. upstream' = upstream
    BY <1>4 DEF Unlisten
  <2>2. Counted'
    BY <1>2, <2>1, CountedSame DEF Typed
  <2> QED BY <1>1, <2>1, <2>2 DEF Unlisten, Typed, TypeOK, client, outside, history
<1> QED BY <1>3, <1>4

\* The message that is handled was counted if it answers a listen.
LEMMA Received ==
  ASSUME Typed, downstream # <<>>
  PROVE  /\ Tail(downstream) \in Seq(Response) /\ Head(downstream) \in Response
         /\ Head(downstream).arg \in Nat
         /\ Count(downstream) = Count(Tail(downstream))
                                + (IF Head(downstream).op = "listen" THEN 1 ELSE 0)
         /\ Count(Tail(downstream)) \in Nat /\ Count(upstream) \in Nat
<1>1. downstream \in Seq(Response) /\ upstream \in Seq(Request)
  BY DEF Typed, TypeOK
<1>2. Tail(downstream) \in Seq(Response) /\ Head(downstream) \in Response
  BY <1>1, SeqTail
<1>3. Head(downstream).arg \in Nat
  BY <1>2 DEF Response
<1>4. Count(downstream) = Count(Tail(downstream))
                          + (IF Head(downstream).op = "listen" THEN 1 ELSE 0)
  BY <1>1, CountTail
<1> QED BY <1>1, <1>2, <1>3, <1>4, CountType

LEMMA RefusedTyped ==
  ASSUME Typed, NEW t \in Nat, TokenRefused(t),
         UNCHANGED <<interrupts, puts, parked, listens, made, fired, asked, mail, outside, budget>>
  PROVE  Typed'
<1>1. /\ connState' \in State /\ link' = "none"
      /\ retry' \in {"none", "cached", "forced"} /\ force' \in BOOLEAN
      /\ upstream' = <<>> /\ downstream' = <<>> /\ unacked' = 0
      /\ stranded' \in BOOLEAN /\ Counted'
  BY DisconnectType DEF TokenRefused, Typed
<1>2. authToken' \in Nat /\ rejected' \in Nat
  BY DEF TokenRefused, Typed, TypeOK
<1>3. upstream' \in Seq(Request) /\ downstream' \in Seq(Response)
  BY <1>1, EmptySeq
<1> QED BY <1>1, <1>2, <1>3 DEF Typed, TypeOK, outside

LEMMA AuthReplyTyped ==
  ASSUME Typed, AuthReply
  PROVE  Typed'
<1>1. downstream # <<>> /\ Head(downstream).op # "listen"
  BY DEF AuthReply, Receive
<1>2. /\ Tail(downstream) \in Seq(Response) /\ Head(downstream).arg \in Nat
      /\ Count(downstream) = Count(Tail(downstream)) + 0
      /\ Count(Tail(downstream)) \in Nat /\ Count(upstream) \in Nat
  BY <1>1, Received
<1>3. CASE ~ Head(downstream).ok
  <2>1. TokenRefused(Head(downstream).arg)
    BY <1>3 DEF AuthReply
  <2> QED BY <1>2, <2>1, RefusedTyped DEF AuthReply
<1>4. CASE Head(downstream).ok /\ Head(downstream).op = "auth"
  <2>1. RestoreState /\ downstream' = Tail(downstream)
    BY <1>4 DEF AuthReply
  <2>2. /\ connState' \in State /\ upstream' \in Seq(Request) /\ unacked' \in Nat
        /\ Count(upstream') = Count(upstream) + Len(listens)
        /\ unacked' = unacked + Len(listens)
    BY <2>1, RestoreType
  <2>3. Len(listens) \in Nat
    BY LenProperties DEF Typed, TypeOK
  <2>4. Counted'
    BY <1>2, <2>1, <2>2, <2>3 DEF Typed, Counted
  <2> QED BY <1>2, <1>4, <2>1, <2>2, <2>4 DEF AuthReply, Typed, TypeOK, outside
<1>5. CASE Head(downstream).ok /\ Head(downstream).op # "auth"
  <2>1. /\ connState' \in State /\ downstream' = Tail(downstream)
        /\ upstream' = upstream /\ unacked' = unacked
    BY <1>5 DEF AuthReply, State
  <2>2. Counted'
    BY <1>2, <2>1 DEF Typed, Counted
  <2> QED BY <1>2, <1>5, <2>1, <2>2 DEF AuthReply, Typed, TypeOK, outside
<1> QED BY <1>3, <1>4, <1>5

LEMMA AuthRevokedTyped ==
  ASSUME Typed, AuthRevoked
  PROVE  Typed'
<1>1. authToken \in Nat
  BY DEF Typed, TypeOK
<1> QED BY <1>1, RefusedTyped DEF AuthRevoked

LEMMA PutReplyTyped ==
  ASSUME Typed, PutReply
  PROVE  Typed'
<1>1. downstream # <<>> /\ Head(downstream).op # "listen"
  BY DEF PutReply, Receive
<1>2. /\ Tail(downstream) \in Seq(Response) /\ Head(downstream).arg \in Nat
      /\ Count(downstream) = Count(Tail(downstream)) + 0
      /\ Count(Tail(downstream)) \in Nat /\ Count(upstream) \in Nat
  BY <1>1, Received
<1>3. /\ downstream' = Tail(downstream) /\ upstream' = upstream /\ unacked' = unacked
  BY DEF PutReply
<1>4. Counted'
  BY <1>2, <1>3 DEF Typed, Counted
<1>5. puts' \in Seq(Nat)
  BY WithoutType DEF PutReply, Typed, TypeOK
<1>6. parked' \in Seq(Nat)
  BY <1>2, AppendProperties DEF PutReply, Typed, TypeOK
<1> QED BY <1>2, <1>3, <1>4, <1>5, <1>6 DEF PutReply, Typed, TypeOK, client, outside, history

LEMMA DataUpdateTyped ==
  ASSUME Typed, DataUpdate
  PROVE  Typed'
<1>1. downstream # <<>> /\ Head(downstream).op # "listen"
  BY DEF DataUpdate, Receive
<1>2. /\ Tail(downstream) \in Seq(Response) /\ Head(downstream).arg \in Nat
      /\ Count(downstream) = Count(Tail(downstream)) + 0
      /\ Count(Tail(downstream)) \in Nat /\ Count(upstream) \in Nat
  BY <1>1, Received
<1>3. /\ downstream' = Tail(downstream) /\ upstream' = upstream /\ unacked' = unacked
      /\ fired' \subseteq Nat
  BY <1>2 DEF DataUpdate, Typed, TypeOK
<1>4. Counted'
  BY <1>2, <1>3 DEF Typed, Counted
<1> QED BY <1>2, <1>3, <1>4 DEF DataUpdate, Typed, TypeOK, client, outside, history

\* The answer of a listen was counted, so the counter is not zero.
LEMMA ListenReplyTyped ==
  ASSUME Typed, ListenReply
  PROVE  Typed'
<1>1. downstream # <<>> /\ Head(downstream).op = "listen"
  BY DEF ListenReply, Receive
<1>2. /\ Tail(downstream) \in Seq(Response)
      /\ Count(downstream) = Count(Tail(downstream)) + 1
      /\ Count(Tail(downstream)) \in Nat /\ Count(upstream) \in Nat
  BY <1>1, Received
<1>3. /\ downstream' = Tail(downstream) /\ upstream' = upstream /\ unacked' = unacked - 1
  BY DEF ListenReply
<1>4. Counted' /\ unacked' \in Nat
  BY <1>2, <1>3 DEF Typed, Counted
<1>5. listens' \in Seq(Nat)
  BY WithoutType, SMTT(30) DEF ListenReply, Typed, TypeOK
<1>6. fired' \subseteq Nat
  BY DEF ListenReply, Typed, TypeOK
<1>7. parked' \in Seq(Nat) /\ stranded' \in BOOLEAN
  BY EmptySeq DEF ListenReply, Typed, TypeOK
<1> QED BY <1>2, <1>3, <1>4, <1>5, <1>6, <1>7 DEF ListenReply, Typed, TypeOK, client, outside, history

LEMMA StepTyped == Typed /\ [Next]_vars => Typed'
<1> SUFFICES ASSUME Typed, [Next]_vars PROVE Typed'
  OBVIOUS
<1>1. CASE Client
  BY <1>1, SwitchTyped, GoOfflineTyped, RetryFiresTyped, TokenFetchedTyped, TokenFailedTyped,
     TokenChangedTyped, PutTyped, ListenTyped, UnlistenTyped DEF Client
<1>2. CASE Inbound
  BY <1>2, HandshakeTyped, AuthReplyTyped, AuthRevokedTyped, PutReplyTyped, DataUpdateTyped,
     ListenReplyTyped DEF Inbound
<1>3. CASE Environment
  BY <1>3, AuthTyped, DropTyped, ServerKillTyped, ServeTyped, RevokeTyped DEF Environment
<1>4. CASE UNCHANGED vars
  BY <1>4 DEF vars, client, data, wire, outside, history, Typed, TypeOK, Counted
<1> QED BY <1>1, <1>2, <1>3, <1>4 DEF Next

LEMMA AlwaysTyped == Spec => []Typed
<1> QED BY InitTyped, StepTyped, PTL DEF Spec

\* Every state of the connection keeps its type: the counter of unanswered
\* listens, which is unsigned in the code, never wraps around.
THEOREM TypeCorrect == Spec => []TypeOK
<1>1. Typed => TypeOK
  BY DEF Typed
<1> QED BY <1>1, AlwaysTyped, PTL

\* unackedListensCount is the number of listens of this connection that are
\* under way, whatever is lost, refused or sent again.
THEOREM CounterExact == Spec => []UnackedExact
<1>1. Typed => UnackedExact
  BY DEF Typed, Counted, UnackedExact, Count, Listening
<1> QED BY <1>1, AlwaysTyped, PTL

-----------------------------------------------------------------------------
(***************************************************************************)
(* The states of the connection.                                           *)
(***************************************************************************)
AnyCurrent(q) == \E i \in DOMAIN q : q[i].current
OneCurrent(q) == \A i, j \in DOMAIN q : q[i].current /\ q[j].current => i = j
NoChange(q)   == \A i \in DOMAIN q : q[i].current => q[i].kind # "change"

\* StateInv in terms of these.
Matched ==
  /\ connState = "disconnected" /\ interrupts = {} <=> retry # "none"
  /\ interrupts # {} => connState = "disconnected"
  /\ link = "none" <=> connState \in {"disconnected", "gettingToken"}
  /\ link = "connecting" <=> connState = "connecting"
  /\ connState = "gettingToken" => AnyCurrent(asked) \/ AnyCurrent(mail)
  /\ AnyCurrent(asked) \/ AnyCurrent(mail) => connState \in {"disconnected", "gettingToken"}

Single ==
  /\ OneCurrent(asked) /\ OneCurrent(mail) /\ ~ (AnyCurrent(asked) /\ AnyCurrent(mail))
  /\ NoChange(mail)

LEMMA FetchSet ==
  ASSUME NEW a, NEW m
  PROVE  {<<"asked", i>> : i \in {j \in DOMAIN a : a[j].current}} \cup
         {<<"mail", i>> : i \in {j \in DOMAIN m : m[j].current}} # {}
         <=> AnyCurrent(a) \/ AnyCurrent(m)
<1> DEFINE A == {j \in DOMAIN a : a[j].current}
           M == {j \in DOMAIN m : m[j].current}
<1>1. AnyCurrent(a) <=> A # {}
  BY DEF AnyCurrent
<1>2. AnyCurrent(m) <=> M # {}
  BY DEF AnyCurrent
<1> HIDE DEF A, M
<1>3. {<<"asked", i>> : i \in A} \cup {<<"mail", i>> : i \in M} # {} <=> A # {} \/ M # {}
  <2>1. ASSUME NEW i \in A PROVE <<"asked", i>> \in {<<"asked", k>> : k \in A}
    OBVIOUS
  <2>2. ASSUME NEW i \in M PROVE <<"mail", i>> \in {<<"mail", k>> : k \in M}
    OBVIOUS
  <2>3. ASSUME A = {}, M = {}
        PROVE {<<"asked", i>> : i \in A} \cup {<<"mail", i>> : i \in M} = {}
    BY <2>3
  <2> QED BY <2>1, <2>2, <2>3
<1> QED BY <1>1, <1>2, <1>3 DEF A, M

LEMMA InvMatched == StateInv <=> Matched /\ Single /\ WireMatches
<1>1. CurrentFetches # {} <=> AnyCurrent(asked) \/ AnyCurrent(mail)
  BY FetchSet DEF CurrentFetches
<1>2. StateMatches <=> Matched
  BY <1>1, Zenon DEF StateMatches, Matched
<1>3. FetchesMatch <=> Single
  BY Zenon DEF FetchesMatch, Single, AnyCurrent, OneCurrent, NoChange
<1> QED BY <1>2, <1>3 DEF StateInv

LEMMA InvMatchedNext == StateInv' <=> Matched' /\ Single' /\ WireMatches'
<1>1. CurrentFetches' # {} <=> AnyCurrent(asked') \/ AnyCurrent(mail')
  BY FetchSet DEF CurrentFetches
<1>2. StateMatches' <=> Matched'
  BY <1>1, Zenon DEF StateMatches, Matched
<1>3. FetchesMatch' <=> Single'
  BY Zenon DEF FetchesMatch, Single, AnyCurrent, OneCurrent, NoChange
<1> QED BY <1>2, <1>3 DEF StateInv

LEMMA CurrentEmpty == ~ AnyCurrent(<<>>) /\ OneCurrent(<<>>) /\ NoChange(<<>>)
BY DEF AnyCurrent, OneCurrent, NoChange

LEMMA AppendTwice ==
  ASSUME NEW S, NEW q \in Seq(S), NEW x \in S, NEW y \in S
  PROVE  q \o <<x, y>> = Append(Append(q, x), y)
OBVIOUS

\* One more fetch or message.
LEMMA CurrentAppend ==
  ASSUME NEW S, NEW q \in Seq(S), NEW x \in S
  PROVE  /\ AnyCurrent(Append(q, x)) <=> AnyCurrent(q) \/ x.current
         /\ OneCurrent(q) /\ (x.current => ~ AnyCurrent(q)) => OneCurrent(Append(q, x))
         /\ NoChange(q) /\ (x.current => x.kind # "change") => NoChange(Append(q, x))
<1> DEFINE a == Append(q, x)
           n == Len(q)
<1>1. /\ n \in Nat /\ DOMAIN q = 1 .. n /\ DOMAIN a = 1 .. n + 1 /\ a[n + 1] = x
      /\ \A i \in 1 .. n : a[i] = q[i]
  BY SeqAppend
<1>2. 1 .. n + 1 = (1 .. n) \cup {n + 1} /\ n + 1 \notin 1 .. n
  BY <1>1
<1> HIDE DEF a, n
<1>3. AnyCurrent(a) <=> AnyCurrent(q) \/ x.current
  BY <1>1, <1>2 DEF AnyCurrent
<1>4. OneCurrent(q) /\ (x.current => ~ AnyCurrent(q)) => OneCurrent(a)
  BY <1>1, <1>2 DEF AnyCurrent, OneCurrent
<1>5. NoChange(q) /\ (x.current => x.kind # "change") => NoChange(a)
  BY <1>1, <1>2 DEF NoChange
<1> QED BY <1>3, <1>4, <1>5 DEF a

\* The oldest one is dealt with.
LEMMA CurrentTail ==
  ASSUME NEW S, NEW q \in Seq(S), q # <<>>
  PROVE  /\ AnyCurrent(q) <=> Head(q).current \/ AnyCurrent(Tail(q))
         /\ OneCurrent(q) => OneCurrent(Tail(q)) /\ ~ (Head(q).current /\ AnyCurrent(Tail(q)))
         /\ NoChange(q) => NoChange(Tail(q)) /\ (Head(q).current => Head(q).kind # "change")
<1> DEFINE t == Tail(q)
           n == Len(q)
           h == Head(q)
<1>1. /\ n \in Nat /\ n > 0 /\ DOMAIN q = 1 .. n /\ DOMAIN t = 1 .. n - 1 /\ h = q[1]
      /\ \A i \in 1 .. n - 1 : t[i] = q[i + 1]
  BY SeqTail
<1> HIDE DEF t, n, h
<1>2. /\ 1 \in 1 .. n
      /\ \A i \in 1 .. n - 1 : i + 1 \in 1 .. n /\ i + 1 # 1
      /\ \A i \in 1 .. n : i # 1 => i - 1 \in 1 .. n - 1 /\ (i - 1) + 1 = i
      /\ \A i, j \in 1 .. n - 1 : i + 1 = j + 1 => i = j
  BY <1>1
<1>3. \A i \in 1 .. n : i # 1 => q[i] = t[i - 1]
  BY <1>1, <1>2
<1>4. AnyCurrent(q) <=> h.current \/ AnyCurrent(t)
  <2>1. ASSUME NEW i \in 1 .. n, q[i].current PROVE h.current \/ \E k \in 1 .. n - 1 : t[k].current
    <3>1. CASE i = 1
      BY <1>1, <2>1, <3>1
    <3>2. CASE i # 1
      BY <1>2, <1>3, <2>1, <3>2
    <3> QED BY <3>1, <3>2
  <2>2. ASSUME NEW k \in 1 .. n - 1, t[k].current PROVE \E i \in 1 .. n : q[i].current
    BY <1>1, <1>2, <2>2
  <2>3. h.current => \E i \in 1 .. n : q[i].current
    BY <1>1, <1>2
  <2> QED BY <1>1, <2>1, <2>2, <2>3 DEF AnyCurrent
<1>5. ASSUME OneCurrent(q) PROVE OneCurrent(t) /\ ~ (h.current /\ AnyCurrent(t))
  <2>1. \A i, j \in 1 .. n : q[i].current /\ q[j].current => i = j
    BY <1>1, <1>5 DEF OneCurrent
  <2>2. \A i \in 1 .. n - 1 : t[i].current => q[i + 1].current
    BY <1>1
  <2>3. ASSUME NEW i \in 1 .. n - 1, NEW j \in 1 .. n - 1, t[i].current, t[j].current
        PROVE  i = j
    <3>1. i + 1 = j + 1
      BY <1>2, <2>1, <2>2, <2>3
    <3> QED BY <1>2, <3>1
  <2>4. ASSUME NEW i \in 1 .. n - 1, t[i].current, h.current
        PROVE  FALSE
    <3>1. i + 1 = 1
      BY <1>1, <1>2, <2>1, <2>2, <2>4
    <3> QED BY <1>2, <3>1
  <2> QED BY <1>1, <2>3, <2>4 DEF OneCurrent, AnyCurrent
<1>6. NoChange(q) => NoChange(t) /\ (h.current => h.kind # "change")
  BY <1>1, <1>2 DEF NoChange
<1> QED BY <1>4, <1>5, <1>6 DEF t, h

\* A new attempt makes every earlier one obsolete; signing out changes none.
LEMMA CurrentMarked ==
  ASSUME NEW q \in Seq(Fetch), NEW m \in Seq(Mail)
  PROVE  /\ ~ AnyCurrent([i \in DOMAIN q |-> [q[i] EXCEPT !.current = FALSE]])
         /\ OneCurrent([i \in DOMAIN q |-> [q[i] EXCEPT !.current = FALSE]])
         /\ ~ AnyCurrent([i \in DOMAIN m |-> [m[i] EXCEPT !.current = FALSE]])
         /\ OneCurrent([i \in DOMAIN m |-> [m[i] EXCEPT !.current = FALSE]])
         /\ NoChange([i \in DOMAIN m |-> [m[i] EXCEPT !.current = FALSE]])
         /\ AnyCurrent([i \in DOMAIN q |-> [q[i] EXCEPT !.left = TRUE]]) <=> AnyCurrent(q)
         /\ OneCurrent([i \in DOMAIN q |-> [q[i] EXCEPT !.left = TRUE]]) <=> OneCurrent(q)
<1>1. /\ \A i \in DOMAIN q : q[i] \in Fetch
      /\ \A i \in DOMAIN m : m[i] \in Mail
  BY LenProperties, ElementOfSeq
<1>2. /\ \A f \in Fetch : [f EXCEPT !.current = FALSE].current = FALSE
      /\ \A f \in Fetch : [f EXCEPT !.left = TRUE].current = f.current
      /\ \A x \in Mail : [x EXCEPT !.current = FALSE].current = FALSE
  BY DEF Fetch, Mail
<1> DEFINE a == [i \in DOMAIN q |-> [q[i] EXCEPT !.current = FALSE]]
           b == [i \in DOMAIN m |-> [m[i] EXCEPT !.current = FALSE]]
           c == [i \in DOMAIN q |-> [q[i] EXCEPT !.left = TRUE]]
<1>3. /\ DOMAIN a = DOMAIN q /\ DOMAIN b = DOMAIN m /\ DOMAIN c = DOMAIN q
      /\ \A i \in DOMAIN q : a[i].current = FALSE /\ c[i].current = q[i].current
      /\ \A i \in DOMAIN m : b[i].current = FALSE
  BY <1>1, <1>2
<1> HIDE DEF a, b, c
<1>4. ~ AnyCurrent(a) /\ OneCurrent(a) /\ ~ AnyCurrent(b) /\ OneCurrent(b) /\ NoChange(b)
  BY <1>3 DEF AnyCurrent, OneCurrent, NoChange
<1>5. (AnyCurrent(c) <=> AnyCurrent(q)) /\ (OneCurrent(c) <=> OneCurrent(q))
  BY <1>3 DEF AnyCurrent, OneCurrent
<1> QED BY <1>4, <1>5 DEF a, b, c

LEMMA InitState == Init => StateInv
<1> SUFFICES ASSUME Init PROVE StateInv
  OBVIOUS
<1>1. Single /\ ~ AnyCurrent(asked) /\ ~ AnyCurrent(mail)
  BY CurrentEmpty DEF Init, Single
<1>2. Matched /\ WireMatches
  BY <1>1 DEF Init, Matched, WireMatches
<1> QED BY <1>1, <1>2, InvMatched

LEMMA DisconnectState ==
  ASSUME NEW f, Matched, link # "none", interrupts \subseteq interrupts',
         Disconnect(interrupts', f)
  PROVE  /\ connState' = "disconnected" /\ link' = "none"
         /\ upstream' = <<>> /\ downstream' = <<>>
         /\ interrupts' = {} <=> retry' # "none"
<1>1. retry = "none"
  BY DEF Matched
<1> QED BY <1>1 DEF Disconnect, ScheduleReconnect

LEMMA DisconnectKeepsState ==
  ASSUME NEW f, Matched, Single, link # "none", interrupts \subseteq interrupts',
         Disconnect(interrupts', f), UNCHANGED <<asked, mail>>
  PROVE  Matched' /\ Single' /\ WireMatches'
<1>1. /\ connState' = "disconnected" /\ link' = "none"
      /\ upstream' = <<>> /\ downstream' = <<>>
      /\ interrupts' = {} <=> retry' # "none"
  BY DisconnectState
<1>2. Matched'
  BY <1>1 DEF Matched
<1> QED BY <1>1, <1>2 DEF Single, WireMatches

LEMMA InterruptState ==
  ASSUME Matched, Single, WireMatches, NEW r, Interrupt(r), UNCHANGED <<asked, mail>>
  PROVE  Matched' /\ Single' /\ WireMatches'
<1>1. interrupts \subseteq interrupts' /\ interrupts' # {}
  BY DEF Interrupt
<1>2. CASE link # "none"
  BY <1>1, <1>2, DisconnectKeepsState DEF Interrupt
<1>3. CASE link = "none"
  <2>1. retry' = "none" /\ connState' = "disconnected" /\ UNCHANGED <<link, upstream, downstream>>
    BY <1>3 DEF Interrupt, wire
  <2>2. Matched'
    BY <1>1, <1>3, <2>1 DEF Matched
  <2> QED BY <2>1, <2>2 DEF Single, WireMatches
<1> QED BY <1>2, <1>3

LEMMA ResumeState ==
  ASSUME Matched, Single, WireMatches, NEW r, Resume(r),
         UNCHANGED <<connState, link, asked, mail, wire>>
  PROVE  Matched' /\ Single' /\ WireMatches'
<1>1. interrupts' \subseteq interrupts
  BY DEF Resume
<1>2. connState = "disconnected" /\ interrupts' = {} <=> retry' # "none"
  BY <1>1 DEF Resume, ScheduleReconnect, Matched
<1>3. Matched'
  BY <1>1, <1>2 DEF Matched
<1> QED BY <1>3 DEF Single, WireMatches, wire

LEMMA SwitchState ==
  ASSUME Typed, Matched, Single, WireMatches,
         Open \/ GoOnline \/ GoOffline \/ Nudge \/ Drop \/ ServerKill
  PROVE  Matched' /\ Single' /\ WireMatches'
<1>1. CASE Open \/ GoOnline
  BY <1>1, ResumeState DEF Open, GoOnline
<1>2. CASE GoOffline \/ ServerKill
  BY <1>2, InterruptState DEF GoOffline, ServerKill
<1>3. CASE Drop
  <2>1. Disconnect(interrupts', force) /\ link # "none" /\ UNCHANGED <<interrupts, asked, mail>>
    BY <1>3 DEF Drop
  <2> QED BY <2>1, DisconnectKeepsState
<1>4. CASE Nudge
  <2>1. /\ UNCHANGED <<connState, interrupts, link, asked, mail, upstream, downstream>>
        /\ connState = "disconnected" /\ ScheduleReconnect(interrupts, force)
    BY <1>4 DEF Nudge, wire
  <2>2. connState = "disconnected" /\ interrupts = {} <=> retry' # "none"
    BY <2>1 DEF ScheduleReconnect, Matched
  <2>3. Matched'
    BY <2>1, <2>2 DEF Matched
  <2> QED BY <2>1, <2>3 DEF Single, WireMatches
<1> QED BY <1>1, <1>2, <1>3, <1>4

\* The retry block's fetch is the only current one.
LEMMA RetryState ==
  ASSUME Typed, Matched, Single, WireMatches, RetryFires
  PROVE  Matched' /\ Single' /\ WireMatches'
<1> DEFINE a == [i \in DOMAIN asked |-> [asked[i] EXCEPT !.current = FALSE]]
           m == [i \in DOMAIN mail |-> [mail[i] EXCEPT !.current = FALSE]]
           x == [current |-> TRUE, forced |-> retry = "forced", left |-> FALSE]
<1>1. asked \in Seq(Fetch) /\ mail \in Seq(Mail)
  BY DEF Typed, TypeOK
<1>2. ~ AnyCurrent(a) /\ OneCurrent(a) /\ ~ AnyCurrent(m) /\ OneCurrent(m) /\ NoChange(m)
  BY <1>1, CurrentMarked
<1>3. a \in Seq(Fetch) /\ x \in Fetch /\ x.current
  BY <1>1, MarkedType DEF Fetch
<1>4. asked' = Append(a, x) /\ mail' = m
  BY DEF RetryFires
<1> HIDE DEF a, m, x
<1>5. AnyCurrent(Append(a, x)) /\ OneCurrent(Append(a, x))
  BY <1>2, <1>3, CurrentAppend
<1>6. Single' /\ AnyCurrent(asked')
  BY <1>2, <1>4, <1>5 DEF Single
<1>7. /\ connState' = "gettingToken" /\ retry' = "none" /\ retry # "none"
      /\ UNCHANGED <<interrupts, link, upstream, downstream>>
  BY DEF RetryFires, wire
<1>8. Matched'
  BY <1>6, <1>7 DEF Matched
<1> QED BY <1>6, <1>7, <1>8 DEF WireMatches

\* A message about a token leaves the queue.
LEMMA MailState ==
  ASSUME Typed, Single, mail # <<>>, asked' = asked, mail' = Tail(mail)
  PROVE  /\ Single'
         /\ AnyCurrent(mail) <=> Head(mail).current \/ AnyCurrent(mail')
         /\ Head(mail).current => ~ AnyCurrent(mail') /\ ~ AnyCurrent(asked)
         /\ Head(mail).current => Head(mail).kind # "change"
<1>1. mail \in Seq(Mail)
  BY DEF Typed, TypeOK
<1>2. /\ AnyCurrent(mail) <=> Head(mail).current \/ AnyCurrent(mail')
      /\ OneCurrent(mail) => OneCurrent(mail') /\ ~ (Head(mail).current /\ AnyCurrent(mail'))
      /\ NoChange(mail) => NoChange(mail') /\ (Head(mail).current => Head(mail).kind # "change")
  BY <1>1, CurrentTail
<1> QED BY <1>2 DEF Single

LEMMA TokenState ==
  ASSUME Typed, Matched, Single, WireMatches, TokenFetched \/ TokenFailed \/ TokenChanged
  PROVE  Matched' /\ Single' /\ WireMatches'
<1>0. mail # <<>> /\ asked' = asked /\ mail' = Tail(mail) /\ interrupts' = interrupts
  BY DEF TokenFetched, TokenFailed, TokenChanged
<1>1. /\ Single'
      /\ AnyCurrent(mail) <=> Head(mail).current \/ AnyCurrent(mail')
      /\ Head(mail).current => ~ AnyCurrent(mail') /\ ~ AnyCurrent(asked)
      /\ Head(mail).current => Head(mail).kind # "change"
  BY <1>0, MailState
<1>2. CASE TokenFetched
  <2>1. UNCHANGED <<retry, upstream, downstream>>
    BY <1>2 DEF TokenFetched, wire
  <2>2. CASE Head(mail).current /\ connState = "gettingToken"
    <3>1. connState' = "connecting" /\ link' = "connecting"
      BY <1>2, <2>2 DEF TokenFetched, OpenNetworkConnection
    <3>2. Matched'
      BY <1>0, <1>1, <2>1, <2>2, <3>1 DEF Matched
    <3>3. WireMatches'
      BY <2>1, <2>2 DEF Matched, WireMatches
    <3> QED BY <1>1, <3>2, <3>3
  <2>3. CASE ~ (Head(mail).current /\ connState = "gettingToken")
    <3>1. UNCHANGED <<connState, link>>
      BY <1>2, <2>3 DEF TokenFetched
    <3>2. Matched'
      BY <1>0, <1>1, <2>1, <2>3, <3>1 DEF Matched
    <3> QED BY <1>1, <2>1, <3>1, <3>2 DEF WireMatches
  <2> QED BY <2>2, <2>3
<1>3. CASE TokenFailed
  <2>1. UNCHANGED <<link, upstream, downstream>>
    BY <1>3 DEF TokenFailed, wire
  <2>2. CASE Head(mail).current
    <3>1. connState' = "disconnected" /\ ScheduleReconnect(interrupts, force)
      BY <1>3, <2>2 DEF TokenFailed
    <3>2. interrupts = {} <=> retry' # "none"
      BY <3>1 DEF ScheduleReconnect, Matched
    <3>3. Matched'
      BY <1>0, <1>1, <2>1, <2>2, <3>1, <3>2 DEF Matched
    <3> QED BY <1>1, <2>1, <3>3 DEF WireMatches
  <2>3. CASE ~ Head(mail).current
    <3>1. UNCHANGED <<connState, retry>>
      BY <1>3, <2>3 DEF TokenFailed
    <3>2. Matched'
      BY <1>0, <1>1, <2>1, <2>3, <3>1 DEF Matched
    <3> QED BY <1>1, <2>1, <3>1, <3>2 DEF WireMatches
  <2> QED BY <2>2, <2>3
<1>4. CASE TokenChanged
  <2>1. UNCHANGED <<connState, retry, link, downstream>> /\ ~ Head(mail).current
    BY <1>1, <1>4 DEF TokenChanged
  <2>2. Matched'
    BY <1>0, <1>1, <2>1 DEF Matched
  <2>3. upstream' = upstream \/ link = "connected"
    BY <1>4 DEF TokenChanged, Connected, Matched, Typed, TypeOK
  <2> QED BY <1>1, <2>1, <2>2, <2>3 DEF WireMatches
<1> QED BY <1>2, <1>3, <1>4

\* The auth library hands an attempt on to the queue of messages.
LEMMA AnsweredState ==
  ASSUME Typed, Matched, Single, WireMatches, AuthAnswers \/ AuthFails
  PROVE  Matched' /\ Single' /\ WireMatches'
<1>1. /\ asked # <<>> /\ asked' = Tail(asked)
      /\ UNCHANGED <<connState, interrupts, retry, link, upstream, downstream>>
  BY DEF AuthAnswers, AuthFails, client, wire
<1>2. asked \in Seq(Fetch) /\ mail \in Seq(Mail) /\ mail' \in Seq(Mail)
  BY AuthTyped DEF Typed, TypeOK
<1> DEFINE f == Head(asked)
<1>3. /\ AnyCurrent(asked) <=> f.current \/ AnyCurrent(asked')
      /\ OneCurrent(asked) => OneCurrent(asked') /\ ~ (f.current /\ AnyCurrent(asked'))
  BY <1>1, <1>2, CurrentTail
<1>4. f.current \in BOOLEAN
  <2>1. f \in Fetch
    BY <1>1, <1>2, SeqTail
  <2> QED BY <2>1 DEF Fetch
<1>5. ASSUME NEW x \in Mail, x.kind # "change", x.current = f.current,
             NEW q \in Seq(Mail), AnyCurrent(q) <=> AnyCurrent(mail), OneCurrent(q), NoChange(q),
             mail' = Append(q, x)
      PROVE  Matched' /\ Single' /\ WireMatches'
  <2>1. /\ AnyCurrent(mail') <=> AnyCurrent(q) \/ x.current
        /\ (x.current => ~ AnyCurrent(q)) => OneCurrent(mail')
        /\ NoChange(mail')
    BY <1>5, CurrentAppend
  <2>2. AnyCurrent(asked') \/ AnyCurrent(mail') <=> AnyCurrent(asked) \/ AnyCurrent(mail)
    BY <1>3, <1>5, <2>1
  <2>3. Single'
    BY <1>3, <1>5, <2>1 DEF Single
  <2>4. Matched'
    BY <1>1, <2>2 DEF Matched
  <2> QED BY <1>1, <2>3, <2>4 DEF WireMatches
<1>6. CASE AuthFails
  <2> DEFINE x == [kind |-> "error", current |-> f.current, token |-> 0]
  <2>1. x \in Mail /\ x.kind # "change" /\ x.current = f.current /\ mail' = Append(mail, x)
    BY <1>4, <1>6 DEF AuthFails, Mail
  <2> HIDE DEF x
  <2> QED BY <1>2, <1>5, <2>1 DEF Single
<1>7. CASE AuthAnswers
  <2> DEFINE t == IF f.forced /\ (f.left \/ tokens.now # 0) THEN tokens.issued + 1 ELSE tokens.now
             answer == [kind |-> "token", current |-> f.current, token |-> t]
             change == [kind |-> "change", current |-> FALSE, token |-> t]
  <2>1. t \in Nat
    BY DEF Typed, TypeOK
  <2>2. /\ answer \in Mail /\ answer.kind # "change" /\ answer.current = f.current
        /\ change \in Mail /\ ~ change.current
    BY <1>4, <2>1 DEF Mail
  <2>3. \/ mail' = Append(mail, answer)
        \/ mail' = mail \o <<answer>>
        \/ mail' = mail \o <<change, answer>>
    BY <1>7 DEF AuthAnswers
  <2> HIDE DEF answer, change
  <2>4. CASE mail' = Append(mail, answer) \/ mail' = mail \o <<answer>>
    <3>1. mail' = Append(mail, answer)
      BY <1>2, <2>2, <2>4, AppendIsConcat
    <3> QED BY <1>2, <1>5, <2>2, <3>1 DEF Single
  <2>5. CASE mail' = mail \o <<change, answer>>
    <3> DEFINE q == Append(mail, change)
    <3>1. /\ q \in Seq(Mail) /\ (AnyCurrent(q) <=> AnyCurrent(mail))
          /\ OneCurrent(q) /\ NoChange(q)
      BY <1>2, <2>2, CurrentAppend, AppendProperties DEF Single
    <3>2. mail' = Append(q, answer)
      BY <1>2, <2>2, <2>5, AppendTwice
    <3> HIDE DEF q
    <3> QED BY <1>5, <2>2, <3>1, <3>2
  <2> QED BY <2>3, <2>4, <2>5
<1> QED BY <1>6, <1>7

LEMMA AnnouncedState ==
  ASSUME Typed, Matched, Single, WireMatches, IssueToken \/ SignOut
  PROVE  Matched' /\ Single' /\ WireMatches'
<1>1. UNCHANGED <<connState, interrupts, retry, link, upstream, downstream>>
  BY DEF IssueToken, SignOut, client, wire
<1>2. asked \in Seq(Fetch) /\ mail \in Seq(Mail) /\ tokens.issued \in Nat
  BY DEF Typed, TypeOK
<1>3. (AnyCurrent(asked') <=> AnyCurrent(asked)) /\ OneCurrent(asked')
  <2>1. CASE asked' = asked
    BY <2>1 DEF Single
  <2>2. CASE asked' = [i \in DOMAIN asked |-> [asked[i] EXCEPT !.left = TRUE]]
    <3>1. /\ AnyCurrent([i \in DOMAIN asked |-> [asked[i] EXCEPT !.left = TRUE]])
             <=> AnyCurrent(asked)
          /\ OneCurrent([i \in DOMAIN asked |-> [asked[i] EXCEPT !.left = TRUE]])
             <=> OneCurrent(asked)
      BY <1>2, CurrentMarked
    <3> QED BY <2>2, <3>1 DEF Single
  <2> QED BY <2>1, <2>2 DEF IssueToken, SignOut
<1>4. PICK x \in Mail : mail' = Append(mail, x) /\ ~ x.current
  <2>1. tokens.issued + 1 \in Nat
    BY <1>2
  <2>2. \A t \in Nat : [kind |-> "change", current |-> FALSE, token |-> t] \in Mail
                       /\ ~ [kind |-> "change", current |-> FALSE, token |-> t].current
    BY DEF Mail
  <2>3. CASE IssueToken
    <3>1. tokens'.now = tokens.issued + 1
      BY <2>3 DEF IssueToken
    <3> QED BY <2>1, <2>2, <2>3, <3>1 DEF IssueToken
  <2>4. CASE SignOut
    BY <2>2, <2>4 DEF SignOut
  <2> QED BY <2>3, <2>4
<1>5. /\ AnyCurrent(mail') <=> AnyCurrent(mail)
      /\ OneCurrent(mail') /\ NoChange(mail')
  BY <1>2, <1>4, CurrentAppend DEF Single
<1>6. Matched'
  BY <1>1, <1>3, <1>5 DEF Matched
<1>7. Single'
  BY <1>3, <1>5 DEF Single
<1> QED BY <1>1, <1>6, <1>7 DEF WireMatches

\* The server refuses a token over an open connection.
LEMMA RefusedState ==
  ASSUME Typed, Matched, Single, WireMatches, NEW t, TokenRefused(t), downstream # <<>>,
         UNCHANGED <<interrupts, asked, mail>>
  PROVE  Matched' /\ Single' /\ WireMatches'
<1>1. link # "none"
  BY DEF WireMatches
<1> QED BY <1>1, DisconnectKeepsState DEF TokenRefused

\* Nothing but messages on an open connection.
LEMMA OpenState ==
  ASSUME Matched, Single, WireMatches, link = "connected",
         UNCHANGED <<connState, interrupts, retry, link, asked, mail>>
  PROVE  Matched' /\ Single' /\ WireMatches'
BY DEF Matched, Single, WireMatches

\* restoreState on a connection that is open now.
LEMMA RestoredState ==
  ASSUME Matched, Single, link # "none", link' = "connected",
         connState' \in {"authenticating", "connected"},
         UNCHANGED <<interrupts, retry, asked, mail>>
  PROVE  Matched' /\ Single' /\ WireMatches'
<1>1. /\ connState \notin {"disconnected", "gettingToken"} /\ interrupts = {} /\ retry = "none"
      /\ ~ AnyCurrent(asked) /\ ~ AnyCurrent(mail)
  BY DEF Matched
<1>2. Matched'
  BY <1>1 DEF Matched
<1> QED BY <1>2 DEF Single, WireMatches

LEMMA InboundState ==
  ASSUME Typed, Matched, Single, WireMatches, Inbound
  PROVE  Matched' /\ Single' /\ WireMatches'
<1>1. CASE Handshake
  <2>1. /\ link # "none" /\ link' = "connected" /\ connState' \in {"authenticating", "connected"}
        /\ UNCHANGED <<interrupts, retry, asked, mail>>
    BY <1>1 DEF Handshake, RestoreState
  <2> QED BY <2>1, RestoredState
<1>2. CASE AuthReply
  <2>1. downstream # <<>> /\ link = "connected" /\ UNCHANGED <<interrupts, asked, mail>>
    BY <1>2 DEF AuthReply, Receive, WireMatches
  <2>2. CASE ~ Head(downstream).ok
    BY <1>2, <2>1, <2>2, RefusedState DEF AuthReply
  <2>3. CASE Head(downstream).ok
    <3>1. link' = link /\ retry' = retry /\ connState' = "connected"
      BY <1>2, <2>3 DEF AuthReply, RestoreState
    <3> QED BY <2>1, <3>1, RestoredState
  <2> QED BY <2>2, <2>3
<1>3. CASE AuthRevoked
  BY <1>3, RefusedState DEF AuthRevoked, Receive
<1>4. CASE PutReply \/ DataUpdate \/ ListenReply
  <2>1. /\ downstream # <<>> /\ link = "connected"
        /\ UNCHANGED <<connState, interrupts, retry, link, asked, mail>>
    BY <1>4 DEF PutReply, DataUpdate, ListenReply, Receive, WireMatches, client
  <2> QED BY <2>1, OpenState
<1> QED BY <1>1, <1>2, <1>3, <1>4 DEF Inbound

LEMMA RequestState ==
  ASSUME Typed, Matched, Single, WireMatches,
         Put \/ Listen \/ (\E id \in fired : Unlisten(id)) \/ Serve \/ Revoke
  PROVE  Matched' /\ Single' /\ WireMatches'
<1>1. UNCHANGED <<connState, interrupts, retry, link, asked, mail>>
  BY DEF Put, Listen, Unlisten, Serve, Revoke, client
<1>2. Connected \/ CanSendWrites \/ upstream # <<>> => link = "connected"
  BY DEF Connected, CanSendWrites, Matched, WireMatches, Typed, TypeOK
<1>3. link = "connected" \/ (upstream' = upstream /\ downstream' = downstream)
  BY <1>2 DEF Put, Listen, Unlisten, Serve, Revoke
<1> QED BY <1>1, <1>3 DEF Matched, Single, WireMatches

LEMMA StepState == Typed /\ StateInv /\ [Next]_vars => StateInv'
<1> SUFFICES ASSUME Typed, Matched, Single, WireMatches, [Next]_vars
             PROVE  Matched' /\ Single' /\ WireMatches'
  BY InvMatched, InvMatchedNext
<1>1. CASE Client
  BY <1>1, SwitchState, RetryState, TokenState, RequestState DEF Client
<1>2. CASE Inbound
  BY <1>2, InboundState
<1>3. CASE Environment
  BY <1>3, SwitchState, AnsweredState, AnnouncedState, RequestState DEF Environment
<1>4. CASE UNCHANGED vars
  BY <1>4 DEF vars, client, wire, Matched, Single, WireMatches
<1> QED BY <1>1, <1>2, <1>3, <1>4 DEF Next

LEMMA AlwaysState == Spec => [](Typed /\ StateInv)
<1>1. Init => Typed /\ StateInv
  BY InitTyped, InitState
<1>2. Typed /\ StateInv /\ [Next]_vars => Typed' /\ StateInv'
  BY StepTyped, StepState
<1> QED BY <1>1, <1>2, PTL DEF Spec

\* Every handler finds the connection in the state its assertion names, and a
\* client that is disconnected without a reason has its next attempt scheduled.
THEOREM StatesCorrect == Spec => []StateMatches
<1>1. Typed /\ StateInv => StateMatches
  BY DEF StateInv
<1> QED BY <1>1, AlwaysState, PTL

=============================================================================
