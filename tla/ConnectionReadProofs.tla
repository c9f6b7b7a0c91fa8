------------------------ MODULE ConnectionReadProofs ------------------------
(***************************************************************************)
(* Proof that a read of Connection shows every write made before it was    *)
(* answered: the value the server sends is never older than the writes it  *)
(* has answered, and the client lays all later ones over it.  And proof    *)
(* that a connection forgets nothing it was asked for.                     *)
(***************************************************************************)
EXTENDS ConnectionStreamProofs

\* A value in the queue q is at least as new as the put before f, and as every
\* put answered ahead of it.
Fresh(q, f, m) ==
  \A i \in DOMAIN q : q[i].op = "data" =>
    /\ q[i].val \in f - 1 .. m
    /\ \A j \in DOMAIN q : j < i /\ q[j].op = "put" => q[j].arg <= q[i].val

StoreInv == First + Cardinality(Unanswered) - 1 <= store /\ store <= made.put

\* While acknowledgements are parked by this connection, a listen is under way,
\* and they are those of the last puts that were answered, in order.
ParkedInv ==
  ~ stranded /\ parked # <<>> =>
    /\ unacked > 0
    /\ \A i \in DOMAIN parked : parked[i] = First - 1 - Len(parked) + i

FreshInv == Fresh(downstream, First, made.put)

Seen == Good /\ StoreInv /\ ParkedInv /\ FreshInv

-----------------------------------------------------------------------------
(***************************************************************************)
(* Queues of answers.                                                      *)
(***************************************************************************)
LEMMA FreshEmpty ==
  ASSUME NEW f, NEW m
  PROVE  Fresh(<<>>, f, m)
BY DEF Fresh

LEMMA FreshMore ==
  ASSUME NEW q, NEW f \in Int, NEW m \in Nat, Fresh(q, f, m)
  PROVE  Fresh(q, f, m + 1)
<1>1. \A v \in f - 1 .. m : v \in f - 1 .. m + 1
  OBVIOUS
<1> QED BY <1>1 DEF Fresh

\* The oldest message has been handled; if it answered the put f, every value
\* behind it is at least that new.
LEMMA FreshTail ==
  ASSUME NEW q \in Seq(Response), q # <<>>, NEW f \in Int, NEW m \in Nat, Fresh(q, f, m)
  PROVE  /\ Fresh(Tail(q), f, m)
         /\ Head(q).op = "put" /\ Head(q).arg = f => Fresh(Tail(q), f + 1, m)
<1> DEFINE t == Tail(q)
           n == Len(q)
           h == Head(q)
<1>1. /\ n \in Nat /\ n > 0 /\ DOMAIN q = 1 .. n /\ DOMAIN t = 1 .. n - 1 /\ h = q[1]
      /\ \A i \in 1 .. n - 1 : t[i] = q[i + 1]
  BY SeqTail
<1> HIDE DEF t, n, h
<1>2. ASSUME NEW i \in 1 .. n - 1, t[i].op = "data"
      PROVE  /\ t[i].val \in f - 1 .. m
             /\ \A j \in 1 .. n - 1 : j < i /\ t[j].op = "put" => t[j].arg <= t[i].val
             /\ h.op = "put" => h.arg <= t[i].val
  <2>1. i + 1 \in 1 .. n /\ t[i] = q[i + 1] /\ 1 \in 1 .. n /\ 1 < i + 1
    BY <1>1
  <2>2. /\ t[i].val \in f - 1 .. m
        /\ \A j \in 1 .. n : j < i + 1 /\ q[j].op = "put" => q[j].arg <= t[i].val
    BY <1>1, <1>2, <2>1 DEF Fresh
  <2>3. ASSUME NEW j \in 1 .. n - 1, j < i, t[j].op = "put"
        PROVE  t[j].arg <= t[i].val
    <3>1. j + 1 \in 1 .. n /\ t[j] = q[j + 1] /\ j + 1 < i + 1
      BY <1>1, <2>3
    <3>2. q[j + 1].op = "put"
      BY <2>3, <3>1
    <3>3. q[j + 1].arg <= t[i].val
      BY <2>2, <3>1, <3>2
    <3> QED BY <3>1, <3>3
  <2>4. h.op = "put" => h.arg <= t[i].val
    BY <1>1, <2>1, <2>2
  <2> QED BY <2>2, <2>3, <2>4
<1>3. Fresh(t, f, m)
  BY <1>1, <1>2 DEF Fresh
<1>4. ASSUME h.op = "put", h.arg = f PROVE Fresh(t, f + 1, m)
  <2>1. ASSUME NEW i \in 1 .. n - 1, t[i].op = "data"
        PROVE  t[i].val \in (f + 1) - 1 .. m
    <3>1. t[i].val \in f - 1 .. m /\ f <= t[i].val
      BY <1>2, <1>4, <2>1
    <3> QED BY <3>1
  <2> QED BY <1>1, <1>2, <2>1 DEF Fresh
<1> QED BY <1>3, <1>4 DEF t, h

\* Answers t follow the queue q.
LEMMA FreshConcat ==
  ASSUME NEW q \in Seq(Response), NEW t \in Seq(Response), NEW f \in Int, NEW m \in Nat,
         Fresh(q, f, m), Fresh(t, f, m),
         \A i \in DOMAIN t : t[i].op = "data" => \A a \in PutArgs(q) : a <= t[i].val
  PROVE  Fresh(q \o t, f, m)
<1> DEFINE c == q \o t
           n == Len(q)
           k == Len(t)
<1>1. /\ n \in Nat /\ k \in Nat /\ DOMAIN q = 1 .. n /\ DOMAIN t = 1 .. k
      /\ DOMAIN c = 1 .. n + k
      /\ \A i \in 1 .. n : c[i] = q[i]
      /\ \A i \in 1 .. k : c[n + i] = t[i]
  BY SeqConcat
<1> HIDE DEF c, n, k
<1>2. \A i \in 1 .. n + k : i \notin 1 .. n => i - n \in 1 .. k /\ n + (i - n) = i
  BY <1>1
<1>3. \A i \in 1 .. n + k : i \notin 1 .. n => c[i] = t[i - n]
  BY <1>1, <1>2
<1> SUFFICES ASSUME NEW i \in 1 .. n + k, c[i].op = "data"
             PROVE  /\ c[i].val \in f - 1 .. m
                    /\ \A j \in 1 .. n + k : j < i /\ c[j].op = "put" => c[j].arg <= c[i].val
  BY <1>1 DEF Fresh, c
<1>4. CASE i \in 1 .. n
  <2>1. c[i] = q[i] /\ \A j \in 1 .. n + k : j < i => j \in 1 .. n /\ c[j] = q[j]
    BY <1>1, <1>4
  <2> QED BY <1>1, <1>4, <2>1 DEF Fresh
<1>5. CASE i \notin 1 .. n
  <2>1. c[i] = t[i - n] /\ i - n \in 1 .. k
    BY <1>2, <1>3, <1>5
  <2>2. /\ t[i - n].val \in f - 1 .. m
        /\ \A j \in 1 .. k : j < i - n /\ t[j].op = "put" => t[j].arg <= t[i - n].val
        /\ \A a \in PutArgs(q) : a <= t[i - n].val
    BY <1>1, <2>1 DEF Fresh
  <2>3. ASSUME NEW j \in 1 .. n + k, j < i, c[j].op = "put"
        PROVE  c[j].arg <= c[i].val
    <3>1. CASE j \in 1 .. n
      <4>1. c[j] = q[j] /\ q[j].arg \in PutArgs(q)
        BY <1>1, <2>3, <3>1, PutArgsIn
      <4> QED BY <2>1, <2>2, <4>1
    <3>2. CASE j \notin 1 .. n
      <4>1. c[j] = t[j - n] /\ j - n \in 1 .. k
        BY <1>2, <1>3, <3>2
      <4>2. j - n < i - n /\ t[j - n].op = "put"
        BY <1>1, <2>3, <4>1
      <4>3. t[j - n].arg <= t[i - n].val
        BY <2>2, <4>1, <4>2
      <4> QED BY <2>1, <4>1, <4>3
    <3> QED BY <3>1, <3>2
  <2> QED BY <2>1, <2>2, <2>3
<1> QED BY <1>4, <1>5

LEMMA FreshOne ==
  ASSUME NEW x \in Response, NEW f, NEW m, x.op # "data"
  PROVE  <<x>> \in Seq(Response) /\ Fresh(<<x>>, f, m)
         /\ \A i \in DOMAIN <<x>> : <<x>>[i].op # "data"
<1>1. <<x>> \in Seq(Response) /\ DOMAIN <<x>> = {1} /\ <<x>>[1] = x
  OBVIOUS
<1> QED BY <1>1 DEF Fresh

-----------------------------------------------------------------------------
(***************************************************************************)
(* The store, the parked acknowledgements and the values under way.        *)
(***************************************************************************)
LEMMA PlainSeen ==
  ASSUME Good
  PROVE  /\ made.put \in Nat /\ Len(puts) \in Nat /\ First \in Int /\ store \in Nat
         /\ Cardinality(Unanswered) \in 0 .. Len(puts)
         /\ First + Len(puts) - 1 = made.put
         /\ PutArgs(downstream) = First .. First + Cardinality(Unanswered) - 1
         /\ Len(puts) <= made.put
         /\ \A i \in 1 .. Len(puts) : puts[i] = First + i - 1
<1>1. made.put \in Nat /\ Len(puts) \in Nat /\ First \in Int /\ store \in Nat
  BY Plain DEF Good
<1>2. PICK d \in 0 .. Len(puts) : Flow(d)
  BY DEF Good, PutInv
<1>3. Cardinality(Unanswered) = d /\ PutArgs(downstream) = First .. First + d - 1
  BY <1>1, <1>2, DoneIs DEF Good, Flow
<1>4. First + Len(puts) - 1 = made.put
  BY <1>1 DEF First
<1> QED BY <1>1, <1>2, <1>3, <1>4 DEF Good, PutInv

\* The store keeps up with what has been applied: by the steps of WriteStream.
LEMMA StoreKept ==
  ASSUME Good, StoreInv, [Stream!Next]_(Stream!vars)
  PROVE  StoreInv'
<1> DEFINE c == Cardinality(Unanswered)
           n == Len(puts)
<1>1. /\ made.put \in Nat /\ n \in Nat /\ First \in Int /\ store \in Nat
      /\ c \in 0 .. n /\ First + n - 1 = made.put
      /\ First + c - 1 <= store /\ store <= made.put
      /\ \A i \in 1 .. n : puts[i] = First + i - 1
  BY PlainSeen DEF StoreInv
<1>2. First' = made'.put - Len(puts') + 1 /\ First = made.put - n + 1
  BY DEF First
<1>3. CASE Stream!Make
  <2>1. /\ made'.put = made.put + 1 /\ puts' = Append(puts, made.put + 1)
        /\ c' = c /\ store' = store
    BY <1>3 DEF Stream!Make
  <2>2. Len(puts') = n + 1
    <3>1. puts \in Seq(Nat) /\ made.put + 1 \in Nat
      BY <1>1, SMTT(30) DEF Good, Typed, TypeOK
    <3> QED BY <2>1, <3>1, SeqAppend
  <2>3. First' = First
    BY <1>1, <1>2, <2>1, <2>2
  <2> QED BY <1>1, <2>1, <2>3 DEF StoreInv
<1>4. CASE Stream!Apply
  <2>1. /\ c < n /\ store' = puts[c + 1] /\ c' = c + 1 /\ made'.put = made.put /\ puts' = puts
    BY <1>4 DEF Stream!Apply
  <2>2. c + 1 \in 1 .. n
    BY <1>1, <2>1
  <2>3. puts[c + 1] = First + (c + 1) - 1
    BY <1>1, <2>2
  <2> DEFINE p == puts[c + 1]
             k == made.put
  <2>4. First' = First /\ store' = p /\ p = First + (c + 1) - 1 /\ made'.put = k
    BY <2>1, <2>3, <1>2
  <2>5. c' = c + 1
    BY <2>1
  <2>6. k \in Nat /\ n \in Nat /\ First \in Int /\ c \in 0 .. n /\ c + 1 \in 1 .. n
        /\ First + n - 1 = k
    BY <1>1, <2>2
  <2> HIDE DEF p, k, c, n
  <2>7. First' + c' - 1 <= store' /\ store' <= made'.put
    BY <2>4, <2>5, <2>6
  <2> QED BY <2>7 DEF StoreInv, c
<1>5. CASE Stream!Answer
  <2>1. /\ c > 0 /\ puts' = Tail(puts) /\ c' = c - 1 /\ made'.put = made.put /\ store' = store
    BY <1>5 DEF Stream!Answer
  <2>2. Len(puts') = n - 1
    <3>1. puts \in Seq(Nat) /\ puts # <<>>
      BY <1>1, <2>1, EmptySeq DEF Good, Typed, TypeOK
    <3> QED BY <2>1, <3>1, SeqTail
  <2>3. First' = First + 1
    BY <1>1, <1>2, <2>1, <2>2
  <2> QED BY <1>1, <2>1, <2>3 DEF StoreInv
<1>6. CASE Stream!StartOver
  <2>1. c' = 0 /\ made'.put = made.put /\ puts' = puts /\ store' = store
    BY <1>6 DEF Stream!StartOver
  <2>2. First' = First
    BY <1>2, <2>1
  <2> QED BY <1>1, <2>1, <2>2 DEF StoreInv
<1>7. CASE UNCHANGED Stream!vars
  <2>1. c' = c /\ made'.put = made.put /\ puts' = puts /\ store' = store
    BY <1>7 DEF Stream!vars
  <2>2. First' = First
    BY <1>2, <2>1
  <2> QED BY <2>1, <2>2 DEF StoreInv
<1> QED BY <1>3, <1>4, <1>5, <1>6, <1>7 DEF Stream!Next

\* No put is made or answered.
LEMMA FirstSame ==
  ASSUME UNCHANGED <<puts, made.put>>
  PROVE  First' = First
BY DEF First

LEMMA ParkedSame ==
  ASSUME Typed, Typed', ParkedInv, UNCHANGED <<puts, made.put, parked, stranded>>,
         unacked <= unacked'
  PROVE  ParkedInv'
<1>1. First' = First
  BY FirstSame
<1>2. unacked > 0 => unacked' > 0
  BY DEF Typed, TypeOK
<1> QED BY <1>1, <1>2 DEF ParkedInv

LEMMA FreshSame ==
  ASSUME FreshInv, UNCHANGED <<puts, made.put, downstream>>
  PROVE  FreshInv'
BY FirstSame DEF FreshInv

\* A lost connection: what is parked is stranded, and nothing is under way.
LEMMA SeenLost ==
  ASSUME downstream' = <<>>, parked' = parked, stranded' = (parked # <<>>)
  PROVE  ParkedInv' /\ FreshInv'
BY FreshEmpty DEF ParkedInv, FreshInv

\* A message that answers no put is handled.
LEMMA FreshHandled ==
  ASSUME Good, FreshInv, downstream # <<>>, downstream' = Tail(downstream),
         UNCHANGED <<puts, made.put>>
  PROVE  FreshInv'
<1>1. First' = First /\ First \in Int /\ made.put \in Nat /\ downstream \in Seq(Response)
  BY FirstSame, Plain DEF Good
<1> QED BY <1>1, FreshTail DEF FreshInv

-----------------------------------------------------------------------------
(***************************************************************************)
(* Steps.                                                                  *)
(***************************************************************************)
LEMMA PutSeen ==
  ASSUME Seen, Typed', Put
  PROVE  ParkedInv' /\ FreshInv'
<1>1. /\ made.put \in Nat /\ Len(puts) \in Nat /\ First \in Int /\ puts \in Seq(Nat)
      /\ made \in [{"put", "listen"} -> Nat]
  BY Plain DEF Seen, Good, Typed, TypeOK
<1>2. /\ made'.put = made.put + 1 /\ puts' = Append(puts, made.put + 1)
      /\ UNCHANGED <<parked, stranded, unacked, downstream>>
  BY <1>1 DEF Put, history
<1>3. First' = First
  <2>1. Len(puts') = Len(puts) + 1
    <3>1. made.put + 1 \in Nat
      BY <1>1
    <3> QED BY <1>1, <1>2, <3>1, SeqAppend
  <2> QED BY <1>1, <1>2, <2>1 DEF First
<1>4. FreshInv'
  BY <1>1, <1>2, <1>3, FreshMore DEF Seen, FreshInv
<1> QED BY <1>2, <1>3, <1>4 DEF Seen, ParkedInv

LEMMA PutReplySeen ==
  ASSUME Seen, Typed', PutReply
  PROVE  ParkedInv' /\ FreshInv'
<1> DEFINE h == Head(downstream)
<1>1. /\ made.put \in Nat /\ Len(puts) \in Nat /\ First \in Int
      /\ Cardinality(Unanswered) \in 0 .. Len(puts)
      /\ PutArgs(downstream) = First .. First + Cardinality(Unanswered) - 1
      /\ \A i \in 1 .. Len(puts) : puts[i] = First + i - 1
  BY PlainSeen DEF Seen
<1>2. /\ downstream # <<>> /\ h.op = "put" /\ downstream' = Tail(downstream)
      /\ puts' = Without(puts, h.arg)
      /\ parked' = IF unacked > 0 /\ h.arg \in ToSet(puts) THEN Append(parked, h.arg) ELSE parked
      /\ UNCHANGED <<made, stranded, unacked>>
  BY DEF PutReply, Receive, client, outside, history
<1>3. downstream \in Seq(Response) /\ puts \in Seq(Nat) /\ parked \in Seq(Nat) /\ unacked \in Nat
  BY DEF Seen, Good, Typed, TypeOK
<1>4. /\ PutArgs(downstream) = PutArgs(Tail(downstream)) \cup {h.arg}
      /\ \A b \in PutArgs(Tail(downstream)) : h.arg < b
  <2>1. Increasing(downstream)
    BY DEF Seen, Good, PutInv
  <2> QED BY <1>2, <1>3, <2>1, WireTail
<1> HIDE DEF h
<1>5. h.arg = First /\ Len(puts) > 0
  <2> DEFINE c == Cardinality(Unanswered)
  <2>1. h.arg \in First .. First + c - 1 /\ c \in 0 .. Len(puts)
    BY <1>1, <1>4
  <2>2. c > 0 /\ First \in First .. First + c - 1
    BY <1>1, <2>1
  <2>3. First \in PutArgs(downstream)
    BY <1>1, <2>2
  <2> HIDE DEF c
  <2> QED BY <1>1, <1>4, <2>1, <2>2, <2>3, SMTT(30)
<1>6. First' = First + 1
  <2>1. puts' = Tail(puts)
    BY <1>1, <1>2, <1>3, <1>5, WithoutOldest
  <2>2. puts # <<>>
    BY <1>5, EmptySeq
  <2>3. Len(puts') = Len(puts) - 1
    BY <1>3, <2>1, <2>2, SeqTail
  <2> QED BY <1>1, <1>2, <2>3 DEF First
<1>7. FreshInv'
  <2>1. Fresh(Tail(downstream), First + 1, made.put)
    BY <1>1, <1>2, <1>3, <1>5, FreshTail DEF Seen, FreshInv, h
  <2> QED BY <1>2, <1>6, <2>1 DEF FreshInv
<1>8. First \in ToSet(puts)
  <2>1. 1 \in DOMAIN puts /\ puts[1] = First
    BY <1>1, <1>3, <1>5, LenProperties, SMTT(30)
  <2> QED BY <2>1 DEF ToSet
<1>9. ParkedInv'
  <2> SUFFICES ASSUME ~ stranded, parked' # <<>>
               PROVE  /\ unacked' > 0
                      /\ \A i \in DOMAIN parked' : parked'[i] = First' - 1 - Len(parked') + i
    BY <1>2 DEF ParkedInv
  <2>1. unacked > 0
    BY <1>2 DEF Seen, ParkedInv
  <2>2. parked' = Append(parked, First) /\ First \in Nat
    BY <1>2, <1>3, <1>5, <1>8, <2>1 DEF ToSet
  <2> DEFINE k == Len(parked)
  <2>3. /\ k \in Nat /\ DOMAIN parked = 1 .. k
        /\ DOMAIN parked' = 1 .. k + 1 /\ Len(parked') = k + 1
        /\ parked'[k + 1] = First
        /\ \A i \in 1 .. k : parked'[i] = parked[i]
    BY <1>3, <2>2, SeqAppend
  <2>4. \A i \in 1 .. k : parked[i] = First - 1 - k + i
    <3>1. CASE parked = <<>>
      BY <2>3, <3>1, EmptySeq
    <3>2. CASE parked # <<>>
      BY <2>3, <3>2 DEF Seen, ParkedInv
    <3> QED BY <3>1, <3>2
  <2> HIDE DEF k
  <2>5. ASSUME NEW i \in 1 .. k + 1 PROVE parked'[i] = (First + 1) - 1 - (k + 1) + i
    <3>1. CASE i \in 1 .. k
      BY <1>1, <2>3, <2>4, <3>1
    <3>2. CASE i = k + 1
      BY <1>1, <2>3, <3>2
    <3> QED BY <2>3, <3>1, <3>2
  <2> QED BY <1>2, <1>6, <2>1, <2>3, <2>5
<1> QED BY <1>7, <1>9

LEMMA ListenReplySeen ==
  ASSUME Seen, Typed', ListenReply
  PROVE  ParkedInv' /\ FreshInv'
<1>1. /\ downstream # <<>> /\ downstream' = Tail(downstream) /\ UNCHANGED <<puts, made>>
      /\ unacked' = unacked - 1 /\ unacked' \in Nat
  BY DEF ListenReply, Receive, Typed, TypeOK
<1>2. FreshInv'
  BY <1>1, FreshHandled DEF Seen
<1>3. CASE unacked' = 0
  <2>1. parked' = <<>>
    BY <1>3 DEF ListenReply
  <2> QED BY <1>2, <2>1 DEF ParkedInv
<1>4. CASE unacked' # 0
  <2>1. UNCHANGED parked /\ UNCHANGED stranded
    BY <1>4 DEF ListenReply
  <2>2. unacked' > 0
    <3>1. unacked' \in Nat
      BY <1>1
    <3> QED BY <1>4, <3>1
  <2>3. First' = First
    BY <1>1, FirstSame
  <2>4. ParkedInv
    BY DEF Seen
  <2>5. ParkedInv'
    BY <2>1, <2>2, <2>3, <2>4 DEF ParkedInv
  <2> QED BY <1>2, <2>5
<1> QED BY <1>3, <1>4

LEMMA RefusedSeen ==
  ASSUME Seen, NEW t, TokenRefused(t), parked' = parked
  PROVE  ParkedInv' /\ FreshInv'
BY SeenLost DEF TokenRefused, Disconnect

LEMMA RestoreMore ==
  ASSUME Typed, RestoreState
  PROVE  unacked <= unacked'
<1>1. unacked \in Nat /\ Len(listens) \in Nat
  <2>1. unacked \in Nat /\ listens \in Seq(Nat)
    BY DEF Typed, TypeOK
  <2> QED BY <2>1, LenProperties
<1>2. unacked' = unacked + Len(listens)
  BY DEF RestoreState
<1> QED BY <1>1, <1>2

LEMMA InboundSeen ==
  ASSUME Seen, Typed', Inbound
  PROVE  ParkedInv' /\ FreshInv'
<1>1. CASE Handshake
  <2>1. UNCHANGED <<puts, made, parked, stranded, downstream>>
    BY <1>1 DEF Handshake, history
  <2>2. unacked <= unacked'
    <3>1. Typed /\ unacked \in Nat
      BY DEF Seen, Good, Typed, TypeOK
    <3>2. RestoreState \/ unacked' = unacked
      BY <1>1 DEF Handshake
    <3>3. CASE RestoreState
      BY <3>1, <3>3, RestoreMore
    <3>4. CASE unacked' = unacked
      BY <3>1, <3>4
    <3> QED BY <3>2, <3>3, <3>4
  <2> QED BY <2>1, <2>2, ParkedSame, FreshSame DEF Seen, Good
<1>2. CASE AuthReply
  <2>1. CASE ~ Head(downstream).ok
    BY <1>2, <2>1, RefusedSeen DEF AuthReply
  <2>2. CASE Head(downstream).ok
    <3>1. /\ downstream # <<>> /\ downstream' = Tail(downstream)
          /\ UNCHANGED <<puts, made, parked, stranded>>
      BY <1>2, <2>2 DEF AuthReply, Receive
    <3>2. unacked <= unacked'
      BY <1>2, <2>2, RestoreMore, SMTT(30) DEF AuthReply, Seen, Good, Typed, TypeOK
    <3> QED BY <3>1, <3>2, ParkedSame, FreshHandled DEF Seen, Good
  <2> QED BY <2>1, <2>2
<1>3. CASE AuthRevoked
  BY <1>3, RefusedSeen DEF AuthRevoked
<1>4. CASE DataUpdate
  <2>1. /\ downstream # <<>> /\ downstream' = Tail(downstream)
        /\ UNCHANGED <<puts, made, parked, stranded, unacked>>
    BY <1>4 DEF DataUpdate, Receive, history
  <2>2. unacked <= unacked'
    BY <2>1 DEF Seen, Good, Typed, TypeOK
  <2> QED BY <2>1, <2>2, ParkedSame, FreshHandled DEF Seen, Good
<1> QED BY <1>1, <1>2, <1>3, <1>4, PutReplySeen, ListenReplySeen DEF Inbound

LEMMA InterruptSeen ==
  ASSUME Seen, Typed', NEW r, Interrupt(r), UNCHANGED <<puts, made, parked>>
  PROVE  ParkedInv' /\ FreshInv'
<1>1. CASE link # "none"
  BY <1>1, SeenLost DEF Interrupt, Disconnect
<1>2. CASE link = "none"
  <2>1. UNCHANGED <<stranded, unacked, downstream>>
    BY <1>2 DEF Interrupt, wire
  <2>2. unacked <= unacked'
    BY <2>1 DEF Seen, Good, Typed, TypeOK
  <2> QED BY <2>1, <2>2, ParkedSame, FreshSame DEF Seen, Good
<1> QED BY <1>1, <1>2

LEMMA ClientSeen ==
  ASSUME Seen, Typed', Client
  PROVE  ParkedInv' /\ FreshInv'
<1>0. unacked \in Nat
  BY DEF Seen, Good, Typed, TypeOK
<1>1. CASE GoOffline
  BY <1>1, InterruptSeen DEF GoOffline
<1>2. CASE Put
  BY <1>2, PutSeen
<1>3. CASE Listen
  <2>1. UNCHANGED <<puts, parked, stranded, downstream>> /\ made'.put = made.put
    BY <1>3 DEF Listen, history, Seen, Good, Typed, TypeOK
  <2>2. unacked <= unacked'
    BY <1>0, <1>3 DEF Listen
  <2> QED BY <2>1, <2>2, ParkedSame, FreshSame DEF Seen, Good
<1>4. CASE \/ Open \/ GoOnline \/ Nudge \/ RetryFires \/ TokenFetched \/ TokenFailed
           \/ TokenChanged \/ \E id \in fired : Unlisten(id)
  <2>1. UNCHANGED <<puts, made, parked, stranded, unacked, downstream>>
    BY <1>4 DEF Open, GoOnline, Nudge, RetryFires, TokenFetched, TokenFailed, TokenChanged,
                Unlisten, data, wire, history
  <2>2. unacked <= unacked'
    BY <1>0, <2>1
  <2> QED BY <2>1, <2>2, ParkedSame, FreshSame DEF Seen, Good
<1> QED BY <1>1, <1>2, <1>3, <1>4 DEF Client

\* The server answers with nothing, with one response, or with a read's data
\* and its response.
LEMMA AnswerKinds ==
  ASSUME revoked \in Nat, NEW r \in Request, NEW a \in Answers(r)
  PROVE  \/ a = <<>>
         \/ a = <<DataPush(r.arg), Resp("listen", r.arg, TRUE)>>
         \/ \E op \in {"auth", "reauth", "put", "listen"}, ok \in BOOLEAN :
              a = <<Resp(op, r.arg, ok)>>
<1>1. r.arg \in Nat /\ (r.arg > revoked) \in BOOLEAN
      /\ r.op \in {"auth", "reauth", "unauth", "put", "listen", "unlisten"}
  BY DEF Request
<1>2. CASE r.op \in {"auth", "reauth"}
  <2>1. a = <<Resp(r.op, r.arg, r.arg > revoked)>>
    BY <1>2 DEF Answers
  <2> QED BY <1>1, <1>2, <2>1
<1>3. CASE r.op = "put"
  <2>1. a = <<Resp("put", r.arg, TRUE)>>
    BY <1>3 DEF Answers
  <2> QED BY <2>1
<1>4. CASE r.op = "listen"
  <2>1. \/ a = <<DataPush(r.arg), Resp("listen", r.arg, TRUE)>>
        \/ a = <<Resp("listen", r.arg, FALSE)>>
    BY <1>4 DEF Answers
  <2> QED BY <2>1
<1>5. CASE r.op \in {"unauth", "unlisten"}
  <2>1. a = <<>>
    BY <1>5 DEF Answers
  <2> QED BY <2>1
<1> QED BY <1>1, <1>2, <1>3, <1>4, <1>5

\* The server sends the value it holds: at least as new as all it has answered.
LEMMA ServeSeen ==
  ASSUME Seen, Typed', Serve
  PROVE  ParkedInv' /\ FreshInv'
<1> DEFINE h == Head(upstream)
<1>1. /\ made.put \in Nat /\ Len(puts) \in Nat /\ First \in Int /\ store \in Nat
      /\ Cardinality(Unanswered) \in 0 .. Len(puts)
      /\ PutArgs(downstream) = First .. First + Cardinality(Unanswered) - 1
      /\ First + Cardinality(Unanswered) - 1 <= store /\ store <= made.put
  BY PlainSeen DEF Seen, StoreInv
<1>2. /\ upstream # <<>> /\ UNCHANGED <<puts, made, parked, stranded, unacked>>
      /\ unacked <= unacked'
  BY DEF Serve, data, history, Seen, Good, Typed, TypeOK
<1>3. ParkedInv'
  BY <1>2, ParkedSame DEF Seen, Good
<1>4. h \in Request /\ downstream \in Seq(Response) /\ revoked \in Nat
  BY <1>2, SeqTail DEF Seen, Good, Typed, TypeOK
<1>5. PICK a \in Answers(h) : downstream' = downstream \o a
  BY DEF Serve
<1>6. a \in Seq(Response)
  BY <1>1, <1>4, AnswersType
<1>7. \A i \in DOMAIN a : a[i].op = "data" => a[i].val = store
  <2>1. CASE a = <<DataPush(h.arg), Resp("listen", h.arg, TRUE)>>
    <3>1. a[1].val = store /\ a[2].op = "listen"
      BY <2>1 DEF DataPush, Resp
    <3>2. DOMAIN a = {1, 2}
      BY <2>1
    <3> QED BY <3>1, <3>2
  <2>2. CASE \E op \in {"auth", "reauth", "put", "listen"}, ok \in BOOLEAN : a = <<Resp(op, h.arg, ok)>>
    <3>1. PICK op \in {"auth", "reauth", "put", "listen"}, ok \in BOOLEAN : a = <<Resp(op, h.arg, ok)>>
      BY <2>2
    <3>2. a[1].op = op
      BY <3>1 DEF Resp
    <3>3. DOMAIN a = {1}
      BY <3>1
    <3> QED BY <3>2, <3>3
  <2>3. CASE a = <<>>
    BY <2>3
  <2> QED BY <1>4, <2>1, <2>2, <2>3, AnswerKinds
<1>8. Fresh(a, First, made.put)
  <2>1. \A i, j \in DOMAIN a : a[i].op = "data" /\ a[j].op = "put" => FALSE
    <3>1. CASE a = <<DataPush(h.arg), Resp("listen", h.arg, TRUE)>>
      <4>1. a[1].op = "data" /\ a[2].op = "listen"
        BY <3>1 DEF DataPush, Resp
      <4>2. DOMAIN a = {1, 2}
        BY <3>1
      <4> QED BY <4>1, <4>2
    <3>2. CASE \E op \in {"auth", "reauth", "put", "listen"}, ok \in BOOLEAN : a = <<Resp(op, h.arg, ok)>>
      <4>1. PICK op \in {"auth", "reauth", "put", "listen"}, ok \in BOOLEAN : a = <<Resp(op, h.arg, ok)>>
        BY <3>2
      <4>2. a[1].op = op
        BY <4>1 DEF Resp
      <4>3. DOMAIN a = {1}
        BY <4>1
      <4> QED BY <4>2, <4>3
    <3>3. CASE a = <<>>
      BY <3>3
    <3> QED BY <1>4, <3>1, <3>2, <3>3, AnswerKinds
  <2>2. store \in First - 1 .. made.put
    BY <1>1
  <2> QED BY <1>7, <2>1, <2>2 DEF Fresh
<1>9. \A i \in DOMAIN a : a[i].op = "data" => \A b \in PutArgs(downstream) : b <= a[i].val
  <2>1. \A b \in PutArgs(downstream) : b <= store
    BY <1>1
  <2> QED BY <1>7, <2>1
<1>10. Fresh(downstream \o a, First, made.put)
  BY <1>1, <1>4, <1>6, <1>8, <1>9, FreshConcat DEF Seen, FreshInv
<1>11. First' = First
  BY <1>2, FirstSame
<1> QED BY <1>2, <1>3, <1>5, <1>10, <1>11 DEF FreshInv

LEMMA RevokeSeen ==
  ASSUME Seen, Typed', Revoke
  PROVE  ParkedInv' /\ FreshInv'
<1> DEFINE m == Resp("revoked", 0, TRUE)
<1>1. UNCHANGED <<puts, made, parked, stranded, unacked>> /\ unacked <= unacked'
  BY DEF Revoke, data, history, Seen, Good, Typed, TypeOK
<1>2. ParkedInv' /\ First' = First
  BY <1>1, ParkedSame, FirstSame DEF Seen, Good
<1>3. CASE downstream' = downstream
  BY <1>1, <1>2, <1>3, FreshSame DEF Seen
<1>4. CASE downstream' = Append(downstream, m)
  <2>1. m \in Response /\ m.op # "data"
    BY DEF Resp, Response
  <2>2. /\ downstream \in Seq(Response) /\ First \in Int /\ made.put \in Nat
    BY Plain DEF Seen, Good
  <2> HIDE DEF m
  <2>3. <<m>> \in Seq(Response) /\ Fresh(<<m>>, First, made.put)
        /\ \A i \in DOMAIN <<m>> : <<m>>[i].op # "data"
    BY <2>1, FreshOne
  <2>4. downstream' = downstream \o <<m>>
    BY <1>4, <2>1, <2>2, AppendIsConcat
  <2> DEFINE t == <<m>>
  <2>5. downstream' = downstream \o t
    BY <2>4
  <2>6. t \in Seq(Response) /\ Fresh(t, First, made.put) /\ \A i \in DOMAIN t : t[i].op # "data"
    BY <2>3
  <2> HIDE DEF t
  <2>7. Fresh(downstream \o t, First, made.put)
    BY <2>2, <2>6, FreshConcat DEF Seen, FreshInv
  <2>8. downstream' = downstream \o t /\ First' = First /\ made' = made
    <3>1. First' = First /\ made' = made
      BY <1>1, <1>2
    <3> QED BY <2>5, <3>1
  <2>9. Fresh(downstream', First', made'.put)
    BY <2>7, <2>8
  <2> QED BY <1>2, <2>9 DEF FreshInv
<1>5. downstream' = downstream \/ downstream' = Append(downstream, m)
  <2>1. UNCHANGED downstream \/ (Connected /\ downstream' = Append(downstream, m))
    BY DEF Revoke
  <2> HIDE DEF m
  <2> QED BY <2>1
<1> HIDE DEF m
<1> QED BY <1>3, <1>4, <1>5

LEMMA EnvironmentSeen ==
  ASSUME Seen, Typed', Environment
  PROVE  ParkedInv' /\ FreshInv'
<1>1. CASE AuthAnswers \/ AuthFails \/ IssueToken \/ SignOut
  <2>1. UNCHANGED <<puts, made, parked, stranded, unacked, downstream>>
    BY <1>1 DEF AuthAnswers, AuthFails, IssueToken, SignOut, data, wire, history
  <2>2. unacked <= unacked'
    BY <2>1 DEF Seen, Good, Typed, TypeOK
  <2> QED BY <2>1, <2>2, ParkedSame, FreshSame DEF Seen, Good
<1>2. CASE Drop
  BY <1>2, SeenLost DEF Drop, Disconnect
<1>3. CASE ServerKill
  BY <1>3, InterruptSeen DEF ServerKill
<1> QED BY <1>1, <1>2, <1>3, ServeSeen, RevokeSeen DEF Environment

LEMMA StepSeen == Seen /\ [Next]_vars => Seen'
<1> SUFFICES ASSUME Seen, [Next]_vars PROVE Seen'
  OBVIOUS
<1>1. Good' /\ [Stream!Next]_(Stream!vars)
  BY StepKept DEF Seen
<1>2. StoreInv'
  BY <1>1, StoreKept DEF Seen
<1>3. Typed'
  BY <1>1 DEF Good
<1>4. CASE UNCHANGED vars
  <2>1. UNCHANGED <<puts, made, parked, stranded, unacked, downstream>>
    BY <1>4 DEF vars, data, wire, history
  <2>2. unacked <= unacked'
    BY <2>1 DEF Seen, Good, Typed, TypeOK
  <2>3. ParkedInv' /\ FreshInv'
    BY <1>3, <2>1, <2>2, ParkedSame, FreshSame DEF Seen, Good
  <2> QED BY <1>1, <1>2, <2>3 DEF Seen
<1>5. CASE Next
  <2>1. ParkedInv' /\ FreshInv'
    BY <1>3, <1>5, ClientSeen, InboundSeen, EnvironmentSeen DEF Next
  <2> QED BY <1>1, <1>2, <2>1 DEF Seen
<1> QED BY <1>4, <1>5

LEMMA InitSeen == Init => Seen
<1> SUFFICES ASSUME Init PROVE Seen
  OBVIOUS
<1>1. Good /\ Stream!Init
  BY InitGood
<1>2. made.put = 0 /\ puts = <<>> /\ store = 0 /\ parked = <<>> /\ downstream = <<>>
  BY DEF Init
<1>3. First = 1
  BY <1>2, EmptySeq DEF First
<1>4. StoreInv
  BY <1>1, <1>2, <1>3 DEF StoreInv, Stream!Init
<1> QED BY <1>1, <1>2, <1>4, FreshEmpty DEF Seen, ParkedInv, FreshInv

\* Two sets with the same largest elements.
LEMMA SameLargest ==
  ASSUME NEW S, NEW T,
         \A x : (x \in S /\ \A y \in S : x >= y) <=> (x \in T /\ \A y \in T : x >= y)
  PROVE  Max(S) = Max(T)
BY DEF Max

\* The write tree holds the last writes, from some write on.
LEMMA TreeIs ==
  ASSUME Seen, ~ stranded
  PROVE  \E l \in Int : l <= First /\ WriteTree = l .. made.put
<1> DEFINE n == Len(puts)
           k == Len(parked)
<1>1. /\ made.put \in Nat /\ n \in Nat /\ First \in Int /\ First + n - 1 = made.put
      /\ \A i \in 1 .. n : puts[i] = First + i - 1
  BY PlainSeen DEF Seen
<1>2. /\ puts \in Seq(Nat) /\ parked \in Seq(Nat)
      /\ DOMAIN puts = 1 .. n /\ DOMAIN parked = 1 .. k /\ k \in Nat
  BY LenProperties DEF Seen, Good, Typed, TypeOK
<1>3. \A i \in 1 .. k : parked[i] = First - 1 - k + i
  <2>1. CASE parked = <<>>
    BY <1>2, <2>1, EmptySeq
  <2>2. CASE parked # <<>>
    BY <1>2, <2>2 DEF Seen, ParkedInv
  <2> QED BY <2>1, <2>2
<1>4. /\ ToSet(puts) = {puts[i] : i \in 1 .. n}
      /\ ToSet(parked) = {parked[i] : i \in 1 .. k}
  BY <1>2 DEF ToSet
<1> DEFINE f == First
           m == made.put
<1> HIDE DEF n, k, f, m
<1>5. ToSet(puts) = f .. m
  <2>1. ASSUME NEW x \in f .. m PROVE \E i \in 1 .. n : puts[i] = x
    <3>1. x - f + 1 \in 1 .. n /\ f + (x - f + 1) - 1 = x
      BY <1>1 DEF f, m
    <3>2. puts[x - f + 1] = f + (x - f + 1) - 1
      BY <1>1, <3>1 DEF f
    <3> QED BY <3>1, <3>2
  <2>2. ASSUME NEW i \in 1 .. n PROVE puts[i] \in f .. m
    BY <1>1 DEF f, m
  <2> QED BY <1>4, <2>1, <2>2
<1>6. ToSet(parked) = f - k .. f - 1
  <2>1. ASSUME NEW x \in f - k .. f - 1 PROVE \E i \in 1 .. k : parked[i] = x
    <3>1. x - f + 1 + k \in 1 .. k /\ f - 1 - k + (x - f + 1 + k) = x
      BY <1>1, <1>2 DEF f
    <3>2. parked[x - f + 1 + k] = f - 1 - k + (x - f + 1 + k)
      BY <1>3, <3>1 DEF f
    <3> QED BY <3>1, <3>2
  <2>2. ASSUME NEW i \in 1 .. k PROVE parked[i] \in f - k .. f - 1
    BY <1>1, <1>2, <1>3 DEF f
  <2> QED BY <1>4, <2>1, <2>2
<1>7. f - k \in Int /\ f - k <= f /\ (f .. m) \cup (f - k .. f - 1) = f - k .. m
  <2>1. f \in Int /\ m \in Int /\ k \in Nat /\ f <= m + 1
    BY <1>1, <1>2 DEF f, m
  <2> QED BY <2>1
<1> QED BY <1>5, <1>6, <1>7 DEF WriteTree, f, m

\* What is shown for the value v at the head of the queue.
LEMMA ShownIs ==
  ASSUME Seen, ~ stranded, downstream # <<>>, Head(downstream).op = "data",
         NEW W \in SUBSET (1 .. made.put)
  PROVE  Shown(W, Head(downstream).val) = Max(W \cup {0})
<1> DEFINE v == Head(downstream).val
           m == made.put
<1>1. m \in Nat /\ First \in Int
  BY PlainSeen DEF Seen
<1>2. v \in First - 1 .. m
  <2>1. downstream \in Seq(Response)
    BY DEF Seen, Good, Typed, TypeOK
  <2>2. 1 \in DOMAIN downstream /\ Head(downstream) = downstream[1]
    BY <2>1, SeqTail
  <2> QED BY <2>2 DEF Seen, FreshInv, Fresh
<1>3. PICK l \in Int : l <= First /\ WriteTree = l .. m
  BY TreeIs
<1> HIDE DEF v, m
<1>4. W \in SUBSET (1 .. m)
  BY DEF m
<1>5. CASE WriteTree \cap W # {}
  <2> DEFINE S == WriteTree \cap W
  <2>1. \A x : (x \in S /\ \A y \in S : x >= y)
                <=> (x \in W \cup {0} /\ \A y \in W \cup {0} : x >= y)
    <3>1. PICK s \in S : s \in l .. m /\ s \in 1 .. m
      BY <1>3, <1>4, <1>5
    <3>2. ASSUME NEW x, x \in S, \A y \in S : x >= y
          PROVE  x \in W \cup {0} /\ \A y \in W \cup {0} : x >= y
      <4>1. x \in l .. m /\ x \in 1 .. m /\ x \in W
        BY <1>3, <1>4, <3>2
      <4>2. ASSUME NEW y \in W PROVE x >= y
        <5>1. y \in 1 .. m
          BY <1>4
        <5>2. CASE y >= l
          <6>1. y \in S
            BY <1>1, <1>3, <5>1, <5>2
          <6> QED BY <3>2, <6>1
        <5>3. CASE y < l
          BY <1>1, <1>3, <4>1, <5>1, <5>3
        <5> QED BY <1>3, <5>1, <5>2, <5>3
      <4> QED BY <1>1, <4>1, <4>2
    <3>3. ASSUME NEW x, x \in W \cup {0}, \A y \in W \cup {0} : x >= y
          PROVE  x \in S /\ \A y \in S : x >= y
      <4>1. s \in W /\ x >= s
        BY <3>3
      <4>2. x \in 0 .. m
        BY <1>1, <1>4, <3>3
      <4>3. x \in l .. m /\ x # 0
        BY <1>1, <1>3, <3>1, <4>1, <4>2
      <4>4. x \in S
        BY <1>3, <3>3, <4>3
      <4> QED BY <3>3, <4>4
    <3> QED BY <3>2, <3>3
  <2> HIDE DEF S
  <2>2. Max(S) = Max(W \cup {0})
    BY <2>1, SameLargest
  <2> QED BY <1>5, <2>2 DEF Shown, S, v
<1>6. CASE WriteTree \cap W = {}
  <2>1. \A w \in W : w <= v
    <3>1. ASSUME NEW w \in W PROVE w <= v
      <4>1. w \in 1 .. m /\ w \notin l .. m
        BY <1>3, <1>4, <1>6
      <4> QED BY <1>1, <1>2, <1>3, <4>1
    <3> QED BY <3>1
  <2>2. {w \in W : w <= v} = W
    BY <2>1
  <2> QED BY <1>6, <2>2 DEF Shown, v
<1> QED BY <1>5, <1>6

\* A read of any node shows the last write made to it, through resends and
\* parked acknowledgements, as long as no acknowledgement was left parked by a
\* connection that was lost.
THEOREM ReadsSeeWrites == Spec => ReadSeesWrites
<1>1. ASSUME Seen, [Next]_vars
      PROVE  \A id \in fired' \ fired, W \in SUBSET (1 .. made.put) :
               ~ stranded => Shown(W, Head(downstream).val) = Max(W \cup {0})
  <2> SUFFICES ASSUME NEW id \in fired' \ fired, NEW W \in SUBSET (1 .. made.put), ~ stranded
               PROVE  Shown(W, Head(downstream).val) = Max(W \cup {0})
    OBVIOUS
  <2>1. DataUpdate
    <3>1. CASE Client
      BY <3>1 DEF Client, Open, GoOffline, GoOnline, Nudge, RetryFires, TokenFetched, TokenFailed,
                  TokenChanged, Put, Listen, Unlisten, data
    <3>2. CASE Inbound
      BY <3>2 DEF Inbound, Handshake, AuthReply, AuthRevoked, PutReply, ListenReply
    <3>3. CASE Environment
      BY <3>3 DEF Environment, AuthAnswers, AuthFails, IssueToken, SignOut, Drop, ServerKill,
                  Serve, Revoke, data
    <3>4. CASE UNCHANGED vars
      BY <3>4 DEF vars, data
    <3> QED BY <1>1, <3>1, <3>2, <3>3, <3>4 DEF Next
  <2>2. downstream # <<>> /\ Head(downstream).op = "data"
    BY <2>1 DEF DataUpdate, Receive
  <2> QED BY <1>1, <2>2, ShownIs
<1>2. Seen /\ [Next]_vars =>
        [\A id \in fired' \ fired, W \in SUBSET (1 .. made.put) :
           ~ stranded => Shown(W, Head(downstream).val) = Max(W \cup {0})]_vars
  BY <1>1
<1> QED BY <1>2, InitSeen, StepSeen, PTL DEF Spec, ReadSeesWrites

-----------------------------------------------------------------------------
(***************************************************************************)
(* Nothing is forgotten.                                                   *)
(***************************************************************************)
Distinct(q) == \A i, j \in DOMAIN q : q[i] = q[j] => i = j

\* The read id is on its way to the server, or its data or its refusal is on
\* the way back.
Awaited(up, down, id) ==
  \/ OnTheWire(up, "listen", id) \/ OnTheWire(down, "data", id)
  \/ Resp("listen", id, FALSE) \in ToSet(down)

AllAwaited == \A id \in ToSet(listens) \ fired : Awaited(upstream, downstream, id)

\* No read is registered twice, and on a connection that is ready every one
\* without its event is awaited.
ReadInv ==
  /\ Distinct(listens) /\ \A id \in ToSet(listens) : id <= made.listen
  /\ connState = "connected" => AllAwaited

LEMMA SetAppend ==
  ASSUME NEW S, NEW q \in Seq(S), NEW x \in S
  PROVE  ToSet(Append(q, x)) = ToSet(q) \cup {x}
<1> DEFINE n == Len(q)
           r == Append(q, x)
<1>1. /\ n \in Nat /\ DOMAIN q = 1 .. n /\ DOMAIN r = 1 .. n + 1 /\ r[n + 1] = x
      /\ \A i \in 1 .. n : r[i] = q[i]
  BY SeqAppend
<1> HIDE DEF n, r
<1>2. 1 .. n + 1 = (1 .. n) \cup {n + 1}
  BY <1>1
<1>3. ToSet(q) = {q[i] : i \in 1 .. n} /\ ToSet(r) = {r[i] : i \in 1 .. n + 1}
  BY <1>1 DEF ToSet
<1>4. ToSet(r) = ToSet(q) \cup {x}
  BY <1>1, <1>2, <1>3
<1> QED BY <1>4 DEF r

LEMMA SetTail ==
  ASSUME NEW S, NEW q \in Seq(S), q # <<>>
  PROVE  ToSet(q) = ToSet(Tail(q)) \cup {Head(q)}
<1> DEFINE n == Len(q)
           r == Tail(q)
           h == Head(q)
<1>1. /\ n \in Nat /\ n > 0 /\ DOMAIN q = 1 .. n /\ DOMAIN r = 1 .. n - 1 /\ h = q[1]
      /\ \A i \in 1 .. n - 1 : r[i] = q[i + 1]
  BY SeqTail
<1> HIDE DEF n, r, h
<1>2. ToSet(q) = {q[i] : i \in 1 .. n} /\ ToSet(r) = {r[i] : i \in 1 .. n - 1}
  BY <1>1 DEF ToSet
<1>3. \A i \in 1 .. n : i = 1 \/ (i - 1 \in 1 .. n - 1 /\ (i - 1) + 1 = i)
  BY <1>1
<1>4. \A i \in 1 .. n - 1 : i + 1 \in 1 .. n
  BY <1>1
<1>5. \A i \in 1 .. n : q[i] = h \/ q[i] \in ToSet(r)
  <2> SUFFICES ASSUME NEW i \in 1 .. n, i # 1 PROVE q[i] \in ToSet(r)
    BY <1>1
  <2>1. i - 1 \in 1 .. n - 1 /\ r[i - 1] = q[i]
    BY <1>1, <1>3
  <2> QED BY <1>2, <2>1
<1>6. \A i \in 1 .. n - 1 : r[i] \in ToSet(q)
  BY <1>1, <1>2, <1>4
<1>7. h \in ToSet(q)
  BY <1>1, <1>2
<1>8. ToSet(q) = ToSet(r) \cup {h}
  BY <1>2, <1>5, <1>6, <1>7
<1> QED BY <1>8 DEF r, h

LEMMA SetConcat ==
  ASSUME NEW S, NEW q \in Seq(S), NEW t \in Seq(S)
  PROVE  ToSet(q \o t) = ToSet(q) \cup ToSet(t)
<1> DEFINE n == Len(q)
           k == Len(t)
           r == q \o t
<1>1. /\ n \in Nat /\ k \in Nat /\ DOMAIN q = 1 .. n /\ DOMAIN t = 1 .. k
      /\ DOMAIN r = 1 .. n + k
      /\ \A i \in 1 .. n : r[i] = q[i]
      /\ \A i \in 1 .. k : r[n + i] = t[i]
  BY SeqConcat
<1> HIDE DEF n, k, r
<1>2. /\ ToSet(q) = {q[i] : i \in 1 .. n} /\ ToSet(t) = {t[i] : i \in 1 .. k}
      /\ ToSet(r) = {r[i] : i \in 1 .. n + k}
  BY <1>1 DEF ToSet
<1>3. \A i \in 1 .. n + k : i \notin 1 .. n => i - n \in 1 .. k /\ n + (i - n) = i
  BY <1>1
<1>4. \A i \in 1 .. n + k : r[i] \in ToSet(q) \cup ToSet(t)
  <2> TAKE i \in 1 .. n + k
  <2>1. CASE i \in 1 .. n
    BY <1>1, <1>2, <2>1
  <2>2. CASE i \notin 1 .. n
    <3>1. i - n \in 1 .. k /\ r[i] = t[i - n]
      BY <1>1, <1>3, <2>2
    <3> QED BY <1>2, <3>1
  <2> QED BY <2>1, <2>2
<1>5. /\ \A i \in 1 .. n : i \in 1 .. n + k
      /\ \A i \in 1 .. k : n + i \in 1 .. n + k
  BY <1>1
<1>6. ToSet(q) \subseteq ToSet(r) /\ ToSet(t) \subseteq ToSet(r)
  BY <1>1, <1>2, <1>5
<1>7. ToSet(r) = ToSet(q) \cup ToSet(t)
  BY <1>2, <1>4, <1>6
<1> QED BY <1>7 DEF r

\* Taking a registration out of a sequence that holds each one once.
LEMMA WithoutSet ==
  ASSUME NEW S, NEW q \in Seq(S), NEW x, Distinct(q)
  PROVE  ToSet(Without(q, x)) = ToSet(q) \ {x} /\ Distinct(Without(q, x))
<1>1. CASE x \notin ToSet(q)
  BY <1>1 DEF Without
<1>2. CASE x \in ToSet(q)
  <2> DEFINE k == CHOOSE j \in DOMAIN q : q[j] = x
             n == Len(q)
             a == SubSeq(q, 1, k - 1)
             b == SubSeq(q, k + 1, n)
             r == a \o b
  <2>1. k \in 1 .. n /\ q[k] = x /\ DOMAIN q = 1 .. n /\ n \in Nat
    BY <1>2, LenProperties DEF ToSet
  <2>2. Without(q, x) = r
    BY <1>2 DEF Without, RemoveAt
  <2> HIDE DEF k, n
  <2>3. /\ a \in Seq(S) /\ Len(a) = k - 1 /\ \A j \in 1 .. k - 1 : a[j] = q[1 + j - 1]
        /\ b \in Seq(S) /\ Len(b) = n - k /\ \A j \in 1 .. n - k : b[j] = q[(k + 1) + j - 1]
    <3>1. 1 \in Int /\ k - 1 \in Int /\ k + 1 \in Int /\ n \in Int
      BY <2>1
    <3>2. /\ \A j \in 1 .. k - 1 : q[j] \in S
          /\ \A j \in k + 1 .. n : q[j] \in S
      BY <2>1, ElementOfSeq DEF n
    <3>3. /\ (k - 1) - 1 + 1 = k - 1 /\ (~ (1 <= k - 1) => k - 1 = 0)
          /\ n - (k + 1) + 1 = n - k /\ (~ (k + 1 <= n) => n - k = 0)
      BY <2>1
    <3>4. a \in Seq(S) /\ Len(a) = k - 1 /\ \A j \in 1 .. k - 1 : a[j] = q[1 + j - 1]
      BY <3>1, <3>2, <3>3, SubSeqProperties
    <3>5. b \in Seq(S) /\ Len(b) = n - k /\ \A j \in 1 .. n - k : b[j] = q[(k + 1) + j - 1]
      BY <3>1, <3>2, <3>3, SubSeqProperties
    <3> QED BY <3>4, <3>5
  <2> HIDE DEF a, b
  <2>4. /\ DOMAIN r = 1 .. (k - 1) + (n - k)
        /\ \A j \in 1 .. k - 1 : r[j] = a[j]
        /\ \A j \in 1 .. n - k : r[(k - 1) + j] = b[j]
    <3>1. /\ DOMAIN r = 1 .. Len(a) + Len(b)
          /\ \A j \in 1 .. Len(a) : r[j] = a[j]
          /\ \A j \in 1 .. Len(b) : r[Len(a) + j] = b[j]
      <4>1. a \in Seq(S) /\ b \in Seq(S)
        BY <2>3
      <4> QED BY <4>1, SeqConcat
    <3> QED BY <2>3, <3>1
  <2> HIDE DEF r
  <2>5. DOMAIN r = 1 .. n - 1 /\ \A j \in 1 .. n - 1 : r[j] = q[IF j < k THEN j ELSE j + 1]
    <3>1. (k - 1) + (n - k) = n - 1
      BY <2>1
    <3>2. ASSUME NEW j \in 1 .. n - 1 PROVE r[j] = q[IF j < k THEN j ELSE j + 1]
      <4>1. CASE j < k
        <5>1. j \in 1 .. k - 1 /\ 1 + j - 1 = j
          BY <2>1, <4>1
        <5> QED BY <2>3, <2>4, <4>1, <5>1
      <4>2. CASE ~ (j < k)
        <5>1. /\ j - (k - 1) \in 1 .. n - k /\ (k - 1) + (j - (k - 1)) = j
              /\ (k + 1) + (j - (k - 1)) - 1 = j + 1
          BY <2>1, <4>2
        <5> QED BY <2>3, <2>4, <4>2, <5>1
      <4> QED BY <4>1, <4>2
    <3> QED BY <2>4, <3>1, <3>2
  <2> DEFINE up(j) == IF j < k THEN j ELSE j + 1
  <2>6. /\ \A j \in 1 .. n - 1 : up(j) \in 1 .. n /\ up(j) # k
        /\ \A i, j \in 1 .. n - 1 : up(i) = up(j) => i = j
        /\ \A m \in 1 .. n : m # k => \E j \in 1 .. n - 1 : up(j) = m
    <3>1. ASSUME NEW m \in 1 .. n, m # k PROVE \E j \in 1 .. n - 1 : up(j) = m
      <4>1. CASE m < k
        <5>1. m \in 1 .. n - 1 /\ up(m) = m
          BY <2>1, <4>1
        <5> QED BY <5>1
      <4>2. CASE m > k
        <5>1. m - 1 \in 1 .. n - 1 /\ up(m - 1) = m
          BY <2>1, <4>2
        <5> QED BY <5>1
      <4> QED BY <2>1, <3>1, <4>1, <4>2
    <3> QED BY <2>1, <3>1
  <2>7. \A j \in 1 .. n - 1 : r[j] = q[up(j)]
    BY <2>5
  <2> HIDE DEF up
  <2>8. \A i, j \in 1 .. n : q[i] = q[j] => i = j
    BY <2>1 DEF Distinct
  <2>9. Distinct(r)
    BY <2>5, <2>6, <2>7, <2>8 DEF Distinct
  <2>10. ToSet(r) = ToSet(q) \ {x}
    <3>1. ToSet(r) = {r[j] : j \in 1 .. n - 1} /\ ToSet(q) = {q[j] : j \in 1 .. n}
      BY <2>1, <2>5 DEF ToSet
    <3>2. \A j \in 1 .. n - 1 : r[j] \in ToSet(q) /\ r[j] # x
      BY <2>1, <2>6, <2>7, <2>8, <3>1
    <3>3. ASSUME NEW m \in 1 .. n, q[m] # x PROVE q[m] \in ToSet(r)
      <4>1. PICK j \in 1 .. n - 1 : up(j) = m
        BY <2>1, <2>6, <3>3
      <4> QED BY <2>7, <3>1, <4>1
    <3> QED BY <3>1, <3>2, <3>3
  <2> QED BY <2>2, <2>9, <2>10
<1> QED BY <1>1, <1>2

LEMMA AwaitedMore ==
  ASSUME NEW up, NEW down, NEW more, NEW rest, NEW id, Awaited(up, down, id),
         ToSet(up) \subseteq ToSet(more), ToSet(down) \subseteq ToSet(rest)
  PROVE  Awaited(more, rest, id)
BY DEF Awaited, OnTheWire

\* The connection is not ready: only the registrations count.
LEMMA ReadsUnready ==
  ASSUME ReadInv, connState' # "connected", UNCHANGED <<listens, made>>
  PROVE  ReadInv'
BY DEF ReadInv

\* Nothing is handled.
LEMMA ReadsSame ==
  ASSUME ReadInv, connState' = "connected" => connState = "connected",
         UNCHANGED <<listens, fired, made.listen>>,
         ToSet(upstream) \subseteq ToSet(upstream'),
         ToSet(downstream) \subseteq ToSet(downstream')
  PROVE  ReadInv'
<1>1. ASSUME connState' = "connected", NEW id \in ToSet(listens) \ fired
      PROVE  Awaited(upstream', downstream', id)
  BY <1>1, AwaitedMore DEF ReadInv, AllAwaited
<1> QED BY <1>1 DEF ReadInv, AllAwaited

\* A request is sent, or none.
LEMMA ReadsSent ==
  ASSUME Typed, ReadInv, UNCHANGED <<connState, listens, fired, made.listen, downstream>>,
         \/ upstream' = upstream
         \/ \E r \in Request : upstream' = Append(upstream, r)
  PROVE  ReadInv'
<1>1. upstream \in Seq(Request)
  BY Plain
<1>2. ToSet(upstream) \subseteq ToSet(upstream')
  <2>1. CASE upstream' = upstream
    BY <2>1
  <2>2. ASSUME NEW r \in Request, upstream' = Append(upstream, r)
        PROVE  ToSet(upstream) \subseteq ToSet(upstream')
    <3>1. ToSet(Append(upstream, r)) = ToSet(upstream) \cup {r}
      BY <1>1, SetAppend
    <3> QED BY <2>2, <3>1
  <2> QED BY <2>1, <2>2
<1>3. ToSet(downstream) \subseteq ToSet(downstream') /\ connState' = connState
  OBVIOUS
<1> QED BY <1>2, <1>3, ReadsSame

\* A message is handled that is neither a read's data nor its answer.
LEMMA ReadsHandled ==
  ASSUME Typed, ReadInv, downstream # <<>>, Head(downstream).op \notin {"data", "listen"},
         downstream' = Tail(downstream), connState' = "connected" => connState = "connected",
         UNCHANGED <<upstream, listens, fired, made.listen>>
  PROVE  ReadInv'
<1>1. ToSet(downstream) = ToSet(downstream') \cup {Head(downstream)}
  BY Plain, SetTail
<1>2. Head(downstream).op # "listen" /\ Head(downstream).op # "data"
  OBVIOUS
<1>3. ASSUME NEW id, Awaited(upstream, downstream, id)
      PROVE  Awaited(upstream', downstream', id)
  <2>1. CASE OnTheWire(upstream, "listen", id)
    BY <2>1 DEF Awaited
  <2>2. CASE OnTheWire(downstream, "data", id)
    BY <1>1, <1>2, <2>2 DEF Awaited, OnTheWire
  <2>3. CASE Resp("listen", id, FALSE) \in ToSet(downstream)
    <3>1. Resp("listen", id, FALSE).op = "listen"
      BY DEF Resp
    <3> QED BY <1>1, <1>2, <2>3, <3>1 DEF Awaited
  <2> QED BY <1>3, <2>1, <2>2, <2>3 DEF Awaited
<1> QED BY <1>3 DEF ReadInv, AllAwaited

\* restoreState asks for every read again.
LEMMA ReadsRestored ==
  ASSUME Typed, ReadInv, RestoreState, UNCHANGED <<listens, fired, made>>
  PROVE  ReadInv'
<1>1. /\ upstream \in Seq(Request) /\ listens \in Seq(Nat) /\ puts \in Seq(Nat)
  BY Plain
<1> DEFINE l == [i \in DOMAIN listens |-> Req("listen", listens[i])]
           p == [i \in DOMAIN puts |-> Req("put", puts[i])]
<1>2. l \in Seq(Request) /\ p \in Seq(Request) /\ DOMAIN l = DOMAIN listens
  <2>1. /\ Len(listens) \in Nat /\ DOMAIN listens = 1 .. Len(listens)
        /\ Len(puts) \in Nat /\ DOMAIN puts = 1 .. Len(puts)
    BY <1>1, LenProperties
  <2>2. /\ l \in [1 .. Len(listens) -> Request]
        /\ p \in [1 .. Len(puts) -> Request]
    BY <1>1, <2>1, ReqType, ElementOfSeq
  <2> QED BY <2>1, <2>2, SeqMap
<1>3. \A i \in DOMAIN listens : l[i] = Req("listen", listens[i])
  OBVIOUS
<1>4. Restored = l \o p
  BY DEF Restored
<1> HIDE DEF l, p
<1>5. l \o p \in Seq(Request) /\ ToSet(l \o p) = ToSet(l) \cup ToSet(p)
  <2>1. ToSet(l \o p) = ToSet(l) \cup ToSet(p)
    BY <1>2, SetConcat
  <2>2. l \o p \in Seq(Request)
    BY <1>2, ConcatProperties
  <2> QED BY <2>1, <2>2
<1>6. ToSet(upstream') = ToSet(upstream) \cup (ToSet(l) \cup ToSet(p))
  <2>1. upstream' = upstream \o (l \o p)
    BY <1>4 DEF RestoreState
  <2> DEFINE r == l \o p
  <2>2. r \in Seq(Request) /\ upstream' = upstream \o r
    BY <1>5, <2>1
  <2> HIDE DEF r
  <2>3. ToSet(upstream') = ToSet(upstream) \cup ToSet(r)
    BY <1>1, <2>2, SetConcat
  <2> QED BY <1>5, <2>3 DEF r
<1>7. ASSUME NEW id \in ToSet(listens) PROVE OnTheWire(upstream', "listen", id)
  <2>1. PICK i \in DOMAIN listens : listens[i] = id
    BY DEF ToSet
  <2>2. l[i] \in ToSet(l) /\ l[i] = Req("listen", id)
    BY <1>2, <1>3, <2>1 DEF ToSet
  <2> QED BY <1>6, <2>2, ReqFields DEF OnTheWire
<1>8. AllAwaited'
  BY <1>7 DEF AllAwaited, Awaited
<1> QED BY <1>8 DEF ReadInv

\* A read is made.
LEMMA ListenReads ==
  ASSUME Typed, ReadInv, Listen
  PROVE  ReadInv'
<1> DEFINE id == made.listen + 1
           n == Len(listens)
<1>1. /\ made.listen \in Nat /\ id \in Nat /\ upstream \in Seq(Request) /\ listens \in Seq(Nat)
      /\ made \in [{"put", "listen"} -> Nat]
  BY Plain DEF Typed, TypeOK
<1>2. /\ made'.listen = id /\ listens' = Append(listens, id)
      /\ UNCHANGED <<connState, fired, downstream>>
      /\ IF Connected THEN upstream' = Append(upstream, Req("listen", id))
                      ELSE upstream' = upstream
  BY <1>1 DEF Listen, client
<1>3. Req("listen", id) \in Request
  BY <1>1, ReqType
<1> HIDE DEF id
<1>4. ToSet(listens') = ToSet(listens) \cup {id}
  <2>1. ToSet(Append(listens, id)) = ToSet(listens) \cup {id}
    BY <1>1, SetAppend
  <2> QED BY <1>2, <2>1
<1>5. \A x \in ToSet(listens) : x < id /\ x \in Nat
  <2>1. \A x \in ToSet(listens) : x <= made.listen
    BY DEF ReadInv
  <2>2. \A x \in ToSet(listens) : x \in Nat
    BY <1>1, ElementOfSeq, LenProperties DEF ToSet
  <2> QED BY <1>1, <2>1, <2>2 DEF id
<1>6. Distinct(listens')
  <2>1. /\ n \in Nat /\ DOMAIN listens = 1 .. n /\ DOMAIN listens' = 1 .. n + 1
        /\ listens'[n + 1] = id /\ \A i \in 1 .. n : listens'[i] = listens[i]
    BY <1>1, <1>2, SeqAppend
  <2>2. \A i \in 1 .. n : listens[i] \in Nat /\ listens[i] < id
    BY <1>5, <2>1 DEF ToSet
  <2>3. \A i, j \in 1 .. n : listens[i] = listens[j] => i = j
    BY <2>1 DEF ReadInv, Distinct
  <2> HIDE DEF n
  <2>4. \A i \in 1 .. n + 1 : i \in 1 .. n \/ i = n + 1
    BY <2>1
  <2>5. \A i, j \in 1 .. n + 1 : listens'[i] = listens'[j] => i = j
    BY <1>1, <2>1, <2>2, <2>3, <2>4
  <2> QED BY <2>1, <2>5 DEF Distinct
<1>7. \A x \in ToSet(listens') : x <= made'.listen
  BY <1>1, <1>2, <1>4, <1>5
<1>8. ASSUME connState' = "connected" PROVE AllAwaited'
  <2>1. upstream' = Append(upstream, Req("listen", id)) /\ connState = "connected"
    BY <1>2, <1>8 DEF Connected
  <2>2. ToSet(upstream') = ToSet(upstream) \cup {Req("listen", id)}
    <3>1. ToSet(Append(upstream, Req("listen", id))) = ToSet(upstream) \cup {Req("listen", id)}
      BY <1>1, <1>3, SetAppend
    <3> QED BY <2>1, <3>1
  <2>3. Awaited(upstream', downstream', id)
    <3> DEFINE r == Req("listen", id)
    <3>1. r.op = "listen" /\ r.arg = id
      BY ReqFields
    <3>2. r \in ToSet(upstream')
      BY <2>2
    <3> HIDE DEF r
    <3> QED BY <3>1, <3>2 DEF Awaited, OnTheWire
  <2>4. ASSUME NEW x \in ToSet(listens) \ fired PROVE Awaited(upstream', downstream', x)
    BY <1>2, <2>1, <2>2, AwaitedMore DEF ReadInv, AllAwaited
  <2> QED BY <1>2, <1>4, <2>3, <2>4 DEF AllAwaited
<1> QED BY <1>6, <1>7, <1>8 DEF ReadInv

\* A registration is taken away, with its event if it has one.
LEMMA ReadsWithout ==
  ASSUME Typed, ReadInv, NEW id, listens' = Without(listens, id), made' = made,
         connState' = "connected" => connState = "connected",
         \A x \in ToSet(listens) \ fired' : x # id =>
            /\ x \notin fired
            /\ Awaited(upstream, downstream, x) => Awaited(upstream', downstream', x)
  PROVE  ReadInv'
<1>1. ToSet(listens') = ToSet(listens) \ {id} /\ Distinct(listens')
  BY Plain, WithoutSet DEF ReadInv
<1>2. ASSUME connState' = "connected", NEW x \in ToSet(listens') \ fired'
      PROVE  Awaited(upstream', downstream', x)
  BY <1>1, <1>2 DEF ReadInv, AllAwaited
<1> QED BY <1>1, <1>2 DEF ReadInv, AllAwaited

LEMMA UnlistenReads ==
  ASSUME Typed, ReadInv, NEW id \in fired, Unlisten(id)
  PROVE  ReadInv'
<1>1. /\ fired' = fired \ {id} /\ listens' = Without(listens, id)
      /\ UNCHANGED <<connState, made, downstream>>
      /\ upstream' = IF Connected THEN Append(upstream, Req("unlisten", id)) ELSE upstream
  BY DEF Unlisten, client
<1>2. Req("unlisten", id) \in Request /\ upstream \in Seq(Request)
  BY Plain, ReqType DEF Typed, TypeOK
<1>3. ToSet(upstream) \subseteq ToSet(upstream')
  BY <1>1, <1>2, SetAppend
<1>4. ToSet(downstream) \subseteq ToSet(downstream') /\ connState' = connState /\ made' = made
  BY <1>1
<1>5. \A x : Awaited(upstream, downstream, x) => Awaited(upstream', downstream', x)
  BY <1>3, <1>4, AwaitedMore
<1>6. \A x \in ToSet(listens) \ fired' : x # id => x \notin fired
  BY <1>1
<1> QED BY <1>1, <1>4, <1>5, <1>6, ReadsWithout

LEMMA ListenReplyReads ==
  ASSUME Typed, ReadInv, ListenReply
  PROVE  ReadInv'
<1> DEFINE m == Head(downstream)
<1>1. /\ downstream # <<>> /\ m.op = "listen" /\ downstream' = Tail(downstream)
      /\ UNCHANGED <<connState, made, upstream>>
  BY DEF ListenReply, Receive, client
<1>2. ToSet(downstream) = ToSet(downstream') \cup {m}
  BY <1>1, Plain, SetTail
<1>3. ASSUME NEW x, m.ok \/ x # m.arg, Awaited(upstream, downstream, x)
      PROVE  Awaited(upstream', downstream', x)
  <2>1. CASE OnTheWire(upstream, "listen", x)
    BY <1>1, <2>1 DEF Awaited
  <2>2. CASE OnTheWire(downstream, "data", x)
    <3>1. PICK d \in ToSet(downstream) : d.op = "data" /\ d.arg = x
      BY <2>2 DEF OnTheWire
    <3>2. d # m
      BY <1>1, <3>1
    <3> QED BY <1>2, <3>1, <3>2 DEF Awaited, OnTheWire
  <2>3. CASE Resp("listen", x, FALSE) \in ToSet(downstream)
    <3>1. Resp("listen", x, FALSE).arg = x /\ ~ Resp("listen", x, FALSE).ok
      BY DEF Resp
    <3>2. Resp("listen", x, FALSE) # m
      BY <1>3, <3>1
    <3> QED BY <1>2, <2>3, <3>2 DEF Awaited
  <2> QED BY <1>3, <2>1, <2>2, <2>3 DEF Awaited
<1>4. CASE m.ok
  <2>1. UNCHANGED <<listens, fired>>
    BY <1>4 DEF ListenReply
  <2> QED BY <1>1, <1>3, <1>4, <2>1 DEF ReadInv, AllAwaited
<1>5. CASE ~ m.ok
  <2>1. listens' = Without(listens, m.arg) /\ fired' = fired \ {m.arg}
    BY <1>5 DEF ListenReply
  <2>2. made' = made /\ connState' = connState
    BY <1>1
  <2> HIDE DEF m
  <2>3. \A x \in ToSet(listens) \ fired' : x # m.arg =>
          /\ x \notin fired
          /\ Awaited(upstream, downstream, x) => Awaited(upstream', downstream', x)
    BY <1>3, <2>1
  <2> QED BY <2>1, <2>2, <2>3, ReadsWithout
<1> QED BY <1>4, <1>5

LEMMA DataReads ==
  ASSUME Typed, ReadInv, DataUpdate
  PROVE  ReadInv'
<1> DEFINE m == Head(downstream)
<1>1. /\ downstream # <<>> /\ m.op = "data" /\ downstream' = Tail(downstream)
      /\ fired' = IF m.arg \in ToSet(listens) THEN fired \cup {m.arg} ELSE fired
      /\ UNCHANGED <<connState, made, upstream, listens>>
  BY DEF DataUpdate, Receive, client
<1>2. ToSet(downstream) = ToSet(downstream') \cup {m}
  BY <1>1, Plain, SetTail
<1> HIDE DEF m
<1>3. ASSUME NEW x \in ToSet(listens) \ fired', Awaited(upstream, downstream, x)
      PROVE  Awaited(upstream', downstream', x)
  <2>1. CASE OnTheWire(upstream, "listen", x)
    BY <1>1, <2>1 DEF Awaited
  <2>2. CASE OnTheWire(downstream, "data", x)
    <3>1. PICK d \in ToSet(downstream) : d.op = "data" /\ d.arg = x
      BY <2>2 DEF OnTheWire
    <3>2. d # m
      BY <1>1, <1>3, <3>1
    <3> QED BY <1>2, <3>1, <3>2 DEF Awaited, OnTheWire
  <2>3. CASE Resp("listen", x, FALSE) \in ToSet(downstream)
    <3>1. Resp("listen", x, FALSE).op = "listen"
      BY DEF Resp
    <3>2. Resp("listen", x, FALSE) # m
      BY <1>1, <3>1
    <3> QED BY <1>2, <2>3, <3>2 DEF Awaited
  <2> QED BY <1>3, <2>1, <2>2, <2>3 DEF Awaited
<1>4. \A x \in ToSet(listens) \ fired' : x \notin fired
  BY <1>1
<1> QED BY <1>1, <1>3, <1>4 DEF ReadInv, AllAwaited

\* The server answers a read with its data or with its refusal.
LEMMA ServeReads ==
  ASSUME Typed, ReadInv, Serve
  PROVE  ReadInv'
<1> DEFINE h == Head(upstream)
<1>1. /\ upstream # <<>> /\ upstream' = Tail(upstream)
      /\ UNCHANGED <<connState, made, listens, fired>>
  BY DEF Serve, client, data
<1>2. /\ upstream \in Seq(Request) /\ downstream \in Seq(Response)
      /\ store \in Nat /\ revoked \in Nat
  BY Plain
<1>3. h \in Request /\ ToSet(upstream) = ToSet(upstream') \cup {h}
  BY <1>1, <1>2, SeqTail, SetTail
<1>4. PICK a \in Answers(h) : downstream' = downstream \o a
  BY DEF Serve
<1>5. a \in Seq(Response)
  BY <1>2, <1>3, AnswersType
<1>6. ToSet(downstream') = ToSet(downstream) \cup ToSet(a)
  BY <1>2, <1>4, <1>5, SetConcat
<1>7. h.op = "listen" => \/ OnTheWire(a, "data", h.arg)
                         \/ Resp("listen", h.arg, FALSE) \in ToSet(a)
  <2> SUFFICES ASSUME h.op = "listen"
               PROVE  \/ OnTheWire(a, "data", h.arg)
                      \/ Resp("listen", h.arg, FALSE) \in ToSet(a)
    OBVIOUS
  <2>1. \/ a = <<DataPush(h.arg), Resp("listen", h.arg, TRUE)>>
        \/ a = <<Resp("listen", h.arg, FALSE)>>
    BY DEF Answers
  <2>2. CASE a = <<DataPush(h.arg), Resp("listen", h.arg, TRUE)>>
    <3>1. 1 \in DOMAIN a /\ a[1] = DataPush(h.arg)
      BY <2>2
    <3>2. a[1] \in ToSet(a) /\ a[1].op = "data" /\ a[1].arg = h.arg
      BY <3>1 DEF ToSet, DataPush
    <3> QED BY <3>2 DEF OnTheWire
  <2>3. CASE a = <<Resp("listen", h.arg, FALSE)>>
    <3>1. 1 \in DOMAIN a /\ a[1] = Resp("listen", h.arg, FALSE)
      BY <2>3
    <3> QED BY <3>1 DEF ToSet
  <2> QED BY <2>1, <2>2, <2>3
<1> HIDE DEF h
<1>8. ASSUME NEW x, Awaited(upstream, downstream, x) PROVE Awaited(upstream', downstream', x)
  <2>1. CASE OnTheWire(upstream, "listen", x)
    <3>1. PICK r \in ToSet(upstream) : r.op = "listen" /\ r.arg = x
      BY <2>1 DEF OnTheWire
    <3>2. CASE r = h
      BY <1>6, <1>7, <3>1, <3>2 DEF Awaited, OnTheWire
    <3>3. CASE r # h
      BY <1>3, <3>1, <3>3 DEF Awaited, OnTheWire
    <3> QED BY <3>2, <3>3
  <2>2. CASE OnTheWire(downstream, "data", x) \/ Resp("listen", x, FALSE) \in ToSet(downstream)
    BY <1>6, <2>2 DEF Awaited, OnTheWire
  <2> QED BY <1>8, <2>1, <2>2 DEF Awaited
<1> QED BY <1>1, <1>8 DEF ReadInv, AllAwaited

LEMMA ClientReads ==
  ASSUME Good, ReadInv, Client
  PROVE  ReadInv'
<1>1. CASE Open \/ GoOnline \/ Nudge
  <2>1. UNCHANGED <<connState, listens, fired, made, upstream, downstream>>
    BY <1>1 DEF Open, GoOnline, Nudge, data, wire
  <2> QED BY <2>1, ReadsSent DEF Good
<1>2. CASE GoOffline
  <2>1. connState' # "connected" /\ UNCHANGED <<listens, made>>
    BY <1>2 DEF GoOffline, Interrupt, Disconnect
  <2> QED BY <2>1, ReadsUnready
<1>3. CASE RetryFires
  <2>1. connState' # "connected" /\ UNCHANGED <<listens, made>>
    BY <1>3 DEF RetryFires, data
  <2> QED BY <2>1, ReadsUnready
<1>4. CASE TokenFetched \/ TokenFailed
  <2>1. /\ UNCHANGED <<listens, fired, made, upstream, downstream>>
        /\ connState' = connState \/ connState' # "connected"
    BY <1>4 DEF TokenFetched, TokenFailed, OpenNetworkConnection, data, wire
  <2>2. CASE connState' = connState
    BY <2>1, <2>2, ReadsSent DEF Good
  <2>3. CASE connState' # "connected"
    BY <2>1, <2>3, ReadsUnready
  <2> QED BY <2>1, <2>2, <2>3
<1>5. CASE TokenChanged
  <2>1. UNCHANGED <<connState, listens, fired, made, downstream>>
    BY <1>5 DEF TokenChanged, data
  <2>2. authToken' \in Nat
    BY <1>5, TokenChangedTyped DEF Good, Typed, TypeOK
  <2>3. Req("reauth", authToken') \in Request /\ Req("unauth", 0) \in Request
    BY <2>2, ReqType
  <2>4. \/ upstream' = upstream
        \/ upstream' = Append(upstream, Req("reauth", authToken'))
        \/ upstream' = Append(upstream, Req("unauth", 0))
    BY <1>5 DEF TokenChanged
  <2>5. upstream' = upstream \/ \E r \in Request : upstream' = Append(upstream, r)
    BY <2>3, <2>4
  <2> QED BY <2>1, <2>5, ReadsSent DEF Good
<1>6. CASE Put
  <2>1. made.put + 1 \in Nat /\ UNCHANGED <<connState, listens, fired, made.listen, downstream>>
    <3>1. made \in [{"put", "listen"} -> Nat] /\ made.put \in Nat
      BY DEF Good, Typed, TypeOK
    <3>2. made' = [made EXCEPT !.put = made.put + 1]
          /\ UNCHANGED <<connState, listens, fired, downstream>>
      BY <1>6 DEF Put, client
    <3>3. made'.listen = made.listen
      BY <3>1, <3>2
    <3> QED BY <3>1, <3>2, <3>3
  <2>2. Req("put", made.put + 1) \in Request
    BY <2>1, ReqType
  <2>3. upstream' = upstream \/ \E r \in Request : upstream' = Append(upstream, r)
    BY <1>6, <2>2 DEF Put
  <2> QED BY <2>1, <2>3, ReadsSent DEF Good
<1> QED BY <1>1, <1>2, <1>3, <1>4, <1>5, <1>6, ListenReads, UnlistenReads DEF Client, Good

LEMMA InboundReads ==
  ASSUME Good, ReadInv, Inbound
  PROVE  ReadInv'
<1>1. CASE Handshake
  <2>1. UNCHANGED <<listens, fired, made>> /\ (RestoreState \/ connState' # "connected")
    BY <1>1 DEF Handshake
  <2> QED BY <2>1, ReadsRestored, ReadsUnready DEF Good
<1>2. CASE AuthReply
  <2>0. UNCHANGED <<listens, fired, made>>
    BY <1>2 DEF AuthReply
  <2>1. CASE ~ Head(downstream).ok
    <3>1. connState' # "connected"
      BY <1>2, <2>1 DEF AuthReply, TokenRefused, Disconnect
    <3> QED BY <2>0, <3>1, ReadsUnready
  <2>2. CASE Head(downstream).ok /\ Head(downstream).op = "auth"
    <3>1. RestoreState
      BY <1>2, <2>2 DEF AuthReply
    <3> QED BY <2>0, <3>1, ReadsRestored DEF Good
  <2>3. CASE Head(downstream).ok /\ Head(downstream).op # "auth"
    <3>1. /\ downstream # <<>> /\ Head(downstream).op = "reauth" /\ downstream' = Tail(downstream)
          /\ upstream' = upstream
      BY <1>2, <2>3 DEF AuthReply, Receive
    <3>2. connState = "connected"
      <4>1. downstream \in Seq(Response)
        BY Plain DEF Good
      <4>2. /\ Ops(downstream) = Ops(downstream') \cup {"reauth"}
            /\ AuthFirst(downstream) => Head(downstream).op # "reauth"
        BY <3>1, <4>1, WireTail
      <4>3. connState # "authenticating"
        BY <3>1, <4>2 DEF Good, AuthInv
      <4> QED BY <3>1, <4>3 DEF Good, StateInv, StateMatches, WireMatches, Typed, TypeOK, State
    <3> QED BY <2>0, <3>1, <3>2, ReadsHandled DEF Good
  <2> QED BY <2>1, <2>2, <2>3
<1>3. CASE AuthRevoked
  <2>1. connState' # "connected" /\ UNCHANGED <<listens, made>>
    BY <1>3 DEF AuthRevoked, TokenRefused, Disconnect
  <2> QED BY <2>1, ReadsUnready
<1>4. CASE PutReply
  <2>1. /\ downstream # <<>> /\ Head(downstream).op = "put" /\ downstream' = Tail(downstream)
        /\ UNCHANGED <<connState, upstream, listens, fired, made>>
    BY <1>4 DEF PutReply, Receive, client
  <2> QED BY <2>1, ReadsHandled DEF Good
<1> QED BY <1>1, <1>2, <1>3, <1>4, DataReads, ListenReplyReads DEF Inbound, Good

LEMMA EnvironmentReads ==
  ASSUME Good, ReadInv, Environment
  PROVE  ReadInv'
<1>1. CASE AuthAnswers \/ AuthFails \/ IssueToken \/ SignOut
  <2>1. UNCHANGED <<connState, listens, fired, made, upstream, downstream>>
    BY <1>1 DEF AuthAnswers, AuthFails, IssueToken, SignOut, client, data, wire
  <2> QED BY <2>1, ReadsSent DEF Good
<1>2. CASE Drop \/ ServerKill
  <2>1. connState' # "connected" /\ UNCHANGED <<listens, made>>
    BY <1>2 DEF Drop, ServerKill, Interrupt, Disconnect
  <2> QED BY <2>1, ReadsUnready
<1>3. CASE Revoke
  <2> DEFINE m == Resp("revoked", 0, TRUE)
  <2>1. /\ UNCHANGED <<connState, listens, fired, made, upstream>>
        /\ downstream' = downstream \/ downstream' = Append(downstream, m)
    BY <1>3 DEF Revoke, client, data
  <2>2. m \in Response /\ downstream \in Seq(Response)
    BY Plain DEF Resp, Response, Good
  <2> HIDE DEF m
  <2>3. ToSet(Append(downstream, m)) = ToSet(downstream) \cup {m}
    BY <2>2, SetAppend
  <2>4. ToSet(downstream) \subseteq ToSet(downstream') /\ ToSet(upstream) \subseteq ToSet(upstream')
    BY <2>1, <2>3
  <2> QED BY <2>1, <2>4, ReadsSame
<1> QED BY <1>1, <1>2, <1>3, ServeReads DEF Environment, Good

LEMMA StepReads == Good /\ ReadInv /\ [Next]_vars => ReadInv'
<1> SUFFICES ASSUME Good, ReadInv, [Next]_vars PROVE ReadInv'
  OBVIOUS
<1>1. CASE UNCHANGED vars
  <2>1. UNCHANGED <<connState, listens, fired, made, upstream, downstream>>
    BY <1>1 DEF vars, client, data, wire
  <2> QED BY <2>1, ReadsSent DEF Good
<1> QED BY <1>1, ClientReads, InboundReads, EnvironmentReads DEF Next

LEMMA InitReads == Init => ReadInv
BY DEF Init, ReadInv, Distinct, ToSet

\* What the invariants say of the requests under way.
LEMMA NothingIsForgotten ==
  ASSUME Good, ReadInv
  PROVE  NothingForgotten
<1>1. /\ made.put \in Nat /\ Len(puts) \in Nat /\ First \in Int /\ puts \in Seq(Nat)
      /\ First + Len(puts) - 1 = made.put
      /\ \A i \in 1 .. Len(puts) : puts[i] = First + i - 1
  BY Plain, PlainSeen DEF Good
<1>2. ASSUME connState = "authenticating"
      PROVE  \E m \in ToSet(upstream) \cup ToSet(downstream) : m.op = "auth"
  <2>1. AuthFirst(upstream) \/ AuthFirst(downstream)
    BY <1>2 DEF Good, AuthInv
  <2> QED BY <2>1 DEF AuthFirst, ToSet
<1>3. ASSUME connState = "connected", NEW id \in ToSet(puts)
      PROVE  OnTheWire(upstream, "put", id) \/ OnTheWire(downstream, "put", id)
  <2>1. PICK d \in 0 .. Len(puts) : Flow(d)
    BY DEF Good, PutInv
  <2>2. /\ PutArgs(downstream) = First .. First + d - 1
        /\ PutArgs(upstream) = First + d .. made.put
    BY <1>3, <2>1 DEF Flow
  <2>3. id \in First .. made.put
    <3>1. PICK i \in 1 .. Len(puts) : id = puts[i]
      BY <1>1, LenProperties DEF ToSet
    <3> QED BY <1>1, <3>1
  <2>4. id \in PutArgs(downstream) \/ id \in PutArgs(upstream)
    BY <1>1, <2>1, <2>2, <2>3
  <2> QED BY <2>4, PutArgsIn DEF OnTheWire, ToSet
<1> QED BY <1>2, <1>3 DEF NothingForgotten, ReadInv, AllAwaited, Awaited

\* Nothing the client waits for is lost on a connection: once it is
\* authenticated, every unanswered put is on the wire, and so is every read
\* without its event or the data or the refusal that ends it.
THEOREM NothingIsLost == Spec => []NothingForgotten
<1>1. Init => Good /\ ReadInv
  BY InitGood, InitReads
<1>2. Good /\ ReadInv /\ [Next]_vars => Good' /\ ReadInv'
  BY StepKept, StepReads
<1>3. Good /\ ReadInv => NothingForgotten
  BY NothingIsForgotten
<1> QED BY <1>1, <1>2, <1>3, PTL DEF Spec

=============================================================================
