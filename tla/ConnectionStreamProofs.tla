----------------------- MODULE ConnectionStreamProofs -----------------------
(***************************************************************************)
(* Proof that Connection keeps the promise of WriteStream: the writes of   *)
(* the client reach the server in order, whatever happens to the           *)
(* connection.                                                             *)
(***************************************************************************)
EXTENDS ConnectionProofs

WSP == INSTANCE WriteStreamProofs WITH
  made  <- made.put,
  queue <- puts,
  done  <- Cardinality(Unanswered)

-----------------------------------------------------------------------------
(***************************************************************************)
(* The invariant.                                                          *)
(***************************************************************************)
Ops(q)     == {q[i].op : i \in DOMAIN q}
PutArgs(q) == {q[i].arg : i \in {j \in DOMAIN q : q[j].op = "put"}}

\* The puts of a queue are in the order in which they were made.
Increasing(q) ==
  \A i, j \in DOMAIN q :
    i < j /\ q[i].op = "put" /\ q[j].op = "put" => q[i].arg < q[j].arg

\* There is one authentication in the queue, and nothing that renews it is ahead.
AuthFirst(q) ==
  \E i \in DOMAIN q :
    /\ q[i].op = "auth"
    /\ \A j \in DOMAIN q : /\ q[j].op = "auth" => i = j
                           /\ j < i => q[j].op # "reauth"

\* The authentication of a connection is answered before any renewal of it, and
\* only while the client waits for it.
AuthInv ==
  /\ connState = "authenticating" =>
       \/ AuthFirst(upstream) /\ "auth" \notin Ops(downstream) /\ "reauth" \notin Ops(downstream)
       \/ AuthFirst(downstream) /\ "auth" \notin Ops(upstream)
  /\ connState # "authenticating" => "auth" \notin Ops(upstream) /\ "auth" \notin Ops(downstream)

\* The oldest unanswered put.
First == made.put - Len(puts) + 1

\* The first d unanswered puts have been applied, the others are on their way,
\* unless the connection is not ready for them.
Flow(d) ==
  /\ PutArgs(downstream) = First .. First + d - 1
  /\ PutArgs(upstream) = IF connState = "connected" THEN First + d .. made.put ELSE {}
  /\ connState # "connected" => d = 0

PutInv ==
  /\ Len(puts) <= made.put
  /\ \A i \in 1 .. Len(puts) : puts[i] = First + i - 1
  /\ Increasing(upstream) /\ Increasing(downstream)
  /\ \E d \in 0 .. Len(puts) : Flow(d)

-----------------------------------------------------------------------------
(***************************************************************************)
(* Queues of messages that grow, shrink and are joined.                    *)
(***************************************************************************)
LEMMA WireEmpty ==
  /\ Ops(<<>>) = {} /\ PutArgs(<<>>) = {} /\ Increasing(<<>>) /\ ~ AuthFirst(<<>>)
BY DEF Ops, PutArgs, Increasing, AuthFirst

LEMMA PutArgsIn ==
  ASSUME NEW q, NEW a
  PROVE  a \in PutArgs(q) <=> \E i \in DOMAIN q : q[i].op = "put" /\ q[i].arg = a
BY DEF PutArgs

\* A queue t follows a queue q.
LEMMA WireConcat ==
  ASSUME NEW S, NEW q \in Seq(S), NEW t \in Seq(S)
  PROVE  /\ Ops(q \o t) = Ops(q) \cup Ops(t)
         /\ PutArgs(q \o t) = PutArgs(q) \cup PutArgs(t)
         /\ Increasing(q) /\ Increasing(t) /\ (\A a \in PutArgs(q), b \in PutArgs(t) : a < b)
            => Increasing(q \o t)
         /\ AuthFirst(q) /\ "auth" \notin Ops(t) => AuthFirst(q \o t)
<1> DEFINE c == q \o t
           n == Len(q)
           m == Len(t)
<1>1. /\ n \in Nat /\ m \in Nat /\ DOMAIN q = 1 .. n /\ DOMAIN t = 1 .. m
      /\ DOMAIN c = 1 .. n + m
      /\ \A i \in 1 .. n : c[i] = q[i]
      /\ \A i \in 1 .. m : c[n + i] = t[i]
  BY SeqConcat
<1> HIDE DEF c, n, m
<1>2. /\ \A i \in 1 .. n : i \in 1 .. n + m
      /\ \A i \in 1 .. m : n + i \in 1 .. n + m
      /\ \A i \in 1 .. n + m : i \notin 1 .. n => i - n \in 1 .. m /\ n + (i - n) = i
  BY <1>1
<1>3. \A i \in 1 .. n + m : i \notin 1 .. n => c[i] = t[i - n]
  BY <1>1, <1>2
<1>4. Ops(c) = Ops(q) \cup Ops(t)
  <2>1. \A i \in 1 .. n + m : c[i].op \in Ops(q) \cup Ops(t)
    BY <1>1, <1>2, <1>3 DEF Ops
  <2>2. \A i \in 1 .. n : q[i].op \in Ops(c)
    BY <1>1, <1>2 DEF Ops
  <2>3. \A i \in 1 .. m : t[i].op \in Ops(c)
    BY <1>1, <1>2 DEF Ops
  <2>4. Ops(c) \subseteq Ops(q) \cup Ops(t)
    BY <1>1, <2>1 DEF Ops
  <2>5. Ops(q) \subseteq Ops(c) /\ Ops(t) \subseteq Ops(c)
    BY <1>1, <2>2, <2>3 DEF Ops
  <2> QED BY <2>4, <2>5
<1>5. PutArgs(c) = PutArgs(q) \cup PutArgs(t)
  <2>1. ASSUME NEW a \in PutArgs(c) PROVE a \in PutArgs(q) \cup PutArgs(t)
    <3>1. PICK i \in 1 .. n + m : c[i].op = "put" /\ c[i].arg = a
      BY <1>1, <2>1, PutArgsIn
    <3>2. CASE i \in 1 .. n
      BY <1>1, <3>1, <3>2, PutArgsIn
    <3>3. CASE i \notin 1 .. n
      BY <1>1, <1>2, <1>3, <3>1, <3>3, PutArgsIn
    <3> QED BY <3>2, <3>3
  <2>2. ASSUME NEW a \in PutArgs(q) PROVE a \in PutArgs(c)
    <3>1. PICK i \in 1 .. n : q[i].op = "put" /\ q[i].arg = a
      BY <1>1, <2>2, PutArgsIn
    <3> QED BY <1>1, <1>2, <3>1, PutArgsIn
  <2>3. ASSUME NEW a \in PutArgs(t) PROVE a \in PutArgs(c)
    <3>1. PICK i \in 1 .. m : t[i].op = "put" /\ t[i].arg = a
      BY <1>1, <2>3, PutArgsIn
    <3> QED BY <1>1, <1>2, <3>1, PutArgsIn
  <2> QED BY <2>1, <2>2, <2>3
<1>6. ASSUME Increasing(q), Increasing(t), \A a \in PutArgs(q), b \in PutArgs(t) : a < b
      PROVE  Increasing(c)
  <2> SUFFICES ASSUME NEW i \in 1 .. n + m, NEW j \in 1 .. n + m, i < j,
                      c[i].op = "put", c[j].op = "put"
               PROVE  c[i].arg < c[j].arg
    BY <1>1 DEF Increasing
  <2>1. CASE j \in 1 .. n
    <3>1. i \in 1 .. n /\ c[i] = q[i] /\ c[j] = q[j]
      BY <1>1, <2>1
    <3> QED BY <1>1, <1>6, <2>1, <3>1 DEF Increasing
  <2>2. CASE i \notin 1 .. n
    <3>1. j \notin 1 .. n
      BY <1>1, <2>2
    <3>2. i - n \in 1 .. m /\ j - n \in 1 .. m
      BY <1>2, <2>2, <3>1
    <3>3. c[i] = t[i - n] /\ c[j] = t[j - n]
      BY <1>3, <2>2, <3>1
    <3>4. i - n < j - n
      BY <1>1
    <3>5. \A k, l \in 1 .. m : k < l /\ t[k].op = "put" /\ t[l].op = "put" => t[k].arg < t[l].arg
      BY <1>1, <1>6 DEF Increasing
    <3>6. t[i - n].op = "put" /\ t[j - n].op = "put"
      BY <3>3
    <3>7. t[i - n].arg < t[j - n].arg
      BY <3>2, <3>4, <3>5, <3>6
    <3> QED BY <3>3, <3>7
  <2>3. CASE i \in 1 .. n /\ j \notin 1 .. n
    <3>1. c[i] = q[i] /\ c[j] = t[j - n] /\ j - n \in 1 .. m
      BY <1>1, <1>2, <1>3, <2>3
    <3>2. c[i].arg \in PutArgs(q) /\ c[j].arg \in PutArgs(t)
      BY <1>1, <2>3, <3>1 DEF PutArgs
    <3> QED BY <1>6, <3>2
  <2> QED BY <2>1, <2>2, <2>3
<1>7. ASSUME AuthFirst(q), "auth" \notin Ops(t)
      PROVE  AuthFirst(c)
  <2>1. PICK i \in 1 .. n : /\ q[i].op = "auth"
                            /\ \A j \in 1 .. n : /\ q[j].op = "auth" => i = j
                                                 /\ j < i => q[j].op # "reauth"
    BY <1>1, <1>7 DEF AuthFirst
  <2>2. \A j \in 1 .. m : t[j].op # "auth"
    BY <1>1, <1>7 DEF Ops
  <2>3. \A j \in 1 .. n + m : /\ c[j].op = "auth" => i = j
                              /\ j < i => c[j].op # "reauth"
    <3> TAKE j \in 1 .. n + m
    <3>1. CASE j \in 1 .. n
      BY <1>1, <2>1, <3>1
    <3>2. CASE j \notin 1 .. n
      BY <1>1, <1>2, <1>3, <2>1, <2>2, <3>2
    <3> QED BY <3>1, <3>2
  <2> QED BY <1>1, <1>2, <2>1, <2>3 DEF AuthFirst
<1> QED BY <1>4, <1>5, <1>6, <1>7 DEF c

\* A queue of one message.
LEMMA WireOne ==
  ASSUME NEW S, NEW x \in S
  PROVE  /\ <<x>> \in Seq(S) /\ Ops(<<x>>) = {x.op}
         /\ PutArgs(<<x>>) = IF x.op = "put" THEN {x.arg} ELSE {}
         /\ Increasing(<<x>>)
         /\ x.op = "auth" => AuthFirst(<<x>>)
<1>1. DOMAIN <<x>> = {1} /\ <<x>>[1] = x /\ <<x>> \in Seq(S)
  OBVIOUS
<1> DEFINE q == <<x>>
<1>2. DOMAIN q = {1} /\ q[1] = x
  BY <1>1
<1> HIDE DEF q
<1>3. Ops(q) = {x.op} /\ PutArgs(q) = IF x.op = "put" THEN {x.arg} ELSE {}
  BY <1>2 DEF Ops, PutArgs
<1>4. Increasing(q) /\ (x.op = "auth" => AuthFirst(q))
  BY <1>2 DEF Increasing, AuthFirst
<1> QED BY <1>1, <1>3, <1>4 DEF q

LEMMA WireAppend ==
  ASSUME NEW S, NEW q \in Seq(S), NEW x \in S
  PROVE  /\ Ops(Append(q, x)) = Ops(q) \cup {x.op}
         /\ PutArgs(Append(q, x)) = PutArgs(q) \cup (IF x.op = "put" THEN {x.arg} ELSE {})
         /\ Increasing(q) /\ (x.op = "put" => \A a \in PutArgs(q) : a < x.arg)
            => Increasing(Append(q, x))
         /\ AuthFirst(q) /\ x.op # "auth" => AuthFirst(Append(q, x))
<1>1. <<x>> \in Seq(S) /\ Append(q, x) = q \o <<x>>
  BY AppendIsConcat
<1>2. /\ Ops(<<x>>) = {x.op} /\ PutArgs(<<x>>) = IF x.op = "put" THEN {x.arg} ELSE {}
      /\ Increasing(<<x>>)
  BY WireOne
<1> DEFINE t == <<x>>
<1>3. /\ Ops(q \o t) = Ops(q) \cup Ops(t)
      /\ PutArgs(q \o t) = PutArgs(q) \cup PutArgs(t)
      /\ Increasing(q) /\ Increasing(t) /\ (\A a \in PutArgs(q), b \in PutArgs(t) : a < b)
         => Increasing(q \o t)
      /\ AuthFirst(q) /\ "auth" \notin Ops(t) => AuthFirst(q \o t)
  BY <1>1, WireConcat
<1> HIDE DEF t
<1>4. Append(q, x) = q \o t
  BY <1>1 DEF t
<1>5. /\ Ops(t) = {x.op} /\ PutArgs(t) = (IF x.op = "put" THEN {x.arg} ELSE {})
      /\ Increasing(t)
  BY <1>2 DEF t
<1> QED BY <1>3, <1>4, <1>5

\* The oldest message leaves a queue.
LEMMA WireTail ==
  ASSUME NEW S, NEW q \in Seq(S), q # <<>>
  PROVE  /\ Ops(q) = Ops(Tail(q)) \cup {Head(q).op}
         /\ PutArgs(q) = PutArgs(Tail(q)) \cup (IF Head(q).op = "put" THEN {Head(q).arg} ELSE {})
         /\ Increasing(q) => /\ Increasing(Tail(q))
                             /\ Head(q).op = "put" =>
                                  \A a \in PutArgs(Tail(q)) : Head(q).arg < a
         /\ AuthFirst(q) => /\ Head(q).op # "reauth"
                            /\ Head(q).op # "auth" => AuthFirst(Tail(q))
                            /\ Head(q).op = "auth" => "auth" \notin Ops(Tail(q))
<1> DEFINE t == Tail(q)
           n == Len(q)
           h == Head(q)
<1>1. /\ n \in Nat /\ n > 0 /\ DOMAIN q = 1 .. n /\ DOMAIN t = 1 .. n - 1 /\ h = q[1]
      /\ \A i \in 1 .. n - 1 : t[i] = q[i + 1]
  BY SeqTail
<1> HIDE DEF t, n, h
<1>2. /\ 1 \in 1 .. n
      /\ \A i \in 1 .. n - 1 : i + 1 \in 1 .. n /\ i + 1 # 1 /\ 1 < i + 1
      /\ \A i \in 1 .. n : i # 1 => i - 1 \in 1 .. n - 1 /\ (i - 1) + 1 = i
  BY <1>1
<1>3. \A i \in 1 .. n : i # 1 => q[i] = t[i - 1]
  BY <1>1, <1>2
<1>4. Ops(q) = Ops(t) \cup {h.op}
  <2>1. \A i \in 1 .. n : q[i].op \in Ops(t) \cup {h.op}
    BY <1>1, <1>2, <1>3 DEF Ops
  <2>2. \A i \in 1 .. n - 1 : t[i].op \in Ops(q)
    BY <1>1, <1>2 DEF Ops
  <2>3. h.op \in Ops(q)
    BY <1>1, <1>2 DEF Ops
  <2> QED BY <1>1, <2>1, <2>2, <2>3 DEF Ops
<1>5. PutArgs(q) = PutArgs(t) \cup (IF h.op = "put" THEN {h.arg} ELSE {})
  <2>1. ASSUME NEW a \in PutArgs(q), a \notin PutArgs(t)
        PROVE  h.op = "put" /\ h.arg = a
    <3>1. PICK i \in 1 .. n : q[i].op = "put" /\ q[i].arg = a
      BY <1>1, <2>1, PutArgsIn
    <3>2. i = 1
      BY <1>1, <1>2, <1>3, <2>1, <3>1, PutArgsIn
    <3> QED BY <1>1, <3>1, <3>2
  <2>2. ASSUME NEW a \in PutArgs(t) PROVE a \in PutArgs(q)
    <3>1. PICK i \in 1 .. n - 1 : t[i].op = "put" /\ t[i].arg = a
      BY <1>1, <2>2, PutArgsIn
    <3> QED BY <1>1, <1>2, <3>1, PutArgsIn
  <2>3. h.op = "put" => h.arg \in PutArgs(q)
    BY <1>1, <1>2, PutArgsIn
  <2> QED BY <2>1, <2>2, <2>3
<1>6. ASSUME Increasing(q)
      PROVE  Increasing(t) /\ (h.op = "put" => \A a \in PutArgs(t) : h.arg < a)
  <2>1. ASSUME NEW i \in 1 .. n - 1, NEW j \in 1 .. n - 1, i < j, t[i].op = "put", t[j].op = "put"
        PROVE  t[i].arg < t[j].arg
    <3>1. /\ i + 1 \in 1 .. n /\ j + 1 \in 1 .. n /\ i + 1 < j + 1
          /\ t[i] = q[i + 1] /\ t[j] = q[j + 1]
      BY <1>1, <1>2, <2>1
    <3> QED BY <1>1, <1>6, <2>1, <3>1 DEF Increasing
  <2>2. ASSUME NEW i \in 1 .. n - 1, t[i].op = "put", h.op = "put"
        PROVE  h.arg < t[i].arg
    <3>1. 1 \in 1 .. n /\ i + 1 \in 1 .. n /\ 1 < i + 1 /\ t[i] = q[i + 1] /\ h = q[1]
      BY <1>1, <1>2
    <3> QED BY <1>1, <1>6, <2>2, <3>1 DEF Increasing
  <2> QED BY <1>1, <2>1, <2>2 DEF Increasing, PutArgs
<1>7. ASSUME AuthFirst(q)
      PROVE  /\ h.op # "reauth" /\ (h.op # "auth" => AuthFirst(t))
             /\ h.op = "auth" => "auth" \notin Ops(t)
  <2>1. PICK i \in 1 .. n : /\ q[i].op = "auth"
                            /\ \A j \in 1 .. n : /\ q[j].op = "auth" => i = j
                                                 /\ j < i => q[j].op # "reauth"
    BY <1>1, <1>7 DEF AuthFirst
  <2>2. CASE i = 1
    <3>1. h.op = "auth"
      BY <1>1, <2>1, <2>2
    <3>2. \A j \in 1 .. n - 1 : t[j].op # "auth"
      BY <1>1, <1>2, <2>1, <2>2
    <3> QED BY <1>1, <3>1, <3>2 DEF Ops
  <2>3. CASE i # 1
    <3>1. h.op # "auth" /\ h.op # "reauth"
      BY <1>1, <1>2, <2>1, <2>3
    <3>2. i - 1 \in 1 .. n - 1 /\ t[i - 1].op = "auth"
      BY <1>1, <1>2, <1>3, <2>1, <2>3
    <3>3. \A j \in 1 .. n - 1 : /\ t[j].op = "auth" => i - 1 = j
                                /\ j < i - 1 => t[j].op # "reauth"
      <4> TAKE j \in 1 .. n - 1
      <4>1. j + 1 \in 1 .. n /\ t[j] = q[j + 1]
        BY <1>1, <1>2
      <4>2. (q[j + 1].op = "auth" => i = j + 1) /\ (j + 1 < i => q[j + 1].op # "reauth")
        BY <2>1, <4>1
      <4> QED BY <1>1, <4>1, <4>2
    <3> QED BY <1>1, <3>1, <3>2, <3>3 DEF AuthFirst
  <2> QED BY <2>2, <2>3
<1> QED BY <1>4, <1>5, <1>6, <1>7 DEF t, h

LEMMA ReqFields == \A op, a : Req(op, a).op = op /\ Req(op, a).arg = a
BY DEF Req

\* What the server answers a request with.
LEMMA AnswersWire ==
  ASSUME store \in Nat, revoked \in Nat, NEW r \in Request, NEW a \in Answers(r)
  PROVE  /\ a \in Seq(Response) /\ Increasing(a)
         /\ PutArgs(a) = IF r.op = "put" THEN {r.arg} ELSE {}
         /\ "auth" \in Ops(a) => r.op = "auth"
         /\ "reauth" \in Ops(a) => r.op = "reauth"
         /\ r.op = "auth" => AuthFirst(a)
<1>1. a \in Seq(Response)
  BY AnswersType
<1>2. \A op, g, ok : Resp(op, g, ok).op = op /\ Resp(op, g, ok).arg = g
  BY DEF Resp
<1>3. \A g : DataPush(g).op = "data"
  BY DEF DataPush
<1>4. CASE r.op \in {"auth", "reauth", "put"}
  <2>1. PICK ok : a = <<Resp(r.op, r.arg, ok)>>
    BY <1>4 DEF Answers
  <2> DEFINE x == Resp(r.op, r.arg, ok)
  <2>2. x.op = r.op /\ x.arg = r.arg /\ a = <<x>> /\ x \in {x}
    BY <1>2, <2>1
  <2> HIDE DEF x
  <2>3. /\ Ops(<<x>>) = {x.op} /\ PutArgs(<<x>>) = IF x.op = "put" THEN {x.arg} ELSE {}
        /\ Increasing(<<x>>) /\ (x.op = "auth" => AuthFirst(<<x>>))
    BY <2>2, WireOne
  <2> QED BY <1>1, <2>2, <2>3
<1>5. CASE r.op = "listen"
  <2>1. \A i \in DOMAIN a : a[i].op \in {"data", "listen"}
    <3>1. CASE a = <<DataPush(r.arg), Resp("listen", r.arg, TRUE)>>
      <4>1. a[1] = DataPush(r.arg) /\ a[2] = Resp("listen", r.arg, TRUE)
        BY <3>1
      <4>2. a[1].op = "data" /\ a[2].op = "listen"
        BY <4>1 DEF DataPush, Resp
      <4>3. DOMAIN a = {1, 2}
        BY <3>1
      <4> QED BY <4>2, <4>3
    <3>2. CASE a = <<Resp("listen", r.arg, FALSE)>>
      <4>1. a[1] = Resp("listen", r.arg, FALSE)
        BY <3>2
      <4>2. a[1].op = "listen"
        BY <4>1 DEF Resp
      <4>3. DOMAIN a = {1}
        BY <3>2
      <4> QED BY <4>2, <4>3
    <3> QED BY <1>5, <3>1, <3>2 DEF Answers
  <2> QED BY <1>1, <1>5, <2>1 DEF Increasing, PutArgs, Ops
<1>6. CASE r.op \in {"unauth", "unlisten"}
  <2>1. a = <<>>
    BY <1>6 DEF Answers
  <2> QED BY <1>1, <1>6, <2>1, WireEmpty
<1>7. r.op \in {"auth", "reauth", "unauth", "put", "listen", "unlisten"}
  BY DEF Request
<1> QED BY <1>4, <1>5, <1>6, <1>7

\* What restoreState sends: the unanswered puts, in order.
LEMMA RestoredWire ==
  ASSUME puts \in Seq(Nat), listens \in Seq(Nat), NEW f \in Int,
         \A i \in 1 .. Len(puts) : puts[i] = f + i - 1
  PROVE  /\ Restored \in Seq(Request) /\ Increasing(Restored)
         /\ "auth" \notin Ops(Restored)
         /\ PutArgs(Restored) = f .. f + Len(puts) - 1
<1> DEFINE l == [i \in DOMAIN listens |-> Req("listen", listens[i])]
           p == [i \in DOMAIN puts |-> Req("put", puts[i])]
<1>1. /\ Len(puts) \in Nat /\ Len(listens) \in Nat
      /\ DOMAIN puts = 1 .. Len(puts) /\ DOMAIN listens = 1 .. Len(listens)
  BY LenProperties
<1>2. \A a \in Nat : Req("listen", a) \in Request /\ Req("put", a) \in Request
  BY DEF Req, Request
<1>3. l \in [1 .. Len(listens) -> Request] /\ p \in [1 .. Len(puts) -> Request]
  BY <1>1, <1>2
<1>4. /\ \A i \in 1 .. Len(listens) : l[i].op = "listen"
      /\ \A i \in 1 .. Len(puts) : p[i].op = "put" /\ p[i].arg = f + i - 1
  BY <1>1, ReqFields
<1> HIDE DEF l, p
<1>5. /\ l \in Seq(Request) /\ DOMAIN l = 1 .. Len(listens)
      /\ p \in Seq(Request) /\ DOMAIN p = 1 .. Len(puts)
  BY <1>1, <1>3, SeqMap
<1>6. Increasing(l) /\ PutArgs(l) = {} /\ "auth" \notin Ops(l)
  BY <1>4, <1>5 DEF Increasing, PutArgs, Ops
<1>7. Increasing(p) /\ "auth" \notin Ops(p)
  <2>1. \A i, j \in 1 .. Len(puts) : i < j => f + i - 1 < f + j - 1
    BY <1>1
  <2>2. Increasing(p)
    BY <1>4, <1>5, <2>1 DEF Increasing
  <2> QED BY <1>4, <1>5, <2>2 DEF Ops
<1>8. PutArgs(p) = f .. f + Len(puts) - 1
  <2>1. ASSUME NEW a \in PutArgs(p) PROVE a \in f .. f + Len(puts) - 1
    <3>1. PICK i \in DOMAIN p : p[i].op = "put" /\ p[i].arg = a
      BY <2>1, PutArgsIn, Zenon
    <3>2. i \in 1 .. Len(puts) /\ a = f + i - 1
      BY <1>4, <1>5, <3>1
    <3> QED BY <1>1, <3>2
  <2>2. ASSUME NEW a \in f .. f + Len(puts) - 1 PROVE a \in PutArgs(p)
    <3>1. PICK i \in 1 .. Len(puts) : f + i - 1 = a
      <4>1. a - f + 1 \in 1 .. Len(puts) /\ f + (a - f + 1) - 1 = a
        BY <1>1
      <4> QED BY <4>1
    <3>2. p[i].op = "put" /\ p[i].arg = f + i - 1
      BY <1>4
    <3>3. p[i].arg = a
      BY <3>1, <3>2
    <3> QED BY <1>5, <3>2, <3>3, PutArgsIn
  <2> QED BY <2>1, <2>2
<1>9. /\ Ops(l \o p) = Ops(l) \cup Ops(p)
      /\ PutArgs(l \o p) = PutArgs(l) \cup PutArgs(p)
      /\ Increasing(l \o p) /\ l \o p \in Seq(Request)
  <2>1. /\ Ops(l \o p) = Ops(l) \cup Ops(p)
        /\ PutArgs(l \o p) = PutArgs(l) \cup PutArgs(p)
        /\ Increasing(l) /\ Increasing(p) /\ (\A a \in PutArgs(l), b \in PutArgs(p) : a < b)
           => Increasing(l \o p)
    BY <1>5, WireConcat
  <2>2. l \o p \in Seq(Request)
    BY <1>5, ConcatProperties
  <2>3. \A a \in PutArgs(l), b \in PutArgs(p) : a < b
    BY <1>6
  <2> QED BY <1>6, <1>7, <2>1, <2>2, <2>3
<1> QED BY <1>6, <1>7, <1>8, <1>9 DEF Restored, l, p

\* Taking out the oldest put.
LEMMA WithoutOldest ==
  ASSUME NEW q \in Seq(Nat), Len(q) > 0, NEW f \in Int,
         \A i \in 1 .. Len(q) : q[i] = f + i - 1
  PROVE  Without(q, f) = Tail(q)
<1>1. Len(q) \in Nat /\ DOMAIN q = 1 .. Len(q) /\ 1 \in 1 .. Len(q)
  BY LenProperties
<1>2. q[1] = f /\ \A i \in 1 .. Len(q) : q[i] = f => i = 1
  BY <1>1
<1>3. f \in ToSet(q)
  BY <1>1, <1>2 DEF ToSet
<1>4. (CHOOSE i \in DOMAIN q : q[i] = f) = 1
  BY <1>1, <1>2
<1>5. Without(q, f) = SubSeq(q, 1, 1 - 1) \o SubSeq(q, 1 + 1, Len(q))
  BY <1>3, <1>4 DEF Without, RemoveAt
<1>6. SubSeq(q, 1, 1 - 1) = <<>> /\ SubSeq(q, 1 + 1, Len(q)) = Tail(q) /\ Tail(q) \in Seq(Nat)
  <2>1. q # <<>>
    BY EmptySeq
  <2>2. /\ Tail(q) \in Seq(Nat) /\ Len(Tail(q)) = Len(q) - 1
        /\ \A i \in 1 .. Len(q) - 1 : Tail(q)[i] = q[i + 1]
    BY <2>1, SeqTail
  <2>3. \A i \in 2 .. Len(q) : q[i] \in Nat
    BY <1>1, ElementOfSeq
  <2>4. /\ SubSeq(q, 2, Len(q)) \in Seq(Nat) /\ Len(SubSeq(q, 2, Len(q))) = Len(q) - 1
        /\ \A i \in 1 .. Len(q) - 1 : SubSeq(q, 2, Len(q))[i] = q[2 + i - 1]
    BY <1>1, <2>3, SubSeqProperties
  <2>5. \A i \in 1 .. Len(q) - 1 : 2 + i - 1 = i + 1
    BY <1>1
  <2>6. SubSeq(q, 2, Len(q)) = Tail(q)
    BY <2>2, <2>4, <2>5, SeqEqual, SMTT(30)
  <2>7. SubSeq(q, 1, 0) = <<>>
    <3>1. SubSeq(q, 1, 0) \in Seq(Nat) /\ Len(SubSeq(q, 1, 0)) = 0
      BY <1>1, SubSeqProperties
    <3> QED BY <3>1, EmptySeq
  <2> QED BY <2>2, <2>6, <2>7
<1>7. <<>> \o Tail(q) = Tail(q)
  BY <1>6, ConcatEmptySeq
<1> QED BY <1>5, <1>6, <1>7

LEMMA IntervalSize ==
  ASSUME NEW f \in Int, NEW d \in Nat
  PROVE  Cardinality(f .. f + d - 1) = d
<1>1. f + d - 1 \in Int
  OBVIOUS
<1>2. Cardinality(f .. f + d - 1) = IF f > f + d - 1 THEN 0 ELSE (f + d - 1) - f + 1
  BY <1>1, FS_Interval
<1> QED BY <1>2

-----------------------------------------------------------------------------
(***************************************************************************)
(* Every step keeps the invariant and is a step of WriteStream, or none.   *)
(***************************************************************************)
Good == Typed /\ StateInv /\ AuthInv /\ PutInv
Kept == AuthInv' /\ PutInv' /\ [Stream!Next]_(Stream!vars)

LEMMA Plain ==
  ASSUME Typed
  PROVE  /\ made.put \in Nat /\ Len(puts) \in Nat /\ puts \in Seq(Nat) /\ listens \in Seq(Nat)
         /\ upstream \in Seq(Request) /\ downstream \in Seq(Response)
         /\ store \in Nat /\ revoked \in Nat /\ First \in Int
<1>1. /\ made \in [{"put", "listen"} -> Nat] /\ puts \in Seq(Nat) /\ listens \in Seq(Nat)
      /\ upstream \in Seq(Request) /\ downstream \in Seq(Response)
      /\ store \in Nat /\ revoked \in Nat
  BY DEF Typed, TypeOK
<1>2. made.put \in Nat /\ Len(puts) \in Nat
  BY <1>1, LenProperties
<1> QED BY <1>1, <1>2 DEF First

LEMMA UnansweredIs == Unanswered = PutArgs(downstream)
BY DEF Unanswered, PutArgs

LEMMA UnansweredNext == Unanswered' = PutArgs(downstream')
BY DEF Unanswered, PutArgs

\* How many puts have been applied, once and after a step.
LEMMA DoneIs ==
  ASSUME Typed, NEW d \in Nat, Flow(d)
  PROVE  Cardinality(Unanswered) = d
BY Plain, UnansweredIs, IntervalSize DEF Flow

LEMMA DoneNext ==
  ASSUME Typed', NEW d \in Nat, Flow(d)'
  PROVE  Cardinality(Unanswered') = d
<1>1. made'.put \in Nat /\ Len(puts') \in Nat
  <2>1. made' \in [{"put", "listen"} -> Nat] /\ puts' \in Seq(Nat)
    BY DEF Typed, TypeOK
  <2> QED BY <2>1, LenProperties
<1>2. First' \in Int
  BY <1>1 DEF First
<1>3. Unanswered' = First' .. First' + d - 1
  BY UnansweredNext DEF Flow
<1> QED BY <1>2, <1>3, IntervalSize

\* Nothing is sent, received, made or applied, and the connection neither
\* becomes ready nor stops being it.
LEMMA Quiet ==
  ASSUME AuthInv, PutInv, UNCHANGED <<upstream, downstream, puts, made.put, store>>,
         \/ connState' = connState
         \/ /\ connState \notin {"authenticating", "connected"}
            /\ connState' \notin {"authenticating", "connected"}
  PROVE  Kept
<1>1. AuthInv'
  BY DEF AuthInv
<1>2. connState' = "connected" <=> connState = "connected"
  OBVIOUS
<1>3. PutInv'
  BY <1>2 DEF PutInv, Flow, First
<1>4. UNCHANGED Stream!vars
  BY DEF Stream!vars, Unanswered
<1> QED BY <1>1, <1>3, <1>4 DEF Kept

\* A queue that has been waiting gets the authentication at its end.
LEMMA AuthBehind ==
  ASSUME NEW S, NEW q \in Seq(S), NEW t \in Seq(S), "auth" \notin Ops(q),
         "reauth" \notin Ops(q), AuthFirst(t)
  PROVE  AuthFirst(q \o t)
<1> DEFINE c == q \o t
           n == Len(q)
           m == Len(t)
<1>1. /\ n \in Nat /\ m \in Nat /\ DOMAIN q = 1 .. n /\ DOMAIN t = 1 .. m
      /\ DOMAIN c = 1 .. n + m
      /\ \A i \in 1 .. n : c[i] = q[i]
      /\ \A i \in 1 .. m : c[n + i] = t[i]
  BY SeqConcat
<1> HIDE DEF c, n, m
<1>2. PICK i \in 1 .. m : /\ t[i].op = "auth"
                          /\ \A j \in 1 .. m : /\ t[j].op = "auth" => i = j
                                               /\ j < i => t[j].op # "reauth"
  BY <1>1 DEF AuthFirst
<1>3. n + i \in 1 .. n + m /\ c[n + i].op = "auth"
  BY <1>1, <1>2
<1>4. \A j \in 1 .. n : q[j].op # "auth" /\ q[j].op # "reauth"
  BY <1>1 DEF Ops
<1>5. ASSUME NEW j \in 1 .. n + m
      PROVE  (c[j].op = "auth" => n + i = j) /\ (j < n + i => c[j].op # "reauth")
  <2>1. CASE j \in 1 .. n
    <3>1. c[j] = q[j]
      BY <1>1, <2>1
    <3> QED BY <1>4, <2>1, <3>1
  <2>2. CASE j \notin 1 .. n
    <3>1. PICK k \in 1 .. m : j = n + k
      <4>1. j - n \in 1 .. m /\ j = n + (j - n)
        BY <1>1, <2>2
      <4> QED BY <4>1
    <3>2. c[j] = t[k]
      BY <1>1, <3>1
    <3>3. (t[k].op = "auth" => i = k) /\ (k < i => t[k].op # "reauth")
      BY <1>2
    <3> QED BY <1>1, <3>1, <3>2, <3>3
  <2> QED BY <2>1, <2>2
<1>6. AuthFirst(c)
  BY <1>1, <1>3, <1>5 DEF AuthFirst
<1> QED BY <1>6 DEF c

\* A connection is lost: what was applied and not answered is forgotten.
LEMMA Lost ==
  ASSUME Typed, PutInv, connState' = "disconnected", upstream' = <<>>, downstream' = <<>>,
         UNCHANGED <<puts, made, store>>
  PROVE  Kept
<1>1. First \in Int /\ Len(puts) \in Nat
  BY Plain
<1>2. AuthInv'
  BY WireEmpty DEF AuthInv
<1>3. Flow(0)'
  <2>1. First' = First /\ First .. First + 0 - 1 = {}
    BY <1>1 DEF First
  <2> QED BY <2>1, WireEmpty DEF Flow
<1>4. PutInv'
  BY <1>1, <1>3, WireEmpty DEF PutInv, First
<1>5. Cardinality(Unanswered') = 0
  BY UnansweredNext, WireEmpty, FS_EmptySet
<1>6. Stream!StartOver
  BY <1>5 DEF Stream!StartOver
<1> QED BY <1>2, <1>4, <1>6 DEF Kept, Stream!Next

\* A request is sent that is neither a put nor the authentication.
LEMMA Sent ==
  ASSUME Typed, AuthInv, PutInv, NEW op \in {"reauth", "unauth", "listen", "unlisten"},
         NEW a \in Nat, upstream' = Append(upstream, Req(op, a)),
         UNCHANGED <<connState, downstream, puts, made.put, store>>
  PROVE  Kept
<1>1. upstream \in Seq(Request) /\ Req(op, a) \in Request /\ Req(op, a).op = op
  BY Plain, ReqType
<1>2. /\ Ops(upstream') = Ops(upstream) \cup {op}
      /\ PutArgs(upstream') = PutArgs(upstream)
      /\ Increasing(upstream) => Increasing(upstream')
      /\ AuthFirst(upstream) => AuthFirst(upstream')
  <2> DEFINE x == Req(op, a)
  <2>1. x \in Request /\ x.op = op /\ x.op # "put" /\ x.op # "auth"
    BY <1>1
  <2> HIDE DEF x
  <2>2. /\ Ops(Append(upstream, x)) = Ops(upstream) \cup {x.op}
        /\ PutArgs(Append(upstream, x)) =
             PutArgs(upstream) \cup (IF x.op = "put" THEN {x.arg} ELSE {})
        /\ Increasing(upstream) /\ (x.op = "put" => \A b \in PutArgs(upstream) : b < x.arg)
           => Increasing(Append(upstream, x))
        /\ AuthFirst(upstream) /\ x.op # "auth" => AuthFirst(Append(upstream, x))
    BY <1>1, <2>1, WireAppend
  <2>3. upstream' = Append(upstream, x)
    BY DEF x
  <2> QED BY <2>1, <2>2, <2>3
<1>3. AuthInv'
  BY <1>2 DEF AuthInv
<1>4. PutInv'
  BY <1>2 DEF PutInv, Flow, First
<1>5. UNCHANGED Stream!vars
  BY DEF Stream!vars, Unanswered
<1> QED BY <1>3, <1>4, <1>5 DEF Kept

\* A message is handled that answers neither a put nor the authentication.
LEMMA Handled ==
  ASSUME Typed, AuthInv, PutInv, downstream # <<>>, Head(downstream).op \notin {"put", "auth"},
         downstream' = Tail(downstream), UNCHANGED <<connState, upstream, puts, made, store>>
  PROVE  Kept
<1>1. downstream \in Seq(Response)
  BY Plain
<1>2. /\ Ops(downstream) = Ops(downstream') \cup {Head(downstream).op}
      /\ PutArgs(downstream) = PutArgs(downstream')
      /\ Increasing(downstream) => Increasing(downstream')
      /\ AuthFirst(downstream) => AuthFirst(downstream')
  <2> DEFINE h == Head(downstream)
             t == Tail(downstream)
  <2>1. /\ Ops(downstream) = Ops(t) \cup {h.op}
        /\ PutArgs(downstream) = PutArgs(t) \cup (IF h.op = "put" THEN {h.arg} ELSE {})
        /\ Increasing(downstream) => Increasing(t)
        /\ AuthFirst(downstream) => (h.op # "auth" => AuthFirst(t))
    BY <1>1, WireTail
  <2>2. downstream' = t /\ h.op # "put" /\ h.op # "auth"
    OBVIOUS
  <2> HIDE DEF h, t
  <2>3. Ops(downstream) = Ops(downstream') \cup {h.op}
    BY <2>1, <2>2
  <2> QED BY <2>1, <2>2, <2>3 DEF h
<1>3. AuthInv'
  BY <1>2 DEF AuthInv
<1>4. PutInv'
  BY <1>2 DEF PutInv, Flow, First
<1>5. Unanswered' = Unanswered
  BY <1>2, UnansweredIs, UnansweredNext
<1>6. UNCHANGED Stream!vars
  BY <1>5 DEF Stream!vars
<1> QED BY <1>3, <1>4, <1>6 DEF Kept

\* restoreState on a connection that has carried no put.
LEMMA RestoredAgain ==
  ASSUME Typed, PutInv, RestoreState, connState # "connected", "auth" \notin Ops(upstream),
         "auth" \notin Ops(downstream'), Increasing(downstream'),
         PutArgs(downstream') = PutArgs(downstream), UNCHANGED <<puts, made, store>>
  PROVE  Kept
<1>1. /\ made.put \in Nat /\ Len(puts) \in Nat /\ puts \in Seq(Nat) /\ listens \in Seq(Nat)
      /\ upstream \in Seq(Request) /\ First \in Int
  BY Plain
<1>2. \A i \in 1 .. Len(puts) : puts[i] = First + i - 1
  BY DEF PutInv
<1>3. /\ Restored \in Seq(Request) /\ Increasing(Restored) /\ "auth" \notin Ops(Restored)
      /\ PutArgs(Restored) = First .. First + Len(puts) - 1
  BY <1>1, <1>2, RestoredWire
<1>4. Flow(0)
  BY DEF PutInv, Flow
<1>5. PutArgs(upstream) = {}
  BY <1>4 DEF Flow
<1>6. upstream' = upstream \o Restored /\ connState' = "connected"
  BY DEF RestoreState
<1>7. /\ Ops(upstream') = Ops(upstream) \cup Ops(Restored)
      /\ PutArgs(upstream') = PutArgs(Restored)
      /\ Increasing(upstream')
  <2>1. /\ Ops(upstream \o Restored) = Ops(upstream) \cup Ops(Restored)
        /\ PutArgs(upstream \o Restored) = PutArgs(upstream) \cup PutArgs(Restored)
        /\ Increasing(upstream) /\ Increasing(Restored)
           /\ (\A a \in PutArgs(upstream), b \in PutArgs(Restored) : a < b)
           => Increasing(upstream \o Restored)
    <3>1. upstream \in Seq(Request) /\ Restored \in Seq(Request)
      BY <1>1, <1>3
    <3> QED BY <3>1, WireConcat
  <2>2. Increasing(upstream)
    BY DEF PutInv
  <2> QED BY <1>3, <1>5, <1>6, <2>1, <2>2
<1>8. AuthInv'
  BY <1>3, <1>6, <1>7 DEF AuthInv
<1>9. First + Len(puts) - 1 = made.put /\ First' = First
  BY <1>1 DEF First
<1>10. Flow(0)'
  BY <1>1, <1>3, <1>4, <1>6, <1>7, <1>9 DEF Flow
<1>11. PutInv'
  BY <1>1, <1>7, <1>9, <1>10 DEF PutInv
<1>12. UNCHANGED Stream!vars
  BY UnansweredIs, UnansweredNext DEF Stream!vars
<1> QED BY <1>8, <1>11, <1>12 DEF Kept

\* A write is made, and sent if the connection is ready.
LEMMA PutKept ==
  ASSUME Good, Put
  PROVE  Kept
<1> DEFINE n == Len(puts)
           id == made.put + 1
<1>1. /\ made.put \in Nat /\ n \in Nat /\ puts \in Seq(Nat)
      /\ upstream \in Seq(Request) /\ First \in Int
  BY Plain DEF Good
<1>2. /\ made' = [made EXCEPT !.put = id] /\ puts' = Append(puts, id)
      /\ upstream' = IF CanSendWrites THEN Append(upstream, Req("put", id)) ELSE upstream
      /\ UNCHANGED <<connState, downstream, store>>
  BY DEF Put, client, outside
<1>3. made'.put = id /\ id \in Nat
  <2>1. made \in [{"put", "listen"} -> Nat]
    BY DEF Good, Typed, TypeOK
  <2> QED BY <1>1, <1>2, <2>1
<1>4. /\ Len(puts') = n + 1 /\ puts'[n + 1] = id /\ \A i \in 1 .. n : puts'[i] = puts[i]
  BY <1>1, <1>2, <1>3, SeqAppend
<1>5. First' = First /\ First + n = id
  <2>1. First' = id - (n + 1) + 1 /\ First = made.put - n + 1
    BY <1>3, <1>4 DEF First
  <2> QED BY <1>1, <2>1
<1>6. PICK d \in 0 .. n : Flow(d)
  BY DEF Good, PutInv
<1>7. Req("put", id) \in Request /\ Req("put", id).op = "put" /\ Req("put", id).arg = id
  BY <1>3, ReqType, ReqFields
<1>8. /\ Increasing(upstream')
      /\ PutArgs(upstream') = IF connState = "connected" THEN First + d .. id ELSE {}
  <2>1. CASE connState = "connected"
    <3>1. PutArgs(upstream) = First + d .. made.put
      BY <1>6, <2>1 DEF Flow
    <3>2. \A a \in PutArgs(upstream) : a < id
      BY <1>1, <3>1
    <3>3. /\ PutArgs(Append(upstream, Req("put", id))) = PutArgs(upstream) \cup {id}
          /\ Increasing(Append(upstream, Req("put", id)))
      BY <1>1, <1>7, <3>2, WireAppend DEF Good, PutInv
    <3>4. (First + d .. made.put) \cup {id} = First + d .. id
      BY <1>1, <1>5
    <3> QED BY <1>2, <2>1, <3>1, <3>3, <3>4 DEF CanSendWrites
  <2>2. CASE connState # "connected"
    BY <1>2, <1>6, <2>2 DEF CanSendWrites, Flow, Good, PutInv
  <2> QED BY <2>1, <2>2
<1>9. Flow(d)'
  BY <1>2, <1>3, <1>5, <1>6, <1>8 DEF Flow
<1>10. Len(puts') <= made'.put /\ \A i \in 1 .. Len(puts') : puts'[i] = First' + i - 1
  <2>1. n <= made.put /\ \A i \in 1 .. n : puts[i] = First + i - 1
    BY DEF Good, PutInv
  <2>2. ASSUME NEW i \in 1 .. n + 1 PROVE puts'[i] = First + i - 1
    <3>1. CASE i \in 1 .. n
      BY <1>4, <2>1, <3>1
    <3>2. CASE i = n + 1
      BY <1>1, <1>4, <1>5, <3>2
    <3> QED BY <1>1, <3>1, <3>2
  <2>3. n + 1 <= id
    BY <1>1, <2>1
  <2> QED BY <1>3, <1>4, <1>5, <2>2, <2>3
<1>11. Increasing(downstream')
  BY <1>2 DEF Good, PutInv
<1>12. PutInv'
  BY <1>1, <1>4, <1>6, <1>8, <1>9, <1>10, <1>11 DEF PutInv
<1>13. AuthInv'
  <2>1. CASE connState = "connected"
    <3>1. Ops(Append(upstream, Req("put", id))) = Ops(upstream) \cup {"put"}
      BY <1>1, <1>7, WireAppend
    <3> QED BY <1>2, <2>1, <3>1 DEF Good, AuthInv, CanSendWrites
  <2>2. CASE connState # "connected"
    BY <1>2, <2>2 DEF Good, AuthInv, CanSendWrites
  <2> QED BY <2>1, <2>2
<1>14. Stream!Make
  BY <1>2, <1>3 DEF Stream!Make, Unanswered
<1> QED BY <1>12, <1>13, <1>14 DEF Kept, Stream!Next

\* The server handles a request; a put is the oldest it has not applied.
LEMMA ServeKept ==
  ASSUME Good, Serve
  PROVE  Kept
<1> DEFINE h == Head(upstream)
           n == Len(puts)
<1>1. /\ made.put \in Nat /\ n \in Nat /\ upstream \in Seq(Request) /\ downstream \in Seq(Response)
      /\ store \in Nat /\ revoked \in Nat /\ First \in Int
  BY Plain DEF Good
<1>2. /\ upstream # <<>> /\ upstream' = Tail(upstream)
      /\ store' = IF h.op = "put" THEN h.arg ELSE store
      /\ UNCHANGED <<connState, puts, made>>
  BY DEF Serve, client, data
<1>3. h \in Request
  BY <1>1, <1>2, SeqTail
<1>4. PICK a \in Answers(h) : downstream' = downstream \o a
  BY DEF Serve
<1>5. /\ a \in Seq(Response) /\ Increasing(a)
      /\ PutArgs(a) = IF h.op = "put" THEN {h.arg} ELSE {}
      /\ "auth" \in Ops(a) => h.op = "auth"
      /\ "reauth" \in Ops(a) => h.op = "reauth"
      /\ h.op = "auth" => AuthFirst(a)
  BY <1>1, <1>3, AnswersWire
<1>6. /\ Ops(upstream) = Ops(upstream') \cup {h.op}
      /\ PutArgs(upstream) = PutArgs(upstream') \cup (IF h.op = "put" THEN {h.arg} ELSE {})
      /\ Increasing(upstream) => /\ Increasing(upstream')
                                 /\ h.op = "put" => \A b \in PutArgs(upstream') : h.arg < b
      /\ AuthFirst(upstream) => /\ h.op # "reauth"
                                /\ h.op # "auth" => AuthFirst(upstream')
                                /\ h.op = "auth" => "auth" \notin Ops(upstream')
  BY <1>1, <1>2, WireTail
<1>7. /\ Ops(downstream') = Ops(downstream) \cup Ops(a)
      /\ PutArgs(downstream') = PutArgs(downstream) \cup PutArgs(a)
      /\ (\A b \in PutArgs(downstream), c \in PutArgs(a) : b < c) => Increasing(downstream')
      /\ AuthFirst(downstream) /\ "auth" \notin Ops(a) => AuthFirst(downstream')
  <2>1. Increasing(downstream)
    BY DEF Good, PutInv
  <2>2. /\ Ops(downstream \o a) = Ops(downstream) \cup Ops(a)
        /\ PutArgs(downstream \o a) = PutArgs(downstream) \cup PutArgs(a)
        /\ Increasing(downstream) /\ Increasing(a)
           /\ (\A b \in PutArgs(downstream), c \in PutArgs(a) : b < c)
           => Increasing(downstream \o a)
        /\ AuthFirst(downstream) /\ "auth" \notin Ops(a) => AuthFirst(downstream \o a)
    <3>1. downstream \in Seq(Response) /\ a \in Seq(Response)
      BY <1>1, <1>5
    <3> QED BY <3>1, WireConcat
  <2> QED BY <1>4, <1>5, <2>1, <2>2
<1>8. "auth" \notin Ops(downstream) /\ "reauth" \notin Ops(downstream) /\ AuthFirst(a)
        => AuthFirst(downstream')
  BY <1>1, <1>4, <1>5, AuthBehind
<1>9. AuthInv'
  <2>1. CASE connState # "authenticating"
    BY <1>2, <1>5, <1>6, <1>7, <2>1 DEF Good, AuthInv
  <2>2. CASE connState = "authenticating" /\ AuthFirst(downstream) /\ "auth" \notin Ops(upstream)
    BY <1>2, <1>5, <1>6, <1>7, <2>2 DEF AuthInv
  <2>3. CASE /\ connState = "authenticating" /\ AuthFirst(upstream)
             /\ "auth" \notin Ops(downstream) /\ "reauth" \notin Ops(downstream)
    BY <1>2, <1>5, <1>6, <1>7, <1>8, <2>3 DEF AuthInv
  <2> QED BY <2>1, <2>2, <2>3 DEF Good, AuthInv
<1>10. PICK d \in 0 .. n : Flow(d)
  BY DEF Good, PutInv
<1>11. Cardinality(Unanswered) = d /\ d \in Nat /\ First' = First
  BY <1>1, <1>2, <1>10, DoneIs DEF Good, First
<1>12. Increasing(upstream) /\ Increasing(downstream) /\ n <= made.put
       /\ \A i \in 1 .. n : puts[i] = First + i - 1
  BY DEF Good, PutInv
<1> HIDE DEF h, n
<1>13. CASE h.op # "put"
  <2>1. Flow(d)' /\ Increasing(upstream') /\ Increasing(downstream')
    BY <1>2, <1>5, <1>6, <1>7, <1>10, <1>11, <1>12, <1>13 DEF Flow
  <2>2. PutInv'
    BY <1>2, <1>10, <1>11, <1>12, <2>1 DEF PutInv, n
  <2>3. PutArgs(downstream') = PutArgs(downstream)
    BY <1>5, <1>7, <1>13
  <2>4. UNCHANGED Stream!vars
    BY <1>2, <1>13, <2>3, UnansweredIs, UnansweredNext DEF Stream!vars
  <2> QED BY <1>9, <2>2, <2>4 DEF Kept
<1>14. CASE h.op = "put"
  <2>1. connState = "connected" /\ PutArgs(upstream) = First + d .. made.put
    BY <1>6, <1>10, <1>14 DEF Flow
  <2>2. h.arg \in First + d .. made.put /\ First + d \in PutArgs(upstream)
    BY <1>1, <1>6, <1>11, <1>14, <2>1
  <2>3. h.arg = First + d
    BY <1>1, <1>6, <1>11, <1>12, <1>14, <2>2
  <2>4. d < n /\ d + 1 \in 0 .. n /\ d + 1 \in 1 .. n
    BY <1>1, <1>11, <2>2, <2>3, SMTT(30) DEF First, n
  <2>5. PutArgs(upstream') = First + (d + 1) .. made.put
    <3>1. ASSUME NEW x \in PutArgs(upstream') PROVE x \in First + (d + 1) .. made.put
      BY <1>1, <1>6, <1>11, <1>12, <1>14, <2>1, <2>3
    <3>2. ASSUME NEW x \in First + (d + 1) .. made.put PROVE x \in PutArgs(upstream')
      BY <1>1, <1>6, <1>11, <1>14, <2>1, <2>3
    <3> QED BY <3>1, <3>2
  <2>6. PutArgs(downstream') = First .. First + (d + 1) - 1
    <3>1. PutArgs(downstream') = (First .. First + d - 1) \cup {First + d}
      BY <1>5, <1>7, <1>10, <1>14, <2>3 DEF Flow
    <3> QED BY <1>1, <1>11, <3>1
  <2>7. Increasing(upstream') /\ Increasing(downstream')
    <3>1. \A b \in PutArgs(downstream), c \in PutArgs(a) : b < c
      BY <1>1, <1>5, <1>10, <1>11, <1>14, <2>3 DEF Flow
    <3> QED BY <1>6, <1>7, <1>12, <3>1
  <2>8. Flow(d + 1)'
    BY <1>2, <1>11, <2>1, <2>5, <2>6 DEF Flow
  <2>9. PutInv'
    BY <1>2, <1>11, <1>12, <2>4, <2>7, <2>8 DEF PutInv, n
  <2>10. Typed'
    BY ServeTyped DEF Good
  <2>11. Cardinality(Unanswered') = d + 1
    BY <1>11, <2>8, <2>10, DoneNext
  <2>12. store' = puts[d + 1]
    BY <1>1, <1>2, <1>11, <1>12, <1>14, <2>3, <2>4
  <2>13. Stream!Apply
    BY <1>2, <1>11, <2>4, <2>11, <2>12 DEF Stream!Apply, n
  <2> QED BY <1>9, <2>9, <2>13 DEF Kept, Stream!Next
<1> QED BY <1>13, <1>14

\* An answer to a put is an answer to the oldest one.
LEMMA PutReplyKept ==
  ASSUME Good, PutReply
  PROVE  Kept
<1> DEFINE h == Head(downstream)
           n == Len(puts)
<1>1. /\ made.put \in Nat /\ n \in Nat /\ puts \in Seq(Nat) /\ downstream \in Seq(Response)
      /\ First \in Int
  BY Plain DEF Good
<1>2. /\ downstream # <<>> /\ h.op = "put" /\ downstream' = Tail(downstream)
      /\ puts' = Without(puts, h.arg)
      /\ UNCHANGED <<connState, upstream, made, store>>
  BY DEF PutReply, Receive, client, outside
<1>3. /\ Ops(downstream) = Ops(downstream') \cup {h.op}
      /\ PutArgs(downstream) = PutArgs(downstream') \cup {h.arg}
      /\ Increasing(downstream) => /\ Increasing(downstream')
                                   /\ \A b \in PutArgs(downstream') : h.arg < b
      /\ AuthFirst(downstream) => AuthFirst(downstream')
  BY <1>1, <1>2, WireTail
<1>4. AuthInv'
  BY <1>2, <1>3 DEF Good, AuthInv
<1>5. PICK d \in 0 .. n : Flow(d)
  BY DEF Good, PutInv
<1>6. Increasing(upstream) /\ Increasing(downstream) /\ n <= made.put
      /\ \A i \in 1 .. n : puts[i] = First + i - 1
  BY DEF Good, PutInv
<1>7. Cardinality(Unanswered) = d /\ d \in Nat /\ PutArgs(downstream) = First .. First + d - 1
  BY <1>1, <1>5, DoneIs DEF Good, Flow
<1>8. Typed'
  BY PutReplyTyped DEF Good
<1> HIDE DEF h, n
<1>9. d > 0 /\ n > 0 /\ h.arg = First
  <2>1. h.arg \in First .. First + d - 1
    BY <1>3, <1>7
  <2>2. d > 0 /\ n > 0 /\ First \in First .. First + d - 1
    BY <1>1, <1>5, <1>7, <2>1
  <2>3. First \in PutArgs(downstream)
    BY <1>7, <2>2
  <2> QED BY <1>1, <1>3, <1>6, <2>1, <2>2, <2>3
<1>10. puts' = Tail(puts)
  BY <1>1, <1>2, <1>6, <1>9, WithoutOldest DEF n
<1>11. Len(puts') = n - 1 /\ \A i \in 1 .. n - 1 : puts'[i] = puts[i + 1]
  <2>1. puts # <<>>
    BY <1>1, <1>9, EmptySeq DEF n
  <2> QED BY <1>1, <1>10, <2>1, SeqTail DEF n
<1>12. First' = First + 1
  BY <1>1, <1>2, <1>11 DEF First, n
<1>13. PutArgs(downstream') = First' .. First' + (d - 1) - 1
  <2>1. ASSUME NEW x \in PutArgs(downstream') PROVE x \in First + 1 .. First + d - 1
    BY <1>1, <1>3, <1>6, <1>7, <1>9
  <2>2. ASSUME NEW x \in First + 1 .. First + d - 1 PROVE x \in PutArgs(downstream')
    BY <1>1, <1>3, <1>7, <1>9, SMTT(30)
  <2>3. First' + (d - 1) - 1 = First + d - 1
    BY <1>1, <1>7, <1>12
  <2> QED BY <1>12, <2>1, <2>2, <2>3
<1>14. Flow(d - 1)'
  <2>1. connState = "connected"
    BY <1>5, <1>9 DEF Flow
  <2>2. PutArgs(upstream) = First + d .. made.put /\ First + d = First' + (d - 1)
    BY <1>1, <1>5, <1>7, <1>12, <2>1 DEF Flow
  <2> QED BY <1>2, <1>13, <2>1, <2>2 DEF Flow
<1>15. PutInv'
  <2>1. d - 1 \in 0 .. n - 1 /\ n - 1 <= made.put
    BY <1>1, <1>5, <1>6, <1>9
  <2>2. ASSUME NEW i \in 1 .. n - 1 PROVE puts'[i] = First' + i - 1
    <3>1. i + 1 \in 1 .. n
      BY <1>1
    <3>2. puts'[i] = First + (i + 1) - 1
      BY <1>6, <1>11, <3>1
    <3> QED BY <1>1, <1>12, <3>2
  <2>3. Increasing(upstream') /\ Increasing(downstream')
    BY <1>2, <1>3, <1>6
  <2> QED BY <1>2, <1>11, <1>14, <2>1, <2>2, <2>3 DEF PutInv
<1>16. Cardinality(Unanswered') = d - 1
  <2>1. d - 1 \in Nat
    BY <1>7, <1>9
  <2> QED BY <1>8, <1>14, <2>1, DoneNext
<1>17. Stream!Answer
  BY <1>2, <1>7, <1>9, <1>10, <1>16 DEF Stream!Answer
<1> QED BY <1>4, <1>15, <1>17 DEF Kept, Stream!Next

\* The connection is established or authenticated, or the token is refused.
LEMMA HandshakeKept ==
  ASSUME Good, Handshake
  PROVE  Kept
<1>1. /\ upstream = <<>> /\ downstream = <<>> /\ connState = "connecting"
      /\ downstream' = <<>> /\ UNCHANGED <<puts, made, store>>
  BY DEF Handshake, outside, Good, StateInv, StateMatches, WireMatches
<1>2. CASE authToken = 0
  BY <1>1, <1>2, RestoredAgain, WireEmpty DEF Handshake, Good
<1>3. CASE authToken # 0
  <2>1. connState' = "authenticating" /\ upstream' = Append(upstream, Req("auth", authToken))
    BY <1>3 DEF Handshake
  <2> DEFINE x == Req("auth", authToken)
  <2>2. x \in Request /\ x.op = "auth"
    BY ReqType DEF Good, Typed, TypeOK
  <2>3. upstream' = <<x>>
    BY <1>1, <2>1
  <2> HIDE DEF x
  <2>4. AuthFirst(<<x>>) /\ PutArgs(<<x>>) = {} /\ Increasing(<<x>>)
    BY <2>2, WireOne
  <2>5. AuthInv'
    BY <1>1, <2>1, <2>3, <2>4, WireEmpty DEF AuthInv
  <2>6. PICK d \in 0 .. Len(puts) : Flow(d)
    BY DEF Good, PutInv
  <2>7. Flow(d)'
    BY <1>1, <2>1, <2>3, <2>4, <2>6 DEF Flow, First
  <2>8. PutInv'
    BY <1>1, <2>3, <2>4, <2>6, <2>7, WireEmpty DEF PutInv, Good, First
  <2>9. UNCHANGED Stream!vars
    BY <1>1 DEF Stream!vars, Unanswered
  <2> QED BY <2>5, <2>8, <2>9 DEF Kept
<1> QED BY <1>2, <1>3

LEMMA RefusedKept ==
  ASSUME Good, NEW t, TokenRefused(t), UNCHANGED <<puts, made, outside>>
  PROVE  Kept
BY Lost DEF TokenRefused, Disconnect, outside, Good

LEMMA AuthReplyKept ==
  ASSUME Good, AuthReply
  PROVE  Kept
<1>1. /\ downstream # <<>> /\ Head(downstream).op \in {"auth", "reauth"}
      /\ UNCHANGED <<puts, made, outside>>
  BY DEF AuthReply, Receive
<1>2. CASE ~ Head(downstream).ok
  BY <1>1, <1>2, RefusedKept DEF AuthReply
<1>3. CASE Head(downstream).ok
  <2> DEFINE h == Head(downstream)
  <2>1. downstream \in Seq(Response) /\ downstream' = Tail(downstream)
    BY <1>3, Plain DEF AuthReply, Good
  <2>2. /\ Ops(downstream) = Ops(downstream') \cup {h.op}
        /\ PutArgs(downstream) = PutArgs(downstream') \cup (IF h.op = "put" THEN {h.arg} ELSE {})
        /\ Increasing(downstream) => Increasing(downstream')
        /\ AuthFirst(downstream) => /\ h.op # "reauth"
                                    /\ h.op = "auth" => "auth" \notin Ops(downstream')
    BY <1>1, <2>1, WireTail
  <2>3. CASE h.op = "auth"
    <3>1. /\ connState = "authenticating" /\ "auth" \notin Ops(upstream)
          /\ "auth" \notin Ops(downstream')
      BY <2>2, <2>3 DEF Good, AuthInv
    <3>2. Increasing(downstream') /\ PutArgs(downstream') = PutArgs(downstream)
      BY <2>2, <2>3 DEF Good, PutInv
    <3>3. RestoreState
      BY <1>3, <2>3 DEF AuthReply
    <3>4. UNCHANGED <<puts, made, store>>
      BY <1>1 DEF outside
    <3> QED BY <3>1, <3>2, <3>3, <3>4, RestoredAgain DEF Good
  <2>4. CASE h.op # "auth"
    <3>1. h.op = "reauth"
      BY <1>1, <2>4
    <3>2. connState # "authenticating"
      BY <2>2, <3>1 DEF Good, AuthInv
    <3>3. connState = "connected"
      BY <1>1, <3>2 DEF Good, StateInv, StateMatches, WireMatches, Typed, TypeOK, State
    <3>4. connState' = connState /\ upstream' = upstream
      BY <1>3, <2>4, <3>3 DEF AuthReply
    <3>5. h.op \notin {"put", "auth"} /\ UNCHANGED <<puts, made, store>>
      BY <1>1, <3>1 DEF outside
    <3> QED BY <1>1, <2>1, <3>4, <3>5, Handled DEF Good
  <2> QED BY <2>3, <2>4
<1> QED BY <1>2, <1>3

LEMMA RevokeKept ==
  ASSUME Good, Revoke
  PROVE  Kept
<1> DEFINE m == Resp("revoked", 0, TRUE)
<1>1. UNCHANGED <<connState, upstream, puts, made, store>>
  BY DEF Revoke, client, data
<1>2. CASE downstream' = downstream
  BY <1>1, <1>2, Quiet DEF Good
<1>3. CASE downstream' = Append(downstream, m)
  <2>1. m \in Response /\ m.op = "revoked" /\ downstream \in Seq(Response)
    BY Plain DEF Resp, Response, Good
  <2> HIDE DEF m
  <2>2. /\ Ops(Append(downstream, m)) = Ops(downstream) \cup {m.op}
        /\ PutArgs(Append(downstream, m)) =
             PutArgs(downstream) \cup (IF m.op = "put" THEN {m.arg} ELSE {})
        /\ Increasing(downstream) /\ (m.op = "put" => \A b \in PutArgs(downstream) : b < m.arg)
           => Increasing(Append(downstream, m))
        /\ AuthFirst(downstream) /\ m.op # "auth" => AuthFirst(Append(downstream, m))
    BY <2>1, WireAppend
  <2>3. /\ Ops(downstream') = Ops(downstream) \cup {"revoked"}
        /\ PutArgs(downstream') = PutArgs(downstream)
        /\ Increasing(downstream) => Increasing(downstream')
        /\ AuthFirst(downstream) => AuthFirst(downstream')
    BY <1>3, <2>1, <2>2
  <2>4. AuthInv'
    BY <1>1, <2>3 DEF Good, AuthInv
  <2>5. PutInv'
    BY <1>1, <2>3 DEF Good, PutInv, Flow, First
  <2>6. UNCHANGED Stream!vars
    BY <1>1, <2>3, UnansweredIs, UnansweredNext DEF Stream!vars
  <2> QED BY <2>4, <2>5, <2>6 DEF Kept
<1> QED BY <1>2, <1>3 DEF Revoke

\* Interrupting the connection closes it, or only changes its state.
LEMMA InterruptKept ==
  ASSUME Good, NEW r, Interrupt(r), UNCHANGED <<puts, made, store>>
  PROVE  Kept
<1>1. CASE link # "none"
  BY <1>1, Lost DEF Interrupt, Disconnect, Good
<1>2. CASE link = "none"
  <2>1. connState \in {"disconnected", "gettingToken"}
    BY <1>2 DEF Good, StateInv, StateMatches
  <2>2. connState' = "disconnected" /\ UNCHANGED <<upstream, downstream>>
    BY <1>2 DEF Interrupt, wire
  <2> QED BY <2>1, <2>2, Quiet DEF Good
<1> QED BY <1>1, <1>2

LEMMA ClientKept ==
  ASSUME Good, Client
  PROVE  Kept
<1>1. CASE Open \/ GoOnline \/ Nudge
  <2>1. UNCHANGED <<connState, upstream, downstream, puts, made, store>>
    BY <1>1 DEF Open, GoOnline, Nudge, data, wire, outside
  <2> QED BY <2>1, Quiet DEF Good
<1>2. CASE GoOffline
  BY <1>2, InterruptKept DEF GoOffline, outside
<1>3. CASE RetryFires
  <2>1. connState = "disconnected"
    BY <1>3 DEF RetryFires, Good, StateInv, StateMatches
  <2>2. connState' = "gettingToken" /\ UNCHANGED <<upstream, downstream, puts, made, store>>
    BY <1>3 DEF RetryFires, data, wire, outside
  <2> QED BY <2>1, <2>2, Quiet DEF Good
<1>4. CASE TokenFetched
  <2>1. UNCHANGED <<upstream, downstream, puts, made, store>>
    BY <1>4 DEF TokenFetched, data, wire, outside
  <2>2. connState' = connState \/ (connState = "gettingToken" /\ connState' = "connecting")
    BY <1>4 DEF TokenFetched, OpenNetworkConnection
  <2> QED BY <2>1, <2>2, Quiet DEF Good
<1>5. CASE TokenFailed
  <2>1. UNCHANGED <<upstream, downstream, puts, made, store>>
    BY <1>5 DEF TokenFailed, data, wire, outside
  <2>2. Head(mail).current => connState \in {"disconnected", "gettingToken"}
    <3>1. ASSUME Head(mail).current PROVE AnyCurrent(mail)
      <4>1. mail # <<>> /\ mail \in Seq(Mail)
        BY <1>5 DEF TokenFailed, Good, Typed, TypeOK
      <4> QED BY <3>1, <4>1, CurrentTail
    <3> QED BY <3>1, InvMatched DEF Good, Matched
  <2>3. connState' = connState \/ (Head(mail).current /\ connState' = "disconnected")
    BY <1>5 DEF TokenFailed
  <2> QED BY <2>1, <2>2, <2>3, Quiet DEF Good
<1>6. CASE TokenChanged
  <2>1. UNCHANGED <<connState, downstream, puts, made, store>>
    BY <1>6 DEF TokenChanged, data, outside
  <2>2. authToken' \in Nat
    BY <1>6, TokenChangedTyped DEF Good, Typed, TypeOK
  <2>3. CASE upstream' = upstream
    BY <2>1, <2>3, Quiet DEF Good
  <2>4. CASE upstream' = Append(upstream, Req("reauth", authToken'))
    BY <2>1, <2>2, <2>4, Sent DEF Good
  <2>5. CASE upstream' = Append(upstream, Req("unauth", 0))
    BY <2>1, <2>5, Sent DEF Good
  <2> QED BY <1>6, <2>3, <2>4, <2>5 DEF TokenChanged
<1>7. CASE Put
  BY <1>7, PutKept
<1>8. CASE Listen
  <2>1. UNCHANGED <<connState, downstream, puts, store>> /\ made'.put = made.put
    BY <1>8 DEF Listen, client, outside, Good, Typed, TypeOK
  <2>2. made.listen + 1 \in Nat
    BY DEF Good, Typed, TypeOK
  <2>3. CASE upstream' = upstream
    BY <2>1, <2>3, Quiet DEF Good
  <2>4. CASE upstream' = Append(upstream, Req("listen", made.listen + 1))
    BY <2>1, <2>2, <2>4, Sent DEF Good
  <2> QED BY <1>8, <2>3, <2>4 DEF Listen
<1>9. CASE \E id \in fired : Unlisten(id)
  <2>1. PICK id \in fired : Unlisten(id)
    BY <1>9
  <2>2. UNCHANGED <<connState, downstream, puts, made, store>> /\ id \in Nat
    BY <2>1 DEF Unlisten, client, outside, Good, Typed, TypeOK
  <2>3. CASE upstream' = upstream
    BY <2>2, <2>3, Quiet DEF Good
  <2>4. CASE upstream' = Append(upstream, Req("unlisten", id))
    BY <2>2, <2>4, Sent DEF Good
  <2> QED BY <2>1, <2>3, <2>4 DEF Unlisten
<1> QED BY <1>1, <1>2, <1>3, <1>4, <1>5, <1>6, <1>7, <1>8, <1>9 DEF Client

LEMMA InboundKept ==
  ASSUME Good, Inbound
  PROVE  Kept
<1>1. CASE AuthRevoked
  BY <1>1, RefusedKept DEF AuthRevoked
<1>2. CASE DataUpdate
  <2>1. /\ downstream # <<>> /\ Head(downstream).op = "data" /\ downstream' = Tail(downstream)
        /\ UNCHANGED <<connState, upstream, puts, made, store>>
    BY <1>2 DEF DataUpdate, Receive, client, outside
  <2> QED BY <2>1, Handled DEF Good
<1>3. CASE ListenReply
  <2>1. /\ downstream # <<>> /\ Head(downstream).op = "listen" /\ downstream' = Tail(downstream)
        /\ UNCHANGED <<connState, upstream, puts, made, store>>
    BY <1>3 DEF ListenReply, Receive, client, outside
  <2> QED BY <2>1, Handled DEF Good
<1> QED BY <1>1, <1>2, <1>3, HandshakeKept, AuthReplyKept, PutReplyKept DEF Inbound

LEMMA EnvironmentKept ==
  ASSUME Good, Environment
  PROVE  Kept
<1>1. CASE AuthAnswers \/ AuthFails \/ IssueToken \/ SignOut
  <2>1. UNCHANGED <<connState, upstream, downstream, puts, made, store>>
    BY <1>1 DEF AuthAnswers, AuthFails, IssueToken, SignOut, client, data, wire, outside
  <2> QED BY <2>1, Quiet DEF Good
<1>2. CASE Drop
  BY <1>2, Lost DEF Drop, Disconnect, outside, Good
<1>3. CASE ServerKill
  BY <1>3, InterruptKept DEF ServerKill, outside
<1> QED BY <1>1, <1>2, <1>3, ServeKept, RevokeKept DEF Environment

LEMMA StepKept == Good /\ [Next]_vars => Good' /\ [Stream!Next]_(Stream!vars)
<1> SUFFICES ASSUME Good, [Next]_vars PROVE Good' /\ [Stream!Next]_(Stream!vars)
  OBVIOUS
<1>1. Typed' /\ StateInv'
  BY StepTyped, StepState DEF Good
<1>2. CASE UNCHANGED vars
  <2>1. UNCHANGED <<connState, upstream, downstream, puts, made, store>>
    BY <1>2 DEF vars, client, data, wire, outside
  <2>2. Kept
    BY <2>1, Quiet DEF Good
  <2> QED BY <1>1, <2>2 DEF Good, Kept
<1>3. CASE Next
  <2>1. Kept
    BY <1>3, ClientKept, InboundKept, EnvironmentKept DEF Next
  <2> QED BY <1>1, <2>1 DEF Good, Kept
<1> QED BY <1>2, <1>3

LEMMA InitGood == Init => Good /\ Stream!Init
<1> SUFFICES ASSUME Init PROVE Good /\ Stream!Init
  OBVIOUS
<1>1. Typed /\ StateInv
  BY InitTyped, InitState
<1>2. /\ connState = "disconnected" /\ puts = <<>> /\ made.put = 0 /\ store = 0
      /\ upstream = <<>> /\ downstream = <<>>
  BY DEF Init
<1>3. AuthInv
  BY <1>2, WireEmpty DEF AuthInv
<1>4. Len(puts) = 0 /\ First = 1
  BY <1>2, EmptySeq DEF First
<1>5. Flow(0)
  BY <1>2, <1>4, WireEmpty DEF Flow
<1>6. PutInv
  BY <1>2, <1>4, <1>5, WireEmpty DEF PutInv
<1>7. Cardinality(Unanswered) = 0
  BY <1>2, UnansweredIs, WireEmpty, FS_EmptySet
<1> QED BY <1>1, <1>2, <1>3, <1>6, <1>7 DEF Good, Stream!Init

\* Whatever happens to the connection, the server applies and answers the
\* writes in the order in which they were made, and starts over with the oldest
\* unanswered one on every new connection: what WriteStream says.
THEOREM StreamRefined == Spec => StreamSpec
<1> QED BY InitGood, StepKept, PTL DEF Spec, StreamSpec, Stream!Spec

\* When every put has been answered the node holds the last one written.
THEOREM LastWriteHolds == Spec => []LastWriteWins
<1>1. Stream!Init <=> WSP!Init
  BY DEF Stream!Init, WSP!Init
<1>2. [Stream!Next]_(Stream!vars) <=> [WSP!Next]_(WSP!vars)
  BY DEF Stream!Next, WSP!Next, Stream!Make, WSP!Make, Stream!Apply, WSP!Apply,
         Stream!Answer, WSP!Answer, Stream!StartOver, WSP!StartOver, Stream!vars, WSP!vars
<1>3. WSP!LastWins <=> LastWriteWins
  BY DEF LastWriteWins, Stream!LastWins, WSP!LastWins
<1> QED BY <1>1, <1>2, <1>3, StreamRefined, WSP!LastWriteHolds, PTL
     DEF StreamSpec, Stream!Spec, WSP!Spec

=============================================================================
