----------------------------- MODULE Connection -----------------------------
(***************************************************************************)
(* The persistent connection of the Firebase database client               *)
(* (FPersistentConnection, with FIRRetryHelper and FConnection): how it is *)
(* opened, authenticated, lost and reopened, and what becomes of the       *)
(* writes and the reads meanwhile.  Everything here runs on the client's   *)
(* one dispatch queue, so every handler is one step.                       *)
(*                                                                         *)
(* Delays are left out: a scheduled retry fires some time later.  Puts and *)
(* listens are numbers in the order in which they are made, the value a    *)
(* put writes is its own number, and a node is the set of the puts that    *)
(* write it.  Tokens are numbers, 0 for none.                              *)
(***************************************************************************)
EXTENDS Integers, Sequences, SequencesExt, FiniteSetsExt

CONSTANTS
  MaxPuts,      \* bound: writes made
  MaxListens,   \* bound: reads made
  MaxTokens,    \* bound: tokens issued by signing in and by renewal
  MaxRevokes,   \* bound: times the server revokes all tokens
  MaxDrops,     \* bound: lost or reset connections
  MaxFails,     \* bound: failed token fetches
  MaxOffline,   \* bound: calls of goOffline
  MaxNudges     \* bound: reachability and foreground notifications

ASSUME BoundAssumption ==
  /\ MaxPuts \in Nat /\ MaxListens \in Nat /\ MaxTokens \in Nat /\ MaxRevokes \in Nat
  /\ MaxDrops \in Nat /\ MaxFails \in Nat /\ MaxOffline \in Nat /\ MaxNudges \in Nat

VARIABLES
  connState,   \* connectionState
  interrupts,  \* interruptReasons
  retry,       \* retryHelper.scheduledRetry: the token its block will fetch
  force,       \* forceAuthTokenRefresh
  authToken,   \* authToken
  link,        \* realtime: "none", or the state of the FConnection
  puts,        \* outstandingPuts
  parked,      \* putsToAck
  listens,     \* listens
  unacked,     \* unackedListensCount
  made,        \* puts and listens made so far
  fired,       \* listens whose single event has been raised
  asked,       \* token fetches the auth library is working on
  mail,        \* fetched tokens and token changes on their way to the queue
  upstream,    \* messages to the server on the current connection
  downstream,  \* messages from the server on the current connection
  store,       \* server: the last put applied, 0 for none
  tokens,      \* auth library: the current token and the last one issued
  revoked,     \* server: tokens up to this one are refused
  budget,      \* what is left of the bounds on faults
  rejected,    \* history: the last token the client was told is refused
  stranded     \* history: a drop has left acknowledgements parked

client  == <<connState, interrupts, retry, force, authToken, link>>
data    == <<puts, parked, listens, unacked, made, fired>>
wire    == <<upstream, downstream>>
outside == <<store, tokens, revoked>>
history == <<rejected, stranded>>
vars    == <<client, data, asked, mail, wire, outside, budget, history>>

State     == {"disconnected", "gettingToken", "connecting", "authenticating", "connected"}
Reason    == {"waiting_for_open", "repo_interrupt", "server_kill"}
Fault     == {"drop", "fail", "offline", "nudge", "revoke"}

\* Messages.  A token fetch is current as long as currentFetchTokenAttempt
\* is the number it was started with; "left" says that its user signed out.
Fetch     == [current : BOOLEAN, forced : BOOLEAN, left : BOOLEAN]
Mail      == [kind : {"token", "error", "change"}, current : BOOLEAN, token : Nat]
Request   == [op : {"auth", "reauth", "unauth", "put", "listen", "unlisten"}, arg : Nat]
Response  == [op : {"auth", "reauth", "revoked", "put", "data", "listen"}, arg : Nat,
              ok : BOOLEAN, val : Nat]

Req(op, arg)      == [op |-> op, arg |-> arg]
Resp(op, arg, ok) == [op |-> op, arg |-> arg, ok |-> ok, val |-> 0]
DataPush(id)      == [op |-> "data", arg |-> id, ok |-> TRUE, val |-> store]

Connected == connState \in {"authenticating", "connected"}

\* Mutant of CanSendWrites: writes are sent before the authentication is answered.
CanSendEarly == connState \in {"authenticating", "connected"}

CanSendWrites == connState = "connected"

\* The writes the client still lays over what the server sends: the
\* write tree loses one when its completion block runs.
WriteTree == ToSet(puts) \cup ToSet(parked)

\* What a read of a node shows that the puts W have written, given the last put
\* in what the server sent: the newest write of the tree, and without one the
\* newest the server has applied.
Shown(W, base) ==
  IF WriteTree \cap W # {} THEN Max(WriteTree \cap W)
                           ELSE Max({w \in W : w <= base} \cup {0})

\* The sequence q without the request x.
Without(q, x) ==
  IF x \in ToSet(q) THEN RemoveAt(q, CHOOSE i \in DOMAIN q : q[i] = x) ELSE q

\* One unit of a bound is used up.
Spend(f) == budget[f] > 0 /\ budget' = [budget EXCEPT ![f] = @ - 1]

-----------------------------------------------------------------------------
Init ==
  /\ connState = "disconnected" /\ interrupts = {"waiting_for_open"}
  /\ retry = "none" /\ force = FALSE /\ authToken = 0 /\ link = "none"
  /\ puts = <<>> /\ parked = <<>> /\ listens = <<>> /\ unacked = 0
  /\ made = [put |-> 0, listen |-> 0] /\ fired = {}
  /\ asked = <<>> /\ mail = <<>> /\ upstream = <<>> /\ downstream = <<>>
  /\ store = 0 /\ tokens = [now |-> 1, issued |-> 1] /\ revoked = 0
  /\ budget = [f \in Fault |->
       CASE f = "drop" -> MaxDrops [] f = "fail" -> MaxFails
         [] f = "offline" -> MaxOffline [] f = "nudge" -> MaxNudges
         [] f = "revoke" -> MaxRevokes]
  /\ rejected = 0 /\ stranded = FALSE

\* tryScheduleReconnect with the flag f: an earlier block is cancelled, and
\* the flag is cleared because the new block has taken it.
ScheduleReconnect(reasons, f) ==
  IF reasons = {}
    THEN retry' = (IF f THEN "forced" ELSE "cached") /\ force' = FALSE
    ELSE force' = f /\ UNCHANGED retry

\* Mutant of Disconnect: unackedListensCount is not reset.
DisconnectKeepsCount(reasons, f) ==
  /\ connState' = "disconnected" /\ link' = "none"
  /\ upstream' = <<>> /\ downstream' = <<>>
  /\ stranded' = (parked # <<>>)
  /\ ScheduleReconnect(reasons, f)
  /\ UNCHANGED unacked

\* FConnection's close and the delegate's onDisconnect, when the interrupt
\* reasons and the flag are then "reasons" and "f".
Disconnect(reasons, f) ==
  /\ connState' = "disconnected" /\ link' = "none"
  /\ upstream' = <<>> /\ downstream' = <<>>
  /\ unacked' = 0
  /\ stranded' = (parked # <<>>)
  /\ ScheduleReconnect(reasons, f)

\* Mutant of Interrupt: the scheduled retry is not cancelled.
InterruptKeepsRetry(reason) ==
  /\ interrupts' = interrupts \cup {reason}
  /\ IF link # "none"
       THEN Disconnect(interrupts', force)
       ELSE /\ connState' = "disconnected"
            /\ UNCHANGED <<retry, force, link, wire, unacked, stranded>>

\* interruptForReason.
Interrupt(reason) ==
  /\ interrupts' = interrupts \cup {reason}
  /\ IF link # "none"
       THEN Disconnect(interrupts', force)
       ELSE /\ retry' = "none" /\ connState' = "disconnected"
            /\ UNCHANGED <<force, link, wire, unacked, stranded>>

\* resumeForReason.
Resume(reason) ==
  /\ interrupts' = interrupts \ {reason}
  /\ IF connState = "disconnected"
       THEN ScheduleReconnect(interrupts', force)
       ELSE UNCHANGED <<retry, force>>

\* FRepo's deferredInit opens the connection.
Open ==
  /\ "waiting_for_open" \in interrupts
  /\ Resume("waiting_for_open")
  /\ UNCHANGED <<connState, authToken, link, data, asked, mail, wire, outside, budget, history>>

\* goOffline and goOnline of the database's interface.
GoOffline ==
  /\ "waiting_for_open" \notin interrupts
  /\ Spend("offline")
  /\ Interrupt("repo_interrupt")
  /\ UNCHANGED <<authToken, puts, parked, listens, made, fired, asked, mail, outside, rejected>>

GoOnline ==
  /\ "repo_interrupt" \in interrupts
  /\ Resume("repo_interrupt")
  /\ UNCHANGED <<connState, authToken, link, data, asked, mail, wire, outside, budget, history>>

\* reachabilityCallback and enteringForeground.
Nudge ==
  /\ "waiting_for_open" \notin interrupts
  /\ connState = "disconnected"
  /\ Spend("nudge")
  /\ ScheduleReconnect(interrupts, force)
  /\ UNCHANGED <<connState, interrupts, authToken, link, data, asked, mail, wire, outside, history>>

\* The retry block runs: it asks for a token, and an earlier fetch is no
\* longer the current one.
RetryFires ==
  /\ retry # "none"
  /\ retry' = "none"
  /\ connState' = "gettingToken"
  /\ asked' = Append([i \in DOMAIN asked |-> [asked[i] EXCEPT !.current = FALSE]],
                     [current |-> TRUE, forced |-> retry = "forced", left |-> FALSE])
  /\ mail' = [i \in DOMAIN mail |-> [mail[i] EXCEPT !.current = FALSE]]
  /\ UNCHANGED <<interrupts, force, authToken, link, data, wire, outside, budget, history>>

-----------------------------------------------------------------------------
(***************************************************************************)
(* Tokens.                                                                 *)
(***************************************************************************)
\* openNetworkConnectionWithToken.
OpenNetworkConnection(t) ==
  /\ authToken' = t
  /\ connState' = "connecting" /\ link' = "connecting"

\* The callback of the fetch, by the state the connection is in.
TokenFetched ==
  /\ mail # <<>> /\ Head(mail).kind = "token"
  /\ mail' = Tail(mail)
  /\ IF Head(mail).current /\ connState = "gettingToken"
       THEN OpenNetworkConnection(Head(mail).token)
       ELSE UNCHANGED <<authToken, connState, link>>
  /\ UNCHANGED <<interrupts, retry, force, data, asked, wire, outside, budget, history>>

\* Mutant of TokenFailed: a failed fetch schedules no further attempt.
TokenFailedGivesUp ==
  /\ mail # <<>> /\ Head(mail).kind = "error"
  /\ mail' = Tail(mail)
  /\ connState' = IF Head(mail).current THEN "disconnected" ELSE connState
  /\ UNCHANGED <<interrupts, retry, force, authToken, link, data, asked, wire, outside, budget,
                 history>>

TokenFailed ==
  /\ mail # <<>> /\ Head(mail).kind = "error"
  /\ mail' = Tail(mail)
  /\ IF Head(mail).current
       THEN connState' = "disconnected" /\ ScheduleReconnect(interrupts, force)
       ELSE UNCHANGED <<connState, retry, force>>
  /\ UNCHANGED <<interrupts, authToken, link, data, asked, wire, outside, budget, history>>

\* refreshAuthToken, for a change the auth library has announced.
TokenChanged ==
  /\ mail # <<>> /\ Head(mail).kind = "change"
  /\ mail' = Tail(mail)
  /\ authToken' = Head(mail).token
  /\ upstream' = IF ~ Connected THEN upstream
                 ELSE Append(upstream, IF authToken' # 0 THEN Req("reauth", authToken')
                                                         ELSE Req("unauth", 0))
  /\ UNCHANGED <<connState, interrupts, retry, force, link, data, asked, downstream,
                 outside, budget, history>>

\* External: the auth library answers the oldest fetch.  A forced one asks its
\* server for a new token and announces it first, unless the user has left.
AuthAnswers ==
  /\ asked # <<>>
  /\ asked' = Tail(asked)
  /\ LET f == Head(asked)
         t == IF f.forced /\ (f.left \/ tokens.now # 0) THEN tokens.issued + 1 ELSE tokens.now
         answer == [kind |-> "token", current |-> f.current, token |-> t]
         change == [kind |-> "change", current |-> FALSE, token |-> t]
     IN IF t <= tokens.issued
          THEN mail' = Append(mail, answer) /\ UNCHANGED tokens
          ELSE /\ tokens' = [now |-> IF f.left THEN tokens.now ELSE t, issued |-> t]
               /\ mail' = mail \o (IF f.left THEN <<answer>> ELSE <<change, answer>>)
  /\ UNCHANGED <<client, data, wire, store, revoked, budget, history>>

\* External: the fetch fails, for instance without a network.
AuthFails ==
  /\ asked # <<>> /\ Spend("fail")
  /\ asked' = Tail(asked)
  /\ mail' = Append(mail, [kind |-> "error", current |-> Head(asked).current, token |-> 0])
  /\ UNCHANGED <<client, data, wire, outside, history>>

\* External: signing in, or the auth library's own renewal of the token.
IssueToken ==
  /\ tokens.issued < MaxTokens
  /\ tokens' = [now |-> tokens.issued + 1, issued |-> tokens.issued + 1]
  /\ mail' = Append(mail, [kind |-> "change", current |-> FALSE, token |-> tokens'.now])
  /\ UNCHANGED <<client, data, asked, wire, store, revoked, budget, history>>

\* External: the user signs out.
SignOut ==
  /\ tokens.now # 0
  /\ tokens' = [tokens EXCEPT !.now = 0]
  /\ mail' = Append(mail, [kind |-> "change", current |-> FALSE, token |-> 0])
  /\ asked' = [i \in DOMAIN asked |-> [asked[i] EXCEPT !.left = TRUE]]
  /\ UNCHANGED <<client, data, wire, store, revoked, budget, history>>

-----------------------------------------------------------------------------
(***************************************************************************)
(* The connection is up, or goes down.                                     *)
(***************************************************************************)
\* Mutant of Restored: the puts are sent newest first.
RestoredUnsorted ==
  [i \in DOMAIN listens |-> Req("listen", listens[i])] \o
  [i \in DOMAIN puts |-> Req("put", puts[Len(puts) + 1 - i])]

\* Mutant of Restored: the oldest put is left out.
RestoredShort ==
  [i \in DOMAIN listens |-> Req("listen", listens[i])] \o
  [i \in 1 .. Len(puts) - 1 |-> Req("put", puts[i + 1])]

\* restoreState: the listens, and then the puts by their index.
Restored ==
  [i \in DOMAIN listens |-> Req("listen", listens[i])] \o
  [i \in DOMAIN puts |-> Req("put", puts[i])]

\* Mutant of RestoreState: the listens that are sent again are not counted.
RestoreStateUncounted ==
  /\ connState' = "connected"
  /\ upstream' = upstream \o Restored
  /\ UNCHANGED unacked

\* Mutant of RestoreState: the reads are taken to be under way still.
RestoreStateWrites ==
  /\ connState' = "connected"
  /\ upstream' = upstream \o [i \in DOMAIN puts |-> Req("put", puts[i])]
  /\ UNCHANGED unacked

RestoreState ==
  /\ connState' = "connected"
  /\ upstream' = upstream \o Restored
  /\ unacked' = unacked + Len(listens)

\* The server's handshake: onReady and restoreAuth.
Handshake ==
  /\ link = "connecting"
  /\ link' = "connected"
  /\ IF authToken = 0
       THEN RestoreState
       ELSE /\ connState' = "authenticating"
            /\ upstream' = Append(upstream, Req("auth", authToken))
            /\ UNCHANGED unacked
  /\ UNCHANGED <<interrupts, retry, force, authToken, puts, parked, listens, made, fired,
                 asked, mail, downstream, outside, budget, history>>

\* The web socket closes, the connection attempt times out, or the server
\* resets the connection: onDisconnect.
Drop ==
  /\ link # "none" /\ Spend("drop")
  /\ Disconnect(interrupts, force)
  /\ UNCHANGED <<interrupts, authToken, puts, parked, listens, made, fired, asked, mail,
                 outside, rejected>>

\* The server shuts the connection down for good: onKill.
ServerKill ==
  /\ link # "none"
  /\ Interrupt("server_kill")
  /\ UNCHANGED <<authToken, puts, parked, listens, made, fired, asked, mail, outside, budget,
                 rejected>>

\* External: the server's answers to one request, in the order it sends them.
Answers(r) ==
  CASE r.op \in {"auth", "reauth"} -> {<<Resp(r.op, r.arg, r.arg > revoked)>>}
    [] r.op = "put"    -> {<<Resp("put", r.arg, TRUE)>>}
    [] r.op = "listen" -> {<<DataPush(r.arg), Resp("listen", r.arg, TRUE)>>,
                           <<Resp("listen", r.arg, FALSE)>>}
    [] OTHER           -> {<<>>}

\* External: the server handles the oldest request.
Serve ==
  /\ upstream # <<>>
  /\ upstream' = Tail(upstream)
  /\ \E a \in Answers(Head(upstream)) : downstream' = downstream \o a
  /\ store' = IF Head(upstream).op = "put" THEN Head(upstream).arg ELSE store
  /\ UNCHANGED <<client, data, asked, mail, tokens, revoked, budget, history>>

\* External: the server revokes every token issued so far, and may tell so.
Revoke ==
  /\ Spend("revoke")
  /\ revoked' = tokens.issued
  /\ \/ UNCHANGED downstream
     \/ /\ Connected
        /\ downstream' = Append(downstream, Resp("revoked", 0, TRUE))
  /\ UNCHANGED <<client, data, asked, mail, upstream, store, tokens, history>>

-----------------------------------------------------------------------------
(***************************************************************************)
(* Requests of the application.                                            *)
(***************************************************************************)
\* A write: the write tree has it at once; putInternal.
Put ==
  /\ made.put < MaxPuts
  /\ LET id == made.put + 1 IN
       /\ made' = [made EXCEPT !.put = id]
       /\ puts' = Append(puts, id)
       /\ upstream' = IF CanSendWrites THEN Append(upstream, Req("put", id)) ELSE upstream
  /\ UNCHANGED <<client, parked, listens, unacked, fired, asked, mail, downstream, outside,
                 budget, history>>

\* A single-event read of a node nobody listens to yet: listen.
Listen ==
  /\ made.listen < MaxListens
  /\ LET id == made.listen + 1 IN
       /\ made' = [made EXCEPT !.listen = id]
       /\ listens' = Append(listens, id)
       /\ IF Connected
            THEN upstream' = Append(upstream, Req("listen", id)) /\ unacked' = unacked + 1
            ELSE UNCHANGED <<upstream, unacked>>
  /\ UNCHANGED <<client, puts, parked, fired, asked, mail, downstream, outside, budget, history>>

\* The event has been raised on the main queue, which takes the listener
\* away: unlisten.
Unlisten(id) ==
  /\ id \in fired
  /\ fired' = fired \ {id}
  /\ listens' = Without(listens, id)
  /\ upstream' = IF Connected THEN Append(upstream, Req("unlisten", id)) ELSE upstream
  /\ UNCHANGED <<client, puts, parked, unacked, made, asked, mail, downstream, outside, budget,
                 history>>

-----------------------------------------------------------------------------
(***************************************************************************)
(* onDataMessage: the oldest message from the server.                      *)
(***************************************************************************)
Receive(op) ==
  /\ downstream # <<>> /\ Head(downstream).op = op

\* The server refuses the token t, or has revoked it: the connection is
\* closed and the next token must be a new one.
TokenRefused(t) ==
  /\ authToken' = 0
  /\ rejected' = IF t > rejected THEN t ELSE rejected
  /\ Disconnect(interrupts, TRUE)

\* The callback of sendAuthAndRestoreStateAfterComplete.
AuthReply ==
  /\ Receive("auth") \/ Receive("reauth")
  /\ LET m == Head(downstream) IN
       IF m.ok
         THEN /\ IF m.op = "auth"
                   THEN RestoreState
                   ELSE connState' = "connected" /\ UNCHANGED <<upstream, unacked>>
              /\ downstream' = Tail(downstream)
              /\ UNCHANGED <<authToken, rejected, retry, force, link, stranded>>
         ELSE TokenRefused(m.arg)
  /\ UNCHANGED <<interrupts, puts, parked, listens, made, fired, asked, mail, outside, budget>>

\* onAuthRevokedWithStatus.
AuthRevoked ==
  /\ Receive("revoked")
  /\ TokenRefused(authToken)
  /\ UNCHANGED <<interrupts, puts, parked, listens, made, fired, asked, mail, outside, budget>>

\* The callback of sendPut: the put is done with, and its completion block
\* runs unless a listen still waits for its answer.
PutReply ==
  /\ Receive("put")
  /\ LET id == Head(downstream).arg IN
       /\ puts' = Without(puts, id)
       /\ parked' = IF unacked > 0 /\ id \in ToSet(puts) THEN Append(parked, id) ELSE parked
  /\ downstream' = Tail(downstream)
  /\ UNCHANGED <<client, listens, unacked, made, fired, asked, mail, upstream, outside, budget,
                 history>>

\* onDataUpdate: the single event of a listen that has not had it yet.
DataUpdate ==
  /\ Receive("data")
  /\ LET id == Head(downstream).arg IN
       fired' = IF id \in ToSet(listens) THEN fired \cup {id} ELSE fired
  /\ downstream' = Tail(downstream)
  /\ UNCHANGED <<client, puts, parked, listens, unacked, made, asked, mail, upstream, outside,
                 budget, history>>

\* The callback of sendListen, which ends with ackPuts when no other listen
\* waits.  A refused listen is removed with its registration.
ListenReply ==
  /\ Receive("listen")
  /\ LET m == Head(downstream) IN
       IF m.ok
         THEN UNCHANGED <<listens, fired>>
         ELSE listens' = Without(listens, m.arg) /\ fired' = fired \ {m.arg}
  /\ unacked' = unacked - 1
  /\ IF unacked' = 0
       THEN parked' = <<>> /\ stranded' = FALSE
       ELSE UNCHANGED <<parked, stranded>>
  /\ downstream' = Tail(downstream)
  /\ UNCHANGED <<client, puts, made, asked, mail, upstream, outside, budget, rejected>>

-----------------------------------------------------------------------------
Client ==
  \/ Open \/ GoOffline \/ GoOnline \/ Nudge \/ RetryFires
  \/ TokenFetched \/ TokenFailed \/ TokenChanged
  \/ Put \/ Listen \/ \E id \in fired : Unlisten(id)

Inbound == Handshake \/ AuthReply \/ AuthRevoked \/ PutReply \/ DataUpdate \/ ListenReply

Environment ==
  \/ AuthAnswers \/ AuthFails \/ IssueToken \/ SignOut
  \/ Drop \/ ServerKill \/ Serve \/ Revoke

Next == Client \/ Inbound \/ Environment

Spec == Init /\ [][Next]_vars

\* The dispatch queue runs what is due, the auth library and the server
\* answer, a connection attempt ends, and an event that was raised removes
\* its listener.  Nothing is assumed of the faults, which the budget bounds.
Fairness ==
  /\ WF_vars(Open) /\ WF_vars(RetryFires)
  /\ WF_vars(TokenFetched) /\ WF_vars(TokenFailed) /\ WF_vars(TokenChanged)
  /\ WF_vars(AuthAnswers \/ AuthFails) /\ WF_vars(Serve) /\ WF_vars(Inbound)
  /\ \A id \in 1 .. MaxListens : WF_vars(Unlisten(id))

FairSpec == Spec /\ Fairness

-----------------------------------------------------------------------------
(***************************************************************************)
(* Properties.                                                             *)
(***************************************************************************)
TypeOK ==
  /\ connState \in State /\ interrupts \subseteq Reason
  /\ retry \in {"none", "cached", "forced"} /\ force \in BOOLEAN /\ authToken \in Nat
  /\ link \in {"none", "connecting", "connected"}
  /\ puts \in Seq(Nat) /\ parked \in Seq(Nat) /\ listens \in Seq(Nat) /\ unacked \in Nat
  /\ made \in [{"put", "listen"} -> Nat] /\ fired \subseteq Nat
  /\ asked \in Seq(Fetch) /\ mail \in Seq(Mail)
  /\ upstream \in Seq(Request) /\ downstream \in Seq(Response)
  /\ store \in Nat /\ tokens \in [{"now", "issued"} -> Nat] /\ revoked \in Nat
  /\ budget \in [Fault -> Nat] /\ rejected \in Nat /\ stranded \in BOOLEAN

\* Fetches that are the latest attempt, answered or not.
CurrentFetches ==
  {<<"asked", i>> : i \in {j \in DOMAIN asked : asked[j].current}} \cup
  {<<"mail", i>> : i \in {j \in DOMAIN mail : mail[j].current}}

\* The states the code's assertions name, for every handler that relies on
\* one: a retry block only runs while disconnected, a token only opens a
\* connection while one is being fetched, restoreAuth only runs on a
\* connection attempt, requests only leave on an open connection, and nothing
\* goes on while there is a reason not to.  Without one, a disconnected client
\* always has its next attempt scheduled: nothing else would wake it.
StateMatches ==
  /\ connState = "disconnected" /\ interrupts = {} <=> retry # "none"
  /\ interrupts # {} => connState = "disconnected"
  /\ link = "none" <=> connState \in {"disconnected", "gettingToken"}
  /\ link = "connecting" <=> connState = "connecting"
  /\ connState = "gettingToken" => CurrentFetches # {}
  /\ CurrentFetches # {} => connState \in {"disconnected", "gettingToken"}

\* The inductive strengthening of StateMatches: only the latest attempt to fetch
\* a token is current, a change of token is no answer to one, and messages are
\* under way only on an open connection.
FetchesMatch ==
  /\ \A i, j \in DOMAIN asked : asked[i].current /\ asked[j].current => i = j
  /\ \A i, j \in DOMAIN mail : mail[i].current /\ mail[j].current => i = j
  /\ \A i \in DOMAIN asked, j \in DOMAIN mail : ~ (asked[i].current /\ mail[j].current)
  /\ \A i \in DOMAIN mail : mail[i].current => mail[i].kind # "change"

WireMatches == link # "connected" => upstream = <<>> /\ downstream = <<>>

StateInv == StateMatches /\ FetchesMatch /\ WireMatches

\* unackedListensCount is the number of listens on this connection that wait
\* for an answer; it is unsigned, so the assertion that it is not negative
\* could never fail, and one decrement too many would park every
\* acknowledgement from then on.
UnackedExact ==
  unacked = Cardinality({i \in DOMAIN upstream : upstream[i].op = "listen"})
            + Cardinality({i \in DOMAIN downstream : downstream[i].op = "listen"})

\* Nothing the client waits for is lost on a connection: the authentication it
\* waits for is on the wire, and so is, once it is done, every unanswered put
\* and the data or the refusal of every read whose event has not been raised.
OnTheWire(q, op, id) == \E m \in ToSet(q) : m.op = op /\ m.arg = id

NothingForgotten ==
  /\ connState = "authenticating" =>
       \E m \in ToSet(upstream) \cup ToSet(downstream) : m.op = "auth"
  /\ connState = "connected" =>
       /\ \A id \in ToSet(puts) :
            OnTheWire(upstream, "put", id) \/ OnTheWire(downstream, "put", id)
       /\ \A id \in ToSet(listens) \ fired :
            \/ OnTheWire(upstream, "listen", id) \/ OnTheWire(downstream, "data", id)
            \/ Resp("listen", id, FALSE) \in ToSet(downstream)

\* A read of any node shows the last write made to it, whichever of the puts
\* those were, through resends and parked acknowledgements, as long as no
\* acknowledgement was left parked by a connection that was lost: the windows
\* see their own writes in the order in which they made them.
ReadSeesWrites ==
  [][\A id \in fired' \ fired, W \in SUBSET (1 .. made.put) :
       ~ stranded => Shown(W, Head(downstream).val) = Max(W \cup {0})]_vars

\* "The effect of the write will be visible immediately": a read shows it.
ReadYourWrites ==
  [][\A id \in fired' \ fired : Shown(1 .. made.put, Head(downstream).val) = made.put]_vars

\* After a refusal "we will refresh the token later on reconnect": no
\* connection is opened with a token the client knows to be refused.
RevokedTokenRefreshed ==
  [][link = "none" /\ link' = "connecting" => authToken' = 0 \/ authToken' > rejected]_vars

\* Every write is answered and every read ends, through lost connections,
\* failed fetches and revoked tokens, unless the connection is switched off.
RequestsEnd ==
  \A id \in 1 .. MaxPuts \cup 1 .. MaxListens :
    /\ id \in ToSet(puts) ~> id \notin ToSet(puts) \/ interrupts # {}
    /\ id \in ToSet(listens) ~> id \notin ToSet(listens) \/ interrupts # {}

\* Writes the server has applied on this connection and not yet answered.
Unanswered == {downstream[i].arg : i \in {j \in DOMAIN downstream : downstream[j].op = "put"}}

\* What the windows' models assume of the client's writes.
Stream == INSTANCE WriteStream WITH
  made  <- made.put,
  queue <- puts,
  done  <- Cardinality(Unanswered)

\* The client keeps the promise of WriteStream: writes are applied in order,
\* answered in order, and resent from the oldest unanswered one.
StreamSpec == Stream!Spec

\* When every put has been answered the node holds the last one written:
\* a put that is resent never ends up behind a later one.
LastWriteWins == Stream!LastWins

=============================================================================
