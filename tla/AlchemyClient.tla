--------------------------- MODULE AlchemyClient ---------------------------
(***************************************************************************)
(* The Alchemy WebSocket client (ws/alchemy_client.go) with the goroutine  *)
(* that uses it, IngestLoop (ws/alchemy_ingestor.go): subscribing, one     *)
(* request at a time, on the connection the notifications arrive on;       *)
(* ReadLoop, the bounded notification channel and the ways both end.       *)
(*                                                                         *)
(* ReconnectWithBackoff and Stop are exported but nothing in the           *)
(* repository calls them.  They are steps of an owner of the client,       *)
(* switched on by Exported.                                                *)
(*                                                                         *)
(* connMu, subscriptionMu and nextIDMu are taken for one access at a time  *)
(* and never nested, so a critical section is (part of) one step.  A ping  *)
(* changes nothing that is modelled.                                       *)
(***************************************************************************)
EXTENDS Integers, Sequences, Selection

CONSTANTS
  Programs,       \* the DEX programs to subscribe to
  ChannelSize,    \* NotificationBufferSize
  Threshold,      \* CircuitBreakerThreshold
  Exported,       \* whether ReconnectWithBackoff and Stop have callers
  MaxNotices,     \* bound: notifications the server sends
  MaxDials        \* bound: calls of ReconnectWithBackoff

ASSUME ClientAssumption ==
  /\ ChannelSize \in Nat \ {0}
  /\ Threshold \in Nat \ {0}
  /\ Exported \in BOOLEAN
  /\ MaxNotices \in Nat
  /\ MaxDials \in Nat

VARIABLES
  conn,          \* AlchemyClient.conn: the number of a connection, 0 for nil
  isConnected,   \* AlchemyClient.isConnected
  subscriptions, \* AlchemyClient.subscriptions, 0 for a program that is no key
  channel,       \* notificationCh
  closed,        \* notificationCh is closed
  ingest,        \* IngestLoop: "subscribe", "await", "loop" or "returned"
  todo,          \* the programs IngestLoop has still to subscribe to
  asked,         \* the program whose request has been sent, as a set
  result,        \* what IngestLoop returned
  reader,        \* ReadLoop: "none", "top", "read", "push" or "returned"
  held,          \* ReadLoop's local variable conn
  notif,         \* the notification in ReadLoop's hands, <<>> or <<n>>
  cancelled,     \* the context of IngestLoop and ReadLoop is done
  stopped,       \* stopCh is closed
  owner,         \* ReconnectWithBackoff: "idle", "dial", "cooldown", "resubscribe", "crashed"
  attempts,      \* circuitBreakerFailures
  lastFailure,   \* lastFailureTime: "none", "recent" or "past"
  calls,         \* calls of ReconnectWithBackoff
  dialled,       \* connections made so far; the last one is the live one
  up,            \* the last connection can still be read
  requests,      \* subscription requests the server has not answered
  active,        \* programs subscribed to on the last connection
  granted,       \* the programs the server gave the ids 1, 2, ... to
  wire,          \* messages of the server on the last connection, not yet read
  sent,          \* notifications sent
  received       \* history: notifications IngestLoop received

clientVars == <<conn, isConnected, subscriptions>>
ingestVars == <<ingest, todo, asked, result, received>>
readerVars == <<reader, held, notif, closed>>
ownerVars == <<owner, attempts, lastFailure, calls>>
serverVars == <<dialled, up, requests, active, granted, wire, sent>>
ends == <<cancelled, stopped>>
vars == <<clientVars, channel, ingestVars, readerVars, ownerVars, serverVars, ends>>

\* main runs IngestLoop after Connect has succeeded.
Init ==
  /\ conn = 1 /\ isConnected = TRUE
  /\ subscriptions = [p \in Programs |-> 0]
  /\ channel = <<>> /\ closed = FALSE
  /\ ingest = "subscribe" /\ todo = Programs /\ asked = {} /\ result = "none"
  /\ reader = "none" /\ held = 0 /\ notif = <<>>
  /\ cancelled = FALSE /\ stopped = FALSE
  /\ owner = "idle" /\ attempts = 0 /\ lastFailure = "none" /\ calls = 0
  /\ dialled = 1 /\ up = TRUE
  /\ requests = <<>> /\ active = {} /\ granted = <<>> /\ wire = <<>>
  /\ sent = 0 /\ received = <<>>

\* What the server sends: an answer to logsSubscribe with the subscription's id
\* or an error, a notification, or a message that is no JSON of either kind.
Answer(id) == [kind |-> "answer", n |-> id]
Refusal == [kind |-> "refusal", n |-> 0]
Notice(n) == [kind |-> "notice", n |-> n]
Unreadable == [kind |-> "unreadable", n |-> 0]

-----------------------------------------------------------------------------
(* The connection *)

\* Nothing more can be read from the last connection.
HangUp == up' = FALSE /\ wire' = <<>>

\* Disconnect
Disconnect ==
  /\ conn' = 0 /\ isConnected' = FALSE
  /\ IF conn # 0 THEN HangUp ELSE UNCHANGED <<up, wire>>
  /\ UNCHANGED <<dialled, requests, active, granted, sent, subscriptions>>

\* Connect closes the connection it finds and dials.
ConnectSucceeds ==
  /\ dialled' = dialled + 1 /\ conn' = dialled + 1 /\ isConnected' = TRUE
  /\ up' = TRUE /\ requests' = <<>> /\ active' = {} /\ wire' = <<>>
  /\ UNCHANGED <<granted, sent, subscriptions>>

\* The flag is left as it was.
ConnectFails ==
  /\ conn' = 0
  /\ IF conn # 0 THEN HangUp ELSE UNCHANGED <<up, wire>>
  /\ UNCHANGED <<isConnected, dialled, requests, active, granted, sent, subscriptions>>

-----------------------------------------------------------------------------
(* The server and the network *)

\* A request is answered with an id, or refused.
ServerAnswers ==
  /\ up /\ requests # <<>>
  /\ requests' = Tail(requests)
  /\ \/ /\ granted' = Append(granted, Head(requests))
        /\ active' = active \cup {Head(requests)}
        /\ wire' = Append(wire, Answer(Len(granted) + 1))
     \/ /\ wire' = Append(wire, Refusal)
        /\ UNCHANGED <<granted, active>>
  /\ UNCHANGED <<clientVars, channel, ingestVars, readerVars, ownerVars, dialled, up, sent, ends>>

ServerNotifies ==
  /\ up /\ active # {} /\ sent < MaxNotices
  /\ sent' = sent + 1
  /\ wire' = Append(wire, Notice(sent + 1))
  /\ UNCHANGED <<clientVars, channel, ingestVars, readerVars, ownerVars,
                 dialled, up, requests, active, granted, ends>>

\* At most one message of this kind waits at a time.
ServerSendsOther ==
  /\ up /\ sent < MaxNotices
  /\ \A i \in DOMAIN wire : wire[i].kind # "unreadable"
  /\ wire' = Append(wire, Unreadable)
  /\ UNCHANGED <<clientVars, channel, ingestVars, readerVars, ownerVars,
                 dialled, up, requests, active, granted, sent, ends>>

\* The connection breaks; what has arrived may still be read, or be lost.
ConnectionBreaks ==
  /\ up
  /\ up' = FALSE
  /\ UNCHANGED <<clientVars, channel, ingestVars, readerVars, ownerVars,
                 dialled, requests, active, granted, wire, sent, ends>>

-----------------------------------------------------------------------------
(* IngestLoop and Subscribe *)

Return(outcome) ==
  /\ ingest' = "returned" /\ result' = outcome
  /\ UNCHANGED <<todo, asked, received>>

\* Subscribe up to the end of sendRequest.  A write to a broken connection may
\* fail or go unnoticed.
SendRequest(p) ==
  /\ ingest = "subscribe" /\ p \in todo
  /\ \/ /\ conn # 0
        /\ ingest' = "await" /\ asked' = {p}
        /\ requests' = IF up THEN Append(requests, p) ELSE requests
        /\ UNCHANGED <<todo, result, received>>
     \/ /\ conn = 0 \/ ~up
        /\ Return("transport")
        /\ UNCHANGED requests
  /\ UNCHANGED <<clientVars, channel, readerVars, ownerVars, dialled, up, active, granted,
                 wire, sent, ends>>

\* readResponse reads one message, whichever it is, and Subscribe takes an id
\* for the program from it.
ReadAnswer(p) ==
  /\ conn # 0 /\ wire # <<>> /\ Head(wire).kind = "answer"
  /\ subscriptions' = [subscriptions EXCEPT ![p] = Head(wire).n]
  /\ wire' = Tail(wire)
  /\ ingest' = "subscribe" /\ todo' = todo \ {p} /\ asked' = {}
  /\ UNCHANGED <<result, received, up>>

\* Bug: the loop goes on with the next program.
ReadOtherGoOn(p) ==
  /\ conn # 0 /\ wire # <<>> /\ Head(wire).kind # "answer"
  /\ wire' = Tail(wire)
  /\ ingest' = "subscribe" /\ todo' = todo \ {p} /\ asked' = {}
  /\ UNCHANGED <<subscriptions, up, result, received>>

\* Any other message fails the subscription, and IngestLoop with it.
ReadOther(p) ==
  /\ conn # 0 /\ wire # <<>> /\ Head(wire).kind # "answer"
  /\ wire' = Tail(wire)
  /\ Return(IF Head(wire).kind = "notice" THEN "invalid" ELSE Head(wire).kind)
  /\ UNCHANGED <<subscriptions, up>>

\* The connection is gone or broken, or the request times out, after which the
\* connection cannot be read again.
ReadNothing(p) ==
  /\ \/ conn = 0 /\ UNCHANGED <<up, wire>>
     \/ conn # 0 /\ (~up \/ wire = <<>>) /\ HangUp
  /\ Return("transport")
  /\ UNCHANGED subscriptions

ReadResponse(p) ==
  /\ ingest = "await" /\ p \in asked
  /\ ReadAnswer(p) \/ ReadOther(p) \/ ReadNothing(p)
  /\ UNCHANGED <<conn, isConnected, channel, readerVars, ownerVars, dialled, requests, active,
                 granted, sent, ends>>

\* go i.client.ReadLoop(ctx)
StartReader ==
  /\ ingest = "subscribe" /\ todo = {}
  /\ ingest' = "loop" /\ reader' = "top"
  /\ UNCHANGED <<clientVars, channel, todo, asked, result, received, held, notif, closed,
                 ownerVars, serverVars, ends>>

IngestReceive ==
  /\ ingest = "loop" /\ channel # <<>>
  /\ received' = Append(received, Head(channel))
  /\ channel' = Tail(channel)
  /\ UNCHANGED <<clientVars, ingest, todo, asked, result, readerVars, ownerVars, serverVars, ends>>

\* The context is done, or the channel is closed and empty.
IngestReturn ==
  /\ ingest = "loop"
  /\ \/ cancelled /\ Return("cancelled")
     \/ closed /\ channel = <<>> /\ Return("closed")
  /\ UNCHANGED <<clientVars, channel, readerVars, ownerVars, serverVars, ends>>

-----------------------------------------------------------------------------
(* ReadLoop *)

\* The cases <-ctx.Done() and <-stopCh, with the deferred close.
ReaderEnds ==
  /\ cancelled \/ stopped
  /\ Disconnect
  /\ reader' = "returned" /\ closed' = TRUE /\ notif' = <<>>
  /\ UNCHANGED <<held, channel>>

\* The turn of the loop up to the nil check.
ReaderTop ==
  /\ reader = "top"
  /\ \/ ReaderEnds
     \/ /\ ~(cancelled \/ stopped)
        /\ conn # 0
        /\ held' = conn /\ reader' = "read"
        /\ UNCHANGED <<clientVars, serverVars, channel, notif, closed>>
  /\ UNCHANGED <<ingestVars, ownerVars, ends>>

\* ReadMessage returns a message: a notification, or one to be skipped.
ReaderReads ==
  /\ reader = "read"
  /\ held = dialled /\ wire # <<>>
  /\ wire' = Tail(wire)
  /\ \/ /\ Head(wire).kind = "unreadable"
        /\ reader' = "top" /\ UNCHANGED notif
     \/ /\ Head(wire).kind # "unreadable"
        /\ reader' = "push" /\ notif' = <<Head(wire).n>>
  /\ UNCHANGED <<clientVars, channel, ingestVars, held, closed, ownerVars, dialled, up, requests,
                 active, granted, sent, ends>>

\* Bug: the deferred close is missing.
ReaderFailsSilently ==
  /\ reader = "read"
  /\ held # dialled \/ ~up \/ wire = <<>>
  /\ IF held = dialled THEN HangUp ELSE UNCHANGED <<up, wire>>
  /\ IF conn = held THEN conn' = 0 /\ isConnected' = FALSE ELSE UNCHANGED <<conn, isConnected>>
  /\ reader' = "returned" /\ UNCHANGED closed
  /\ UNCHANGED <<subscriptions, channel, ingestVars, held, notif, ownerVars, dialled, requests,
                 active, granted, sent, ends>>

\* Bug: whatever connection is there is forgotten.
ReaderFailsForgetAny ==
  /\ reader = "read"
  /\ held # dialled \/ ~up \/ wire = <<>>
  /\ IF held = dialled THEN HangUp ELSE UNCHANGED <<up, wire>>
  /\ conn' = 0 /\ isConnected' = FALSE
  /\ reader' = "returned" /\ closed' = TRUE
  /\ UNCHANGED <<subscriptions, channel, ingestVars, held, notif, ownerVars, dialled, requests,
                 active, granted, sent, ends>>

\* ReadMessage fails: the connection was replaced or broke, or nothing came for
\* 60 seconds.  Only the connection that failed is forgotten.
ReaderFails ==
  /\ reader = "read"
  /\ held # dialled \/ ~up \/ wire = <<>>
  /\ IF held = dialled THEN HangUp ELSE UNCHANGED <<up, wire>>
  /\ IF conn = held THEN conn' = 0 /\ isConnected' = FALSE ELSE UNCHANGED <<conn, isConnected>>
  /\ reader' = "returned" /\ closed' = TRUE
  /\ UNCHANGED <<subscriptions, channel, ingestVars, held, notif, ownerVars, dialled, requests,
                 active, granted, sent, ends>>

Push ==
  /\ channel' = Append(channel, notif[1])
  /\ notif' = <<>> /\ reader' = "top"
  /\ UNCHANGED <<clientVars, serverVars, held, closed>>

\* Bug: the send does not wait for room.
ReaderPushOrDrop ==
  /\ reader = "push"
  /\ \/ Len(channel) < ChannelSize /\ Push
     \/ /\ Len(channel) >= ChannelSize
        /\ notif' = <<>> /\ reader' = "top"
        /\ UNCHANGED <<clientVars, serverVars, channel, held, closed>>
  /\ UNCHANGED <<ingestVars, ownerVars, ends>>

\* Bug: the send watches neither the context nor stopCh.
ReaderPushOnly ==
  /\ reader = "push"
  /\ Len(channel) < ChannelSize /\ Push
  /\ UNCHANGED <<ingestVars, ownerVars, ends>>

\* Bug: the channel's capacity is not a limit.
ReaderPushUnbounded ==
  /\ reader = "push"
  /\ Push \/ ReaderEnds
  /\ UNCHANGED <<ingestVars, ownerVars, ends>>

\* The send on notificationCh, which waits while the channel is full.
ReaderPush ==
  /\ reader = "push"
  /\ \/ Len(channel) < ChannelSize /\ Push
     \/ ReaderEnds
  /\ UNCHANGED <<ingestVars, ownerVars, ends>>

-----------------------------------------------------------------------------
(* ReconnectWithBackoff, by one owner, and Stop *)

\* The breaker: a call within CircuitBreakerTimeout of the last one counts up
\* and at the threshold sleeps instead of dialling.
Reconnect ==
  /\ Exported /\ owner = "idle" /\ calls < MaxDials
  /\ calls' = calls + 1
  /\ attempts' = IF lastFailure = "recent" THEN attempts + 1 ELSE 1
  /\ IF lastFailure = "recent" /\ attempts + 1 >= Threshold
       THEN owner' = "cooldown" /\ UNCHANGED lastFailure
       ELSE owner' = "dial" /\ lastFailure' = "recent"
  /\ UNCHANGED <<clientVars, channel, ingestVars, readerVars, serverVars, ends>>

\* After the cooldown failureMu is unlocked a second time, a fatal error.
Cooldown ==
  /\ owner = "cooldown"
  /\ attempts' = 0 /\ lastFailure' = "none" /\ owner' = "crashed"
  /\ UNCHANGED <<clientVars, channel, ingestVars, readerVars, calls, serverVars, ends>>

\* Connect, after the backoff.
Dial ==
  /\ owner = "dial"
  /\ \/ ConnectSucceeds /\ attempts' = 0 /\ lastFailure' = "none" /\ owner' = "resubscribe"
     \/ ConnectFails /\ owner' = "idle" /\ UNCHANGED <<attempts, lastFailure>>
  /\ UNCHANGED <<channel, ingestVars, readerVars, calls, ends>>

\* Subscribe for every program of the map: it finds each in the map and returns.
Resubscribe ==
  /\ owner = "resubscribe"
  /\ owner' = "idle"
  /\ UNCHANGED <<clientVars, channel, ingestVars, readerVars, attempts, lastFailure, calls,
                 serverVars, ends>>

\* CircuitBreakerTimeout passes.
FailureAges ==
  /\ lastFailure = "recent" /\ owner = "idle"
  /\ lastFailure' = "past"
  /\ UNCHANGED <<clientVars, channel, ingestVars, readerVars, owner, attempts, calls,
                 serverVars, ends>>

\* Stop closes stopCh; it can be called once.
Stop ==
  /\ Exported /\ ~stopped
  /\ stopped' = TRUE
  /\ UNCHANGED <<clientVars, channel, ingestVars, readerVars, ownerVars, serverVars, cancelled>>

Cancel ==
  /\ ~cancelled
  /\ cancelled' = TRUE
  /\ UNCHANGED <<clientVars, channel, ingestVars, readerVars, ownerVars, serverVars, stopped>>

-----------------------------------------------------------------------------
Server == ServerAnswers \/ ServerNotifies \/ ServerSendsOther \/ ConnectionBreaks

IngestStep ==
  \/ \E p \in Programs : SendRequest(p) \/ ReadResponse(p)
  \/ StartReader \/ IngestReceive \/ IngestReturn

ReaderStep == ReaderTop \/ ReaderReads \/ ReaderFails \/ ReaderPush

OwnerStep == Reconnect \/ Cooldown \/ Dial \/ Resubscribe \/ FailureAges \/ Stop

\* A fatal error ends every goroutine.
Running == owner # "crashed"

ClientNext == Running /\ (Server \/ IngestStep \/ ReaderStep \/ OwnerStep)

Next == ClientNext \/ (Running /\ Cancel)

Spec == Init /\ [][Next]_vars

\* IngestLoop and ReadLoop are goroutines whose reads have deadlines of five
\* seconds and a minute.  Nothing is assumed of the server, of the network, of
\* the owner or of the context.
ClientFairness == WF_vars(Running /\ IngestStep) /\ WF_vars(Running /\ ReaderStep)

FairSpec == Spec /\ ClientFairness

-----------------------------------------------------------------------------
(* Properties *)

Message == [kind : {"answer", "refusal", "notice", "unreadable"}, n : Nat]

\* Type invariant of AlchemyClient, IngestLoop and the server's side.
TypeOK ==
  /\ conn \in {0, dialled} /\ dialled \in Nat \ {0}
  /\ isConnected \in BOOLEAN
  /\ subscriptions \in [Programs -> Nat]
  /\ channel \in Seq(Nat) /\ Len(channel) <= ChannelSize
  /\ closed \in BOOLEAN /\ (closed <=> reader = "returned")
  /\ ingest \in {"subscribe", "await", "loop", "returned"}
  /\ reader # "none" => ingest \in {"loop", "returned"}
  /\ todo \subseteq Programs /\ asked \subseteq Programs
  /\ reader \in {"none", "top", "read", "push", "returned"}
  /\ held \in 0 .. dialled
  /\ notif \in Seq(Nat) /\ Len(notif) = IF reader = "push" THEN 1 ELSE 0
  /\ cancelled \in BOOLEAN /\ stopped \in BOOLEAN /\ up \in BOOLEAN
  /\ owner \in {"idle", "dial", "cooldown", "resubscribe", "crashed"}
  /\ attempts \in Nat /\ calls \in 0 .. MaxDials
  /\ lastFailure \in {"none", "recent", "past"}
  /\ requests \in Seq(Programs) /\ active \subseteq Programs
  /\ granted \in Seq(Programs)
  /\ wire \in Seq(Message)
  /\ sent \in 0 .. MaxNotices
  /\ received \in Seq(Nat)

\* The id recorded for a program is one the server gave to that program.
\* Subscribe compares no ids: the answers cannot be taken for one another
\* because any other message ends IngestLoop (alchemy_client.go:165-181).
SubscriptionsAreServers ==
  \A p \in Programs : subscriptions[p] # 0 =>
    /\ subscriptions[p] \in 1 .. Len(granted)
    /\ granted[subscriptions[p]] = p

Numbers(messages) == [i \in 1 .. Len(messages) |-> messages[i].n]

\* What is on the wire of the notifications sent.
OnWire == Numbers(Select(wire, {m \in Message : m.kind = "notice"}))

\* The notifications on their way to IngestLoop, in order.
Pending == IF ingest = "returned" THEN <<>> ELSE channel \o notif \o OnWire

Stream == INSTANCE NotificationStream WITH pending <- Pending

\* IngestLoop receives what the server sent in order and without repetition; a
\* full channel delays ReadLoop and loses nothing, and only the end of the
\* stream is lost, with its connection or when IngestLoop returns.
ImplementsNotificationStream == Stream!Spec

\* A read error forgets the connection that failed and no other: one that
\* ReconnectWithBackoff has put in its place stays (alchemy_client.go:226).
ReaderDropsOnlyItsOwn ==
  [][conn # 0 /\ up /\ owner' = owner /\ ~cancelled /\ ~stopped
       => conn' = conn \/ ~up']_vars

\* Once its context is done ReadLoop returns and closes the channel, also when
\* it waits for room in a channel nobody reads any more.
ReaderEndsOnCancel == cancelled /\ reader # "none" ~> closed \/ ~Running

\* IngestLoop fails to subscribe only when the connection is gone or the server
\* refuses: README.md:232.
SubscribesToAll ==
  ingest = "returned" /\ todo # {} =>
    conn = 0 \/ ~up \/ result \in {"refusal", "unreadable"}
=============================================================================
