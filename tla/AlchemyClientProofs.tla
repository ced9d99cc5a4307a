------------------------ MODULE AlchemyClientProofs ------------------------
(***************************************************************************)
(* Theorems about AlchemyClient.tla for any set of programs, any channel   *)
(* size, any threshold and any bounds, with and without an owner that      *)
(* reconnects.                                                             *)
(***************************************************************************)
EXTENDS Service, FoldLemmas

\* TypeOK in parts, so that a step has to look at one of them at a time.
LinkTypes ==
  /\ conn \in {0, dialled} /\ dialled \in Nat \ {0} /\ held \in 0 .. dialled
  /\ isConnected \in BOOLEAN /\ up \in BOOLEAN
  /\ subscriptions \in [Programs -> Nat]

ServerTypes ==
  /\ requests \in Seq(Programs) /\ active \subseteq Programs /\ granted \in Seq(Programs)
  /\ wire \in Seq(Message) /\ sent \in 0 .. MaxNotices

IngestTypes ==
  /\ ingest \in {"subscribe", "await", "loop", "returned"}
  /\ reader # "none" => ingest \in {"loop", "returned"}
  /\ todo \subseteq Programs /\ asked \subseteq Programs /\ received \in Seq(Nat)

ReaderTypes ==
  /\ channel \in Seq(Nat) /\ Len(channel) <= ChannelSize
  /\ closed \in BOOLEAN /\ (closed <=> reader = "returned")
  /\ reader \in {"none", "top", "read", "push", "returned"}
  /\ notif \in Seq(Nat) /\ Len(notif) = IF reader = "push" THEN 1 ELSE 0

OwnerTypes ==
  /\ cancelled \in BOOLEAN /\ stopped \in BOOLEAN
  /\ owner \in {"idle", "dial", "cooldown", "resubscribe", "crashed"}
  /\ attempts \in Nat /\ calls \in 0 .. MaxDials
  /\ lastFailure \in {"none", "recent", "past"}

LEMMA TypesSplit == TypeOK <=> LinkTypes /\ ServerTypes /\ IngestTypes /\ ReaderTypes /\ OwnerTypes
BY DEF TypeOK, LinkTypes, ServerTypes, IngestTypes, ReaderTypes, OwnerTypes

LEMMA TypesSplitNext ==
  TypeOK' <=> LinkTypes' /\ ServerTypes' /\ IngestTypes' /\ ReaderTypes' /\ OwnerTypes'
BY DEF TypeOK, LinkTypes, ServerTypes, IngestTypes, ReaderTypes, OwnerTypes

\* What the operators on sequences return.
LEMMA Empty == ASSUME NEW S PROVE <<>> \in Seq(S) /\ Len(<<>>) = 0
OBVIOUS

LEMMA NonEmpty ==
  ASSUME NEW S, NEW q \in Seq(S), q # <<>>
  PROVE  Head(q) \in S /\ Tail(q) \in Seq(S)
OBVIOUS

LEMMA ZeroLen == ASSUME NEW S, NEW q \in Seq(S), Len(q) = 0 PROVE q = <<>>
OBVIOUS

LEMMA Append1 == ASSUME NEW S, NEW q \in Seq(S), NEW e \in S PROVE Append(q, e) \in Seq(S)
OBVIOUS

\* What a step leaves alone keeps its types.
LEMMA LinkStays ==
  ASSUME TypeOK, UNCHANGED <<conn, isConnected, subscriptions, dialled, held>>, up' \in BOOLEAN
  PROVE  LinkTypes'
BY DEF TypeOK, LinkTypes

LEMMA ServerStays ==
  ASSUME TypeOK, UNCHANGED <<requests, active, granted, wire, sent>>
  PROVE  ServerTypes'
BY DEF TypeOK, ServerTypes

LEMMA IngestStays ==
  ASSUME TypeOK, UNCHANGED <<ingest, todo, asked, received>>, reader = "none" => reader' = "none"
  PROVE  IngestTypes'
BY DEF TypeOK, IngestTypes

LEMMA ReaderStays ==
  ASSUME TypeOK, UNCHANGED <<channel, closed, reader, notif>>
  PROVE  ReaderTypes'
BY DEF TypeOK, ReaderTypes

LEMMA OwnerStays ==
  ASSUME TypeOK, UNCHANGED <<cancelled, stopped, owner, attempts, calls, lastFailure>>
  PROVE  OwnerTypes'
BY DEF TypeOK, OwnerTypes

LEMMA InitTypeOK == Init => TypeOK
<1> SUFFICES ASSUME Init PROVE TypeOK
  OBVIOUS
<1>1. OwnerTypes
  <2>1. /\ cancelled = FALSE /\ stopped = FALSE /\ owner = "idle"
        /\ attempts = 0 /\ calls = 0 /\ lastFailure = "none"
    BY DEF Init
  <2>2. cancelled \in BOOLEAN /\ stopped \in BOOLEAN
    BY DEF Init
  <2>3. attempts \in Nat /\ calls \in 0 .. MaxDials
    BY <2>1, ClientAssumption
  <2>4. owner = "idle" /\ lastFailure = "none"
    BY <2>1
  <2>. QED BY <2>2, <2>3, <2>4 DEF OwnerTypes
<1>5. LinkTypes
  <2>1. conn = 1 /\ dialled = 1 /\ held = 0 /\ isConnected = TRUE /\ up = TRUE
    BY DEF Init
  <2>2. subscriptions \in [Programs -> Nat]
    BY DEF Init
  <2>. QED BY <2>1, <2>2 DEF LinkTypes
<1>4. IngestTypes
  <2>1. received \in Seq(Nat)
    BY Empty DEF Init
  <2>. QED BY <2>1 DEF Init, IngestTypes
<1>2. ServerTypes
  BY ClientAssumption, Empty DEF Init, ServerTypes
<1>3. ReaderTypes
  <2>1. channel = <<>> /\ notif = <<>> /\ reader = "none" /\ closed = FALSE
    BY DEF Init
  <2>2. channel \in Seq(Nat) /\ notif \in Seq(Nat) /\ Len(channel) = 0 /\ Len(notif) = 0
    BY <2>1, Empty
  <2>3. 0 <= ChannelSize
    BY ClientAssumption
  <2>. QED BY <2>1, <2>2, <2>3 DEF ReaderTypes
<1>. QED BY <1>1, <1>2, <1>3, <1>4, <1>5, TypesSplit

\* The types are kept by each operation.
LEMMA ServerTypeOK ==
  ASSUME TypeOK, Server
  PROVE  TypeOK'
<1>1. CASE ServerAnswers
  <2>1. LinkTypes'
    BY <1>1, LinkStays DEF ServerAnswers, clientVars, readerVars, serverVars, TypeOK
  <2>2. ServerTypes'
    <3>1. requests # <<>> /\ requests' = Tail(requests) /\ sent' = sent
      BY <1>1 DEF ServerAnswers
    <3>2. Head(requests) \in Programs /\ requests' \in Seq(Programs)
      BY <3>1, NonEmpty DEF TypeOK
    <3>3. /\ active' \in {active, active \cup {Head(requests)}}
          /\ granted' \in {granted, Append(granted, Head(requests))}
      BY <1>1 DEF ServerAnswers
    <3>4. granted' \in Seq(Programs) /\ active' \subseteq Programs
      <4>1. granted \in Seq(Programs) /\ Append(granted, Head(requests)) \in Seq(Programs)
        BY <3>2, Append1 DEF TypeOK
      <4>. QED BY <3>2, <3>3, <4>1 DEF TypeOK
    <3>5. Answer(Len(granted) + 1) \in Message /\ Refusal \in Message
      BY DEF TypeOK, Message, Answer, Refusal
    <3>6. wire' \in {Append(wire, Answer(Len(granted) + 1)), Append(wire, Refusal)}
      BY <1>1 DEF ServerAnswers
    <3>7. wire' \in Seq(Message)
      <4>1. wire \in Seq(Message)
        BY DEF TypeOK
      <4>2. \A m \in Message : Append(wire, m) \in Seq(Message)
        BY <4>1, Append1
      <4>. QED BY <3>5, <3>6, <4>2
    <3>. QED BY <3>1, <3>2, <3>4, <3>7 DEF ServerTypes, TypeOK
  <2>3. IngestTypes'
    BY <1>1, IngestStays DEF ServerAnswers, ingestVars, readerVars
  <2>4. ReaderTypes'
    BY <1>1, ReaderStays DEF ServerAnswers, readerVars
  <2>5. OwnerTypes'
    BY <1>1, OwnerStays DEF ServerAnswers, ownerVars, ends
  <2>. QED BY <2>1, <2>2, <2>3, <2>4, <2>5, TypesSplitNext
<1>2. CASE ServerNotifies
  <2>1. LinkTypes'
    BY <1>2, LinkStays DEF ServerNotifies, clientVars, readerVars, serverVars, TypeOK
  <2>2. ServerTypes'
    <3>1. Notice(sent + 1) \in Message
      BY DEF Notice, Message, TypeOK
    <3>2. wire \in Seq(Message)
      BY DEF TypeOK
    <3>3. Append(wire, Notice(sent + 1)) \in Seq(Message)
      BY <3>1, <3>2, Append1
    <3>4. /\ UNCHANGED <<requests, active, granted>>
          /\ wire' = Append(wire, Notice(sent + 1))
          /\ sent' \in 0 .. MaxNotices
      BY <1>2, ClientAssumption DEF ServerNotifies, TypeOK
    <3>. QED BY <3>3, <3>4 DEF ServerTypes, TypeOK
  <2>3. IngestTypes'
    BY <1>2, IngestStays DEF ServerNotifies, ingestVars, readerVars
  <2>4. ReaderTypes'
    BY <1>2, ReaderStays DEF ServerNotifies, readerVars
  <2>5. OwnerTypes'
    BY <1>2, OwnerStays DEF ServerNotifies, ownerVars, ends
  <2>. QED BY <2>1, <2>2, <2>3, <2>4, <2>5, TypesSplitNext
<1>3. CASE ServerSendsOther
  <2>1. LinkTypes'
    BY <1>3, LinkStays DEF ServerSendsOther, clientVars, readerVars, serverVars, TypeOK
  <2>2. ServerTypes'
    <3>1. Unreadable \in Message
      BY DEF Unreadable, Message, TypeOK
    <3>2. wire \in Seq(Message)
      BY DEF TypeOK
    <3>3. Append(wire, Unreadable) \in Seq(Message)
      BY <3>1, <3>2, Append1
    <3>4. /\ UNCHANGED <<requests, active, granted>>
          /\ wire' = Append(wire, Unreadable)
          /\ sent' \in 0 .. MaxNotices
      BY <1>3, ClientAssumption DEF ServerSendsOther, TypeOK
    <3>. QED BY <3>3, <3>4 DEF ServerTypes, TypeOK
  <2>3. IngestTypes'
    BY <1>3, IngestStays DEF ServerSendsOther, ingestVars, readerVars
  <2>4. ReaderTypes'
    BY <1>3, ReaderStays DEF ServerSendsOther, readerVars
  <2>5. OwnerTypes'
    BY <1>3, OwnerStays DEF ServerSendsOther, ownerVars, ends
  <2>. QED BY <2>1, <2>2, <2>3, <2>4, <2>5, TypesSplitNext
<1>4. CASE ConnectionBreaks
  <2>1. LinkTypes'
    BY <1>4, LinkStays DEF ConnectionBreaks, clientVars, readerVars, serverVars, TypeOK
  <2>2. ServerTypes'
    BY <1>4, ServerStays DEF ConnectionBreaks, serverVars
  <2>3. IngestTypes'
    BY <1>4, IngestStays DEF ConnectionBreaks, ingestVars, readerVars
  <2>4. ReaderTypes'
    BY <1>4, ReaderStays DEF ConnectionBreaks, readerVars
  <2>5. OwnerTypes'
    BY <1>4, OwnerStays DEF ConnectionBreaks, ownerVars, ends
  <2>. QED BY <2>1, <2>2, <2>3, <2>4, <2>5, TypesSplitNext
<1>. QED BY <1>1, <1>2, <1>3, <1>4 DEF Server

LEMMA IngestStepTypeOK ==
  ASSUME TypeOK, IngestStep
  PROVE  TypeOK'
<1>1. ASSUME NEW p \in Programs, SendRequest(p) PROVE TypeOK'
  <2>1. LinkTypes'
    BY <1>1, LinkStays DEF SendRequest, Return, clientVars, readerVars, serverVars, TypeOK
  <2>2. ServerTypes'
    <3>1. wire' = wire /\ active' = active /\ granted' = granted /\ sent' = sent
      BY <1>1 DEF SendRequest
    <3>2. requests' \in {requests, Append(requests, p)}
      BY <1>1 DEF SendRequest
    <3>3. requests \in Seq(Programs) /\ Append(requests, p) \in Seq(Programs)
      BY Append1 DEF TypeOK
    <3>4. requests' \in Seq(Programs)
      BY <3>2, <3>3
    <3>. QED BY <3>1, <3>4 DEF ServerTypes, TypeOK
  <2>3. IngestTypes'
    BY <1>1, ClientAssumption
       DEF IngestTypes, TypeOK, SendRequest, Return, vars, clientVars, ingestVars, readerVars,
           ownerVars, serverVars, ends
  <2>4. ReaderTypes'
    BY <1>1, ReaderStays DEF SendRequest, Return, readerVars
  <2>5. OwnerTypes'
    BY <1>1, OwnerStays DEF SendRequest, Return, ownerVars, ends
  <2>. QED BY <2>1, <2>2, <2>3, <2>4, <2>5, TypesSplitNext
<1>2. ASSUME NEW p \in Programs, ReadResponse(p) PROVE TypeOK'
  <2>1. LinkTypes'
    <3>1. /\ up' \in BOOLEAN /\ dialled' = dialled /\ conn' = conn /\ held' = held
          /\ isConnected' = isConnected
      BY <1>2 DEF ReadResponse, ReadAnswer, ReadOther, ReadNothing, HangUp, readerVars, TypeOK
    <3>2. subscriptions' \in [Programs -> Nat]
      <4>1. CASE ReadAnswer(p)
        <5>1. Head(wire) \in Message
          BY <4>1, NonEmpty DEF ReadAnswer, TypeOK
        <5>2. Head(wire).n \in Nat
          BY <5>1 DEF Message
        <5>. QED BY <4>1, <5>2 DEF ReadAnswer, TypeOK
      <4>2. CASE ReadOther(p) \/ ReadNothing(p)
        BY <4>2 DEF ReadOther, ReadNothing, TypeOK
      <4>. QED BY <1>2, <4>1, <4>2 DEF ReadResponse
    <3>. QED BY <3>1, <3>2 DEF LinkTypes, TypeOK
  <2>2. ServerTypes'
    <3>1. requests' = requests /\ active' = active /\ granted' = granted /\ sent' = sent
      BY <1>2 DEF ReadResponse
    <3>2. \/ wire # <<>> /\ wire' = Tail(wire)
          \/ wire' \in {wire, <<>>}
      BY <1>2 DEF ReadResponse, ReadAnswer, ReadOther, ReadNothing, HangUp
    <3>3. wire \in Seq(Message) /\ <<>> \in Seq(Message)
      BY Empty DEF TypeOK
    <3>4. wire # <<>> => Tail(wire) \in Seq(Message)
      BY <3>3, NonEmpty
    <3>5. wire' \in Seq(Message)
      BY <3>2, <3>3, <3>4
    <3>. QED BY <3>1, <3>5 DEF ServerTypes, TypeOK
  <2>3. IngestTypes'
    BY <1>2, ClientAssumption
       DEF IngestTypes, TypeOK, ReadResponse, ReadAnswer, ReadOther, ReadNothing, Return, HangUp,
           vars, clientVars, ingestVars, readerVars, ownerVars, serverVars, ends
  <2>4. ReaderTypes'
    BY <1>2, ReaderStays DEF ReadResponse, ReadAnswer, ReadOther, ReadNothing, Return, HangUp,
           readerVars
  <2>5. OwnerTypes'
    BY <1>2, OwnerStays DEF ReadResponse, ReadAnswer, ReadOther, ReadNothing, Return, HangUp,
           ownerVars, ends
  <2>. QED BY <2>1, <2>2, <2>3, <2>4, <2>5, TypesSplitNext
<1>3. CASE StartReader
  <2>1. LinkTypes'
    BY <1>3, LinkStays DEF StartReader, clientVars, readerVars, serverVars, TypeOK
  <2>2. ServerTypes'
    BY <1>3, ServerStays DEF StartReader, serverVars
  <2>3. IngestTypes'
    BY <1>3 DEF StartReader, IngestTypes, TypeOK
  <2>4. ReaderTypes'
    <3>1. UNCHANGED <<channel, closed, notif>> /\ reader' = "top" /\ reader = "none"
      BY <1>3 DEF StartReader, TypeOK
    <3>. QED BY <3>1 DEF ReaderTypes, TypeOK
  <2>5. OwnerTypes'
    BY <1>3, OwnerStays DEF StartReader, ownerVars, ends
  <2>. QED BY <2>1, <2>2, <2>3, <2>4, <2>5, TypesSplitNext
<1>4. CASE IngestReceive
  <2>1. LinkTypes'
    BY <1>4, LinkStays DEF IngestReceive, clientVars, readerVars, serverVars, TypeOK
  <2>2. ServerTypes'
    BY <1>4, ServerStays DEF IngestReceive, serverVars
  <2>3. IngestTypes'
    <3>1. Head(channel) \in Nat
      BY <1>4, NonEmpty DEF IngestReceive, TypeOK
    <3>2. received' \in Seq(Nat)
      <4>1. received' = Append(received, Head(channel))
        BY <1>4 DEF IngestReceive
      <4>2. received \in Seq(Nat)
        BY DEF TypeOK
      <4>. QED BY <3>1, <4>1, <4>2, Append1
    <3>. QED BY <1>4, <3>2 DEF IngestReceive, IngestTypes, readerVars, TypeOK
  <2>4. ReaderTypes'
    <3>1. channel # <<>> /\ channel' = Tail(channel) /\ UNCHANGED <<closed, reader, notif>>
      BY <1>4 DEF IngestReceive, readerVars
    <3>2. channel \in Seq(Nat) /\ Len(channel) <= ChannelSize
      BY DEF TypeOK
    <3>3. Tail(channel) \in Seq(Nat) /\ Len(Tail(channel)) = Len(channel) - 1
      BY <3>1, <3>2
    <3>4. Len(channel) \in Nat
      BY <3>2
    <3>5. Len(channel') <= ChannelSize
      BY <3>1, <3>2, <3>3, <3>4, ClientAssumption
    <3>. QED BY <3>1, <3>3, <3>5 DEF ReaderTypes, TypeOK
  <2>5. OwnerTypes'
    BY <1>4, OwnerStays DEF IngestReceive, ownerVars, ends
  <2>. QED BY <2>1, <2>2, <2>3, <2>4, <2>5, TypesSplitNext
<1>5. CASE IngestReturn
  <2>1. LinkTypes'
    BY <1>5, LinkStays DEF IngestReturn, Return, clientVars, readerVars, serverVars, TypeOK
  <2>2. ServerTypes'
    BY <1>5, ServerStays DEF IngestReturn, Return, serverVars
  <2>3. IngestTypes'
    BY <1>5 DEF IngestReturn, Return, IngestTypes, readerVars, TypeOK
  <2>4. ReaderTypes'
    BY <1>5, ReaderStays DEF IngestReturn, Return, readerVars
  <2>5. OwnerTypes'
    BY <1>5, OwnerStays DEF IngestReturn, Return, ownerVars, ends
  <2>. QED BY <2>1, <2>2, <2>3, <2>4, <2>5, TypesSplitNext
<1>. QED BY <1>1, <1>2, <1>3, <1>4, <1>5 DEF IngestStep

LEMMA ReaderStepTypeOK ==
  ASSUME TypeOK, ReaderStep
  PROVE  TypeOK'
<1>1. CASE ReaderTop
  <2>1. LinkTypes'
    <3>1. CASE ReaderEnds
      BY <1>1, <3>1 DEF LinkTypes, TypeOK, ReaderEnds, Disconnect, HangUp
    <3>2. CASE ~ReaderEnds
      BY <1>1, <3>2 DEF LinkTypes, TypeOK, ReaderTop, clientVars, serverVars
    <3>. QED BY <3>1, <3>2
  <2>2. ServerTypes'
    <3>1. /\ wire' \in {wire, <<>>} /\ requests' \in {requests, <<>>}
          /\ active' \in {active, {}} /\ granted' = granted /\ sent' = sent
      BY <1>1 DEF ReaderTop, ReaderEnds, Disconnect, HangUp, serverVars
    <3>. QED BY <3>1, Empty DEF ServerTypes, TypeOK
  <2>3. IngestTypes'
    BY <1>1, IngestStays DEF ReaderTop, ReaderEnds, Disconnect, HangUp, ingestVars, readerVars
  <2>4. ReaderTypes'
    <3>1. CASE ReaderEnds
      <4>1. channel' = channel /\ closed' = TRUE /\ reader' = "returned" /\ notif' = <<>>
        BY <3>1 DEF ReaderEnds
      <4>. QED BY <4>1, Empty DEF ReaderTypes, TypeOK
    <3>2. CASE ~ReaderEnds
      <4>1. /\ channel' = channel /\ closed' = closed /\ reader = "top"
            /\ reader' = "read" /\ notif' = notif
        BY <1>1, <3>2 DEF ReaderTop
      <4>. QED BY <4>1 DEF ReaderTypes, TypeOK
    <3>. QED BY <3>1, <3>2
  <2>5. OwnerTypes'
    BY <1>1, OwnerStays DEF ReaderTop, ReaderEnds, Disconnect, HangUp, ownerVars, ends
  <2>. QED BY <2>1, <2>2, <2>3, <2>4, <2>5, TypesSplitNext
<1>2. CASE ReaderReads
  <2>1. LinkTypes'
    BY <1>2, LinkStays DEF ReaderReads, clientVars, readerVars, serverVars, TypeOK
  <2>2. ServerTypes'
    BY <1>2, ClientAssumption
       DEF ServerTypes, TypeOK, ReaderReads, Message, vars, clientVars, ingestVars, readerVars,
           ownerVars, serverVars, ends
  <2>3. IngestTypes'
    BY <1>2, IngestStays DEF ReaderReads, ingestVars, readerVars
  <2>4. ReaderTypes'
    <3>1. Head(wire) \in Message
      BY <1>2, NonEmpty DEF ReaderReads, TypeOK
    <3>2. Head(wire).n \in Nat
      BY <3>1 DEF Message
    <3>3. channel' = channel /\ closed' = closed /\ reader = "read"
      BY <1>2 DEF ReaderReads
    <3>4. CASE reader' = "top" /\ notif' = notif
      BY <3>3, <3>4 DEF ReaderTypes, TypeOK
    <3>5. CASE reader' = "push" /\ notif' = <<Head(wire).n>>
      <4>1. <<Head(wire).n>> \in Seq(Nat) /\ Len(<<Head(wire).n>>) = 1
        BY <3>2
      <4>. QED BY <4>1, <3>3, <3>5 DEF ReaderTypes, TypeOK
    <3>. QED BY <1>2, <3>4, <3>5 DEF ReaderReads
  <2>5. OwnerTypes'
    BY <1>2, OwnerStays DEF ReaderReads, ownerVars, ends
  <2>. QED BY <2>1, <2>2, <2>3, <2>4, <2>5, TypesSplitNext
<1>3. CASE ReaderFails
  <2>1. LinkTypes'
    BY <1>3, ClientAssumption
       DEF LinkTypes, TypeOK, ReaderFails, HangUp, vars, clientVars, ingestVars, readerVars,
           ownerVars, serverVars, ends
  <2>2. ServerTypes'
    <3>1. /\ wire' \in {wire, <<>>} /\ requests' \in {requests, <<>>}
          /\ active' \in {active, {}} /\ granted' = granted /\ sent' = sent
      BY <1>3 DEF ReaderFails, HangUp, serverVars
    <3>. QED BY <3>1, Empty DEF ServerTypes, TypeOK
  <2>3. IngestTypes'
    BY <1>3, IngestStays DEF ReaderFails, HangUp, ingestVars, readerVars
  <2>4. ReaderTypes'
    BY <1>3, ClientAssumption
       DEF ReaderTypes, TypeOK, ReaderFails, HangUp, vars, clientVars, ingestVars, readerVars,
           ownerVars, serverVars, ends
  <2>5. OwnerTypes'
    BY <1>3, OwnerStays DEF ReaderFails, HangUp, ownerVars, ends
  <2>. QED BY <2>1, <2>2, <2>3, <2>4, <2>5, TypesSplitNext
<1>4. CASE ReaderPush
  <2>1. LinkTypes'
    BY <1>4, ClientAssumption
       DEF LinkTypes, TypeOK, ReaderPush, Push, ReaderEnds, Disconnect, HangUp, vars, clientVars,
           ingestVars, readerVars, ownerVars, serverVars, ends
  <2>2. ServerTypes'
    <3>1. /\ wire' \in {wire, <<>>} /\ requests' \in {requests, <<>>}
          /\ active' \in {active, {}} /\ granted' = granted /\ sent' = sent
      BY <1>4 DEF ReaderPush, Push, ReaderEnds, Disconnect, HangUp, serverVars
    <3>. QED BY <3>1, Empty DEF ServerTypes, TypeOK
  <2>3. IngestTypes'
    BY <1>4, IngestStays DEF ReaderPush, Push, ReaderEnds, Disconnect, HangUp, ingestVars,
           readerVars
  <2>4. ReaderTypes'
    <3>1. CASE ReaderEnds
      <4>1. channel' = channel /\ closed' = TRUE /\ reader' = "returned" /\ notif' = <<>>
        BY <3>1 DEF ReaderEnds
      <4>. QED BY <4>1, Empty DEF ReaderTypes, TypeOK
    <3>2. CASE Len(channel) < ChannelSize /\ Push
      <4>1. notif \in Seq(Nat) /\ Len(notif) = 1
        BY <1>4 DEF ReaderPush, TypeOK
      <4>2. notif[1] \in Nat
        BY <4>1
      <4>3. /\ Append(channel, notif[1]) \in Seq(Nat)
            /\ Len(Append(channel, notif[1])) = Len(channel) + 1
        BY <4>2 DEF TypeOK
      <4>4. /\ channel' = Append(channel, notif[1]) /\ notif' = <<>> /\ reader' = "top"
            /\ closed' = closed /\ reader = "push"
        BY <1>4, <3>2 DEF ReaderPush, Push
      <4>5. channel \in Seq(Nat) /\ Len(channel) \in Nat
        BY DEF TypeOK
      <4>6. Len(channel') <= ChannelSize
        BY <3>2, <4>3, <4>4, <4>5, ClientAssumption
      <4>. QED BY <4>3, <4>4, <4>6, Empty DEF ReaderTypes, TypeOK
    <3>. QED BY <1>4, <3>1, <3>2 DEF ReaderPush
  <2>5. OwnerTypes'
    BY <1>4, OwnerStays DEF ReaderPush, Push, ReaderEnds, Disconnect, HangUp, ownerVars, ends
  <2>. QED BY <2>1, <2>2, <2>3, <2>4, <2>5, TypesSplitNext
<1>. QED BY <1>1, <1>2, <1>3, <1>4 DEF ReaderStep

LEMMA OwnerStepTypeOK ==
  ASSUME TypeOK, OwnerStep
  PROVE  TypeOK'
<1>1. CASE Reconnect
  <2>1. LinkTypes'
    BY <1>1, LinkStays DEF Reconnect, clientVars, readerVars, serverVars, TypeOK
  <2>2. ServerTypes'
    BY <1>1, ServerStays DEF Reconnect, serverVars
  <2>3. IngestTypes'
    BY <1>1, IngestStays DEF Reconnect, ingestVars, readerVars
  <2>4. ReaderTypes'
    BY <1>1, ReaderStays DEF Reconnect, readerVars
  <2>5. OwnerTypes'
    BY <1>1, ClientAssumption DEF Reconnect, OwnerTypes, TypeOK, ends, ownerVars
  <2>. QED BY <2>1, <2>2, <2>3, <2>4, <2>5, TypesSplitNext
<1>2. CASE Cooldown
  <2>1. LinkTypes'
    BY <1>2, LinkStays DEF Cooldown, clientVars, readerVars, serverVars, TypeOK
  <2>2. ServerTypes'
    BY <1>2, ServerStays DEF Cooldown, serverVars
  <2>3. IngestTypes'
    BY <1>2, IngestStays DEF Cooldown, ingestVars, readerVars
  <2>4. ReaderTypes'
    BY <1>2, ReaderStays DEF Cooldown, readerVars
  <2>5. OwnerTypes'
    BY <1>2, ClientAssumption DEF Cooldown, OwnerTypes, TypeOK, ends, ownerVars
  <2>. QED BY <2>1, <2>2, <2>3, <2>4, <2>5, TypesSplitNext
<1>3. CASE Dial
  <2>1. LinkTypes'
    <3>1. CASE ConnectSucceeds
      BY <1>3, <3>1 DEF LinkTypes, TypeOK, Dial, ConnectSucceeds, readerVars
    <3>2. CASE ConnectFails
      BY <1>3, <3>2 DEF LinkTypes, TypeOK, Dial, ConnectFails, HangUp, readerVars
    <3>. QED BY <1>3, <3>1, <3>2 DEF Dial
  <2>2. ServerTypes'
    <3>1. /\ wire' \in {wire, <<>>} /\ requests' \in {requests, <<>>}
          /\ active' \in {active, {}} /\ granted' = granted /\ sent' = sent
      BY <1>3 DEF Dial, ConnectSucceeds, ConnectFails, HangUp, serverVars
    <3>. QED BY <3>1, Empty DEF ServerTypes, TypeOK
  <2>3. IngestTypes'
    BY <1>3, IngestStays DEF Dial, ConnectSucceeds, ConnectFails, HangUp, ingestVars, readerVars
  <2>4. ReaderTypes'
    BY <1>3, ReaderStays DEF Dial, ConnectSucceeds, ConnectFails, HangUp, readerVars
  <2>5. OwnerTypes'
    BY <1>3, ClientAssumption DEF Dial, OwnerTypes, TypeOK, ends
  <2>. QED BY <2>1, <2>2, <2>3, <2>4, <2>5, TypesSplitNext
<1>4. CASE Resubscribe
  <2>1. LinkTypes'
    BY <1>4, LinkStays DEF Resubscribe, clientVars, readerVars, serverVars, TypeOK
  <2>2. ServerTypes'
    BY <1>4, ServerStays DEF Resubscribe, serverVars
  <2>3. IngestTypes'
    BY <1>4, IngestStays DEF Resubscribe, ingestVars, readerVars
  <2>4. ReaderTypes'
    BY <1>4, ReaderStays DEF Resubscribe, readerVars
  <2>5. OwnerTypes'
    BY <1>4, ClientAssumption DEF Resubscribe, OwnerTypes, TypeOK, ends, ownerVars
  <2>. QED BY <2>1, <2>2, <2>3, <2>4, <2>5, TypesSplitNext
<1>5. CASE FailureAges
  <2>1. LinkTypes'
    BY <1>5, LinkStays DEF FailureAges, clientVars, readerVars, serverVars, TypeOK
  <2>2. ServerTypes'
    BY <1>5, ServerStays DEF FailureAges, serverVars
  <2>3. IngestTypes'
    BY <1>5, IngestStays DEF FailureAges, ingestVars, readerVars
  <2>4. ReaderTypes'
    BY <1>5, ReaderStays DEF FailureAges, readerVars
  <2>5. OwnerTypes'
    BY <1>5, ClientAssumption DEF FailureAges, OwnerTypes, TypeOK, ends, ownerVars
  <2>. QED BY <2>1, <2>2, <2>3, <2>4, <2>5, TypesSplitNext
<1>6. CASE Stop
  <2>1. LinkTypes'
    BY <1>6, LinkStays DEF Stop, clientVars, readerVars, serverVars, TypeOK
  <2>2. ServerTypes'
    BY <1>6, ServerStays DEF Stop, serverVars
  <2>3. IngestTypes'
    BY <1>6, IngestStays DEF Stop, ingestVars, readerVars
  <2>4. ReaderTypes'
    BY <1>6, ReaderStays DEF Stop, readerVars
  <2>5. OwnerTypes'
    BY <1>6, ClientAssumption DEF Stop, OwnerTypes, TypeOK, ends, ownerVars
  <2>. QED BY <2>1, <2>2, <2>3, <2>4, <2>5, TypesSplitNext
<1>. QED BY <1>1, <1>2, <1>3, <1>4, <1>5, <1>6 DEF OwnerStep

\* Type correctness, for every instance.
THEOREM TypeCorrect == Spec => []TypeOK
<1>1. TypeOK /\ [Next]_vars => TypeOK'
  <2> SUFFICES ASSUME TypeOK, [Next]_vars PROVE TypeOK'
    OBVIOUS
  <2>1. CASE ClientNext
    BY <2>1, ServerTypeOK, IngestStepTypeOK, ReaderStepTypeOK, OwnerStepTypeOK DEF ClientNext
  <2>2. CASE Cancel
    BY <2>2 DEF Cancel, TypeOK, clientVars, ingestVars, readerVars, ownerVars, serverVars
  <2>3. CASE UNCHANGED vars
    BY <2>3 DEF TypeOK, vars, clientVars, ingestVars, readerVars, ownerVars, serverVars, ends
  <2>. QED BY <2>1, <2>2, <2>3 DEF Next
<1>. QED BY <1>1, InitTypeOK, PTL DEF Spec

\* How many replies to a request a connection holds: none, or one, an answer for
\* the program asked or a refusal, and then no request is left.
IsReply(m) == m.kind \in {"answer", "refusal"}

NoReply(w) == \A i \in 1 .. Len(w) : ~IsReply(w[i])

AnswerTo(m, g, askedFor) ==
  m.kind = "answer" => m.n \in 1 .. Len(g) /\ g[m.n] \in askedFor

OneReply(w, r, g, askedFor) ==
  \A i \in 1 .. Len(w) : IsReply(w[i]) =>
    /\ r = <<>>
    /\ AnswerTo(w[i], g, askedFor)
    /\ \A j \in 1 .. Len(w) : IsReply(w[j]) => j = i

LEMMA TailOfOne ==
  ASSUME NEW w \in Seq(Message), w # <<>>, NEW r, NEW g, NEW A
  PROVE  /\ NoReply(w) => NoReply(Tail(w))
         /\ OneReply(w, r, g, A) => OneReply(Tail(w), r, g, A)
         /\ OneReply(w, r, g, A) /\ IsReply(Head(w)) => NoReply(Tail(w))
<1>1. /\ Len(Tail(w)) = Len(w) - 1 /\ Len(w) \in Nat \ {0} /\ Head(w) = w[1]
      /\ \A i \in 1 .. Len(Tail(w)) : Tail(w)[i] = w[i + 1]
  OBVIOUS
<1>2. \A i \in 1 .. Len(Tail(w)) : i + 1 \in 1 .. Len(w) /\ i + 1 # 1
  BY <1>1
<1>3. NoReply(w) => NoReply(Tail(w))
  BY <1>1, <1>2 DEF NoReply
<1>4. ASSUME OneReply(w, r, g, A) PROVE OneReply(Tail(w), r, g, A)
  <2> SUFFICES ASSUME NEW i \in 1 .. Len(Tail(w)), IsReply(Tail(w)[i])
               PROVE  /\ r = <<>>
                      /\ AnswerTo(Tail(w)[i], g, A)
                      /\ \A j \in 1 .. Len(Tail(w)) : IsReply(Tail(w)[j]) => j = i
    BY DEF OneReply
  <2>1. i + 1 \in 1 .. Len(w) /\ Tail(w)[i] = w[i + 1]
    BY <1>1, <1>2
  <2>2. /\ r = <<>> /\ AnswerTo(w[i + 1], g, A)
        /\ \A j \in 1 .. Len(w) : IsReply(w[j]) => j = i + 1
    BY <1>4, <2>1 DEF OneReply
  <2>3. ASSUME NEW j \in 1 .. Len(Tail(w)), IsReply(Tail(w)[j]) PROVE j = i
    <3>1. j + 1 \in 1 .. Len(w) /\ Tail(w)[j] = w[j + 1]
      BY <1>1, <1>2
    <3>2. j + 1 = i + 1
      BY <2>2, <2>3, <3>1
    <3>. QED BY <3>2
  <2>. QED BY <2>1, <2>2, <2>3
<1>5. ASSUME OneReply(w, r, g, A), IsReply(Head(w)) PROVE NoReply(Tail(w))
  <2>1. 1 \in 1 .. Len(w)
    BY <1>1
  <2>2. \A j \in 1 .. Len(w) : IsReply(w[j]) => j = 1
    BY <1>1, <1>5, <2>1 DEF OneReply
  <2>. QED BY <1>1, <1>2, <2>2 DEF NoReply
<1>. QED BY <1>3, <1>4, <1>5

LEMMA AppendToOne ==
  ASSUME NEW w \in Seq(Message), NEW m \in Message, NEW r, NEW g, NEW A
  PROVE  /\ ~IsReply(m) /\ NoReply(w) => NoReply(Append(w, m))
         /\ ~IsReply(m) /\ OneReply(w, r, g, A) => OneReply(Append(w, m), r, g, A)
         /\ NoReply(w) /\ r = <<>> /\ AnswerTo(m, g, A)
              => OneReply(Append(w, m), r, g, A)
<1>1. /\ Len(Append(w, m)) = Len(w) + 1 /\ Len(w) \in Nat
      /\ Append(w, m)[Len(w) + 1] = m
      /\ \A i \in 1 .. Len(w) : Append(w, m)[i] = w[i]
  OBVIOUS
<1>2. \A i \in 1 .. Len(Append(w, m)) : i \in 1 .. Len(w) \/ i = Len(w) + 1
  BY <1>1
<1>3. ~IsReply(m) /\ NoReply(w) => NoReply(Append(w, m))
  BY <1>1, <1>2 DEF NoReply
<1>4. ~IsReply(m) /\ OneReply(w, r, g, A) => OneReply(Append(w, m), r, g, A)
  BY <1>1, <1>2 DEF OneReply
<1>5. NoReply(w) /\ r = <<>> /\ AnswerTo(m, g, A)
        => OneReply(Append(w, m), r, g, A)
  BY <1>1, <1>2 DEF NoReply, OneReply
<1>. QED BY <1>3, <1>4, <1>5

LEMMA EmptyWire == NoReply(<<>>) /\ \A r, g, A : OneReply(<<>>, r, g, A)
BY DEF NoReply, OneReply

LEMMA NoneIsOne == ASSUME NEW w, NEW r, NEW g, NEW A, NoReply(w) PROVE OneReply(w, r, g, A)
BY DEF NoReply, OneReply

LEMMA UnansweredIsNone ==
  ASSUME NEW w, NEW r, NEW g, NEW A, OneReply(w, r, g, A), r # <<>> PROVE NoReply(w)
BY DEF NoReply, OneReply

\* While IngestLoop runs it has at most one request outstanding, on the server
\* or as a reply on the wire, and it waits for it.  It is the strengthening
\* SubscriptionsAreServers needs: an answer on the wire is for the program asked.
Outstanding ==
  /\ ingest \in {"subscribe", "loop"} => requests = <<>> /\ NoReply(wire)
  /\ ingest = "await" =>
       /\ \A p, q \in asked : p = q
       /\ \A i \in 1 .. Len(requests) : i = 1 /\ requests[i] \in asked
       /\ OneReply(wire, requests, granted, asked)

LEMMA InitOutstanding == Init => Outstanding
BY EmptyWire DEF Init, Outstanding

LEMMA ServerOutstanding ==
  ASSUME TypeOK, Outstanding, Server
  PROVE  Outstanding'
<1>0. wire \in Seq(Message) /\ requests \in Seq(Programs) /\ granted \in Seq(Programs)
  BY DEF TypeOK
<1>1. CASE ServerAnswers
  <2>1. /\ requests # <<>> /\ requests' = Tail(requests)
        /\ ingest' = ingest /\ asked' = asked
    BY <1>1 DEF ServerAnswers, ingestVars
  <2>2. ingest \notin {"subscribe", "loop"}
    BY <2>1 DEF Outstanding
  <2>3. ASSUME ingest = "await" PROVE requests' = <<>> /\ Head(requests) \in asked
    <3>1. \A i \in 1 .. Len(requests) : i = 1 /\ requests[i] \in asked
      BY <2>3 DEF Outstanding
    <3>2. Len(requests) = 1
      <4>1. Len(requests) \in 1 .. Len(requests)
        BY <1>0, <2>1
      <4>. QED BY <3>1, <4>1
    <3>3. Head(requests) = requests[1]
      BY <1>0, <2>1
    <3>4. Len(Tail(requests)) = 0 /\ Tail(requests) \in Seq(Programs)
      BY <1>0, <2>1, <3>2
    <3>5. Tail(requests) = <<>>
      BY <3>4, ZeroLen
    <3>. QED BY <2>1, <3>1, <3>2, <3>3, <3>5
  <2>4. ASSUME ingest = "await" PROVE OneReply(wire', <<>>, granted', asked)
    <3>1. NoReply(wire)
      BY <2>1, <2>4, UnansweredIsNone DEF Outstanding
    <3>2. CASE /\ granted' = Append(granted, Head(requests))
               /\ wire' = Append(wire, Answer(Len(granted) + 1))
      <4> DEFINE m == Answer(Len(granted) + 1)
      <4>1. m \in Message /\ m.n = Len(granted) + 1
        BY <1>0 DEF Answer, Message
      <4>2. /\ Len(granted) + 1 \in 1 .. Len(granted')
            /\ granted'[Len(granted) + 1] = Head(requests)
        BY <1>0, <3>2, <2>1, NonEmpty
      <4>3. AnswerTo(m, granted', asked)
        BY <2>3, <2>4, <4>1, <4>2 DEF AnswerTo
      <4>4. wire' = Append(wire, m)
        BY <3>2
      <4> HIDE DEF m
      <4>. QED BY <1>0, <3>1, <4>1, <4>3, <4>4, AppendToOne
    <3>3. CASE wire' = Append(wire, Refusal)
      <4>1. Refusal \in Message /\ AnswerTo(Refusal, granted', asked)
        BY DEF Refusal, Message, AnswerTo
      <4>. QED BY <1>0, <3>1, <3>3, <4>1, AppendToOne
    <3>. QED BY <1>1, <3>2, <3>3 DEF ServerAnswers
  <2>5. ingest = "await" => \A p, q \in asked : p = q
    BY DEF Outstanding
  <2>6. ingest = "await" => \A i \in 1 .. Len(requests') : FALSE
    BY <2>3
  <2>. QED BY <2>1, <2>2, <2>3, <2>4, <2>5, <2>6 DEF Outstanding
<1>2. CASE ServerNotifies \/ ServerSendsOther
  <2>1. /\ requests' = requests /\ ingest' = ingest /\ asked' = asked /\ granted' = granted
        /\ wire' \in {Append(wire, Notice(sent + 1)), Append(wire, Unreadable)}
    BY <1>2 DEF ServerNotifies, ServerSendsOther, ingestVars
  <2>2. /\ Notice(sent + 1) \in Message /\ ~IsReply(Notice(sent + 1))
        /\ Unreadable \in Message /\ ~IsReply(Unreadable)
    BY ClientAssumption DEF Notice, Unreadable, Message, IsReply, TypeOK
  <2>3. NoReply(wire) => NoReply(wire')
    BY <1>0, <2>1, <2>2, AppendToOne
  <2>4. OneReply(wire, requests, granted, asked) => OneReply(wire', requests, granted, asked)
    BY <1>0, <2>1, <2>2, AppendToOne
  <2>. QED BY <2>1, <2>3, <2>4 DEF Outstanding
<1>3. CASE ConnectionBreaks
  BY <1>3 DEF ConnectionBreaks, Outstanding, ingestVars
<1>. QED BY <1>1, <1>2, <1>3 DEF Server

\* A step that leaves IngestLoop where it is and reads or clears the wire.
LEMMA QuietOutstanding ==
  ASSUME TypeOK, Outstanding,
         ingest' = ingest /\ asked' = asked /\ granted' = granted,
         requests' \in {requests, <<>>},
         wire' \in {wire, <<>>} \/ (wire # <<>> /\ wire' = Tail(wire))
  PROVE  Outstanding'
<1>0. wire \in Seq(Message)
  BY DEF TypeOK
<1>1. NoReply(wire) => NoReply(wire')
  BY <1>0, EmptyWire, TailOfOne
<1>2. OneReply(wire, requests, granted, asked) => OneReply(wire', requests, granted, asked)
  BY <1>0, EmptyWire, TailOfOne
<1>3. OneReply(wire', requests, granted, asked) => OneReply(wire', <<>>, granted, asked)
  BY DEF OneReply
<1>4. \A i \in 1 .. Len(requests') : i \in 1 .. Len(requests) /\ requests'[i] = requests[i]
  BY Empty
<1>. QED BY <1>1, <1>2, <1>3, <1>4 DEF Outstanding

LEMMA IngestOutstanding ==
  ASSUME TypeOK, Outstanding, IngestStep
  PROVE  Outstanding'
<1>0. wire \in Seq(Message) /\ requests \in Seq(Programs)
  BY DEF TypeOK
<1>1. ASSUME NEW p \in Programs, SendRequest(p) PROVE Outstanding'
  <2>1. ingest = "subscribe" /\ wire' = wire /\ granted' = granted
    BY <1>1 DEF SendRequest
  <2>2. requests = <<>> /\ NoReply(wire)
    BY <2>1 DEF Outstanding
  <2>3. CASE ingest' = "await" /\ asked' = {p} /\ requests' \in {<<>>, Append(requests, p)}
    <3>1. /\ Len(Append(requests, p)) = Len(requests) + 1
          /\ Append(requests, p)[Len(requests) + 1] = p
      BY <1>0
    <3>2. Len(requests) = 0 /\ Len(<<>>) = 0
      BY <2>2, Empty
    <3>3. CASE requests' = <<>>
      BY <2>3, <3>2, <3>3, <2>1, <2>2, NoneIsOne DEF Outstanding
    <3>4. CASE requests' = Append(requests, p)
      <4>1. \A i \in 1 .. Len(requests') : i = 1 /\ requests'[i] = p
        BY <3>1, <3>2, <3>4
      <4>. QED BY <4>1, <2>1, <2>2, <2>3, NoneIsOne DEF Outstanding
    <3>. QED BY <2>3, <3>3, <3>4
  <2>4. CASE ingest' = "returned"
    BY <2>4 DEF Outstanding
  <2>. QED BY <1>1, <2>2, <2>3, <2>4 DEF SendRequest, Return
<1>2. ASSUME NEW p \in Programs, ReadResponse(p) PROVE Outstanding'
  <2>1. CASE ReadAnswer(p)
    <3>1. /\ wire # <<>> /\ Head(wire).kind = "answer" /\ wire' = Tail(wire)
          /\ ingest' = "subscribe"
      BY <2>1 DEF ReadAnswer
    <3>2. requests' = requests /\ OneReply(wire, requests, granted, asked)
      BY <1>2 DEF ReadResponse, Outstanding
    <3>3. 1 \in 1 .. Len(wire) /\ Head(wire) = wire[1]
      BY <1>0, <3>1
    <3>4. requests = <<>>
      BY <3>1, <3>2, <3>3 DEF OneReply, IsReply
    <3>5. NoReply(Tail(wire))
      BY <1>0, <3>1, <3>2, TailOfOne DEF IsReply
    <3>. QED BY <3>1, <3>2, <3>4, <3>5 DEF Outstanding
  <2>2. CASE ReadOther(p) \/ ReadNothing(p)
    BY <2>2 DEF ReadOther, ReadNothing, Return, Outstanding
  <2>. QED BY <1>2, <2>1, <2>2 DEF ReadResponse
<1>3. CASE StartReader
  BY <1>3 DEF StartReader, serverVars, Outstanding
<1>4. CASE IngestReceive
  BY <1>4 DEF IngestReceive, serverVars, Outstanding
<1>5. CASE IngestReturn
  BY <1>5 DEF IngestReturn, Return, serverVars, Outstanding
<1>. QED BY <1>1, <1>2, <1>3, <1>4, <1>5 DEF IngestStep

LEMMA ReaderOutstanding ==
  ASSUME TypeOK, Outstanding, ReaderStep \/ OwnerStep
  PROVE  Outstanding'
<1>1. ingest' = ingest /\ asked' = asked
  BY DEF ReaderStep, OwnerStep, ReaderTop, ReaderReads, ReaderFails, ReaderPush, Reconnect,
         Cooldown, Dial, Resubscribe, FailureAges, Stop, ingestVars
<1>2. /\ granted' = granted /\ requests' \in {requests, <<>>}
      /\ wire' \in {wire, <<>>} \/ (wire # <<>> /\ wire' = Tail(wire))
  BY DEF ReaderStep, OwnerStep, ReaderTop, ReaderEnds, Disconnect, HangUp, ReaderReads,
         ReaderFails, ReaderPush, Push, Reconnect, Cooldown, Dial, ConnectSucceeds,
         ConnectFails, Resubscribe, FailureAges, Stop, serverVars
<1>. QED BY <1>1, <1>2, QuietOutstanding

LEMMA StepSubscriptions ==
  ASSUME TypeOK, Outstanding, SubscriptionsAreServers, ClientNext
  PROVE  SubscriptionsAreServers'
<1>0. granted \in Seq(Programs) /\ requests \in Seq(Programs) /\ wire \in Seq(Message)
  BY DEF TypeOK
<1>1. \/ granted' = granted
      \/ requests # <<>> /\ granted' = Append(granted, Head(requests))
  BY DEF ClientNext, Server, ServerAnswers, ServerNotifies, ServerSendsOther, ConnectionBreaks,
         IngestStep, SendRequest, ReadResponse, StartReader, IngestReceive, IngestReturn,
         ReaderStep, OwnerStep, ReaderTop, ReaderEnds, Disconnect, ReaderReads,
         ReaderFails, ReaderPush, Push, Reconnect, Cooldown, Dial, ConnectSucceeds,
         ConnectFails, Resubscribe, FailureAges, Stop, serverVars
<1>2. \A i \in 1 .. Len(granted) : i \in 1 .. Len(granted') /\ granted'[i] = granted[i]
  BY <1>0, <1>1, NonEmpty
<1>3. \/ subscriptions' = subscriptions
      \/ \E p \in Programs : ReadResponse(p) /\ ReadAnswer(p)
  BY DEF ClientNext, Server, ServerAnswers, ServerNotifies, ServerSendsOther, ConnectionBreaks,
         IngestStep, SendRequest, ReadResponse, ReadOther, ReadNothing, StartReader,
         IngestReceive, IngestReturn, ReaderStep, OwnerStep, ReaderTop, ReaderEnds, Disconnect,
         ReaderReads, ReaderFails, ReaderPush, Push, Reconnect, Cooldown, Dial,
         ConnectSucceeds, ConnectFails, Resubscribe, FailureAges, Stop, clientVars
<1>4. CASE subscriptions' = subscriptions
  BY <1>2, <1>4 DEF SubscriptionsAreServers
<1>5. ASSUME NEW p \in Programs, ReadResponse(p), ReadAnswer(p)
      PROVE  SubscriptionsAreServers'
  <2>1. /\ ingest = "await" /\ p \in asked /\ wire # <<>> /\ Head(wire).kind = "answer"
        /\ subscriptions' = [subscriptions EXCEPT ![p] = Head(wire).n]
    BY <1>5 DEF ReadResponse, ReadAnswer
  <2>2. 1 \in 1 .. Len(wire) /\ Head(wire) = wire[1]
    BY <1>0, <2>1
  <2>3. Head(wire).n \in 1 .. Len(granted) /\ granted[Head(wire).n] = p
    BY <2>1, <2>2 DEF Outstanding, OneReply, IsReply, AnswerTo
  <2>4. ASSUME NEW q \in Programs, subscriptions'[q] # 0
        PROVE  subscriptions'[q] \in 1 .. Len(granted) /\ granted[subscriptions'[q]] = q
    <3>1. CASE q = p
      BY <2>1, <2>3, <3>1 DEF TypeOK
    <3>2. CASE q # p
      BY <2>1, <2>4, <3>2 DEF TypeOK, SubscriptionsAreServers
    <3>. QED BY <3>1, <3>2
  <2>. QED BY <1>2, <2>4 DEF SubscriptionsAreServers
<1>. QED BY <1>3, <1>4, <1>5

LEMMA AlwaysMatched == Spec => [](Outstanding /\ SubscriptionsAreServers)
<1> DEFINE Inv == Outstanding /\ SubscriptionsAreServers
<1>1. Init => Inv
  BY InitOutstanding DEF Init, SubscriptionsAreServers
<1>2. TypeOK /\ Inv /\ [Next]_vars => Inv'
  <2> SUFFICES ASSUME TypeOK, Outstanding, SubscriptionsAreServers, [Next]_vars
               PROVE  Outstanding' /\ SubscriptionsAreServers'
    OBVIOUS
  <2>1. CASE ClientNext
    BY <2>1, ServerOutstanding, IngestOutstanding, ReaderOutstanding, StepSubscriptions
       DEF ClientNext
  <2>2. CASE Cancel \/ UNCHANGED vars
    <3>1. /\ UNCHANGED <<ingest, asked, requests, wire, granted, subscriptions>>
      BY <2>2 DEF Cancel, vars, clientVars, ingestVars, serverVars
    <3>. QED BY <3>1 DEF Outstanding, SubscriptionsAreServers
  <2>. QED BY <2>1, <2>2 DEF Next
<1>. QED BY <1>1, <1>2, TypeCorrect, PTL DEF Spec

\* Subscriptions are never mixed up, however notifications, refusals, time-outs,
\* lost connections and reconnects fall between a request and its answer.
THEOREM SubscriptionsMatch == Spec => []SubscriptionsAreServers
BY AlwaysMatched, PTL

\* A connection ReconnectWithBackoff has just made survives the read error of the
\* one it replaced: ReadLoop compares before it forgets (alchemy_client.go:226).
THEOREM NewConnectionStays == Spec => ReaderDropsOnlyItsOwn
<1> DEFINE Kept == conn # 0 /\ up /\ owner' = owner /\ ~cancelled /\ ~stopped
                     => conn' = conn \/ ~up'
<1>1. ASSUME TypeOK, [Next]_vars PROVE Kept
  <2> SUFFICES ASSUME conn # 0, owner' = owner, ~cancelled, ~stopped
               PROVE  conn' = conn \/ ~up'
    OBVIOUS
  <2>1. CASE Server \/ Cancel \/ UNCHANGED vars
    BY <2>1 DEF Server, ServerAnswers, ServerNotifies, ServerSendsOther, ConnectionBreaks,
                Cancel, vars, clientVars
  <2>2. CASE IngestStep
    BY <2>2 DEF IngestStep, SendRequest, ReadResponse, StartReader, IngestReceive, IngestReturn,
                clientVars
  <2>3. CASE ReaderTop \/ ReaderReads \/ ReaderPush
    BY <2>3 DEF ReaderTop, ReaderEnds, ReaderReads, ReaderPush, Push, clientVars
  <2>4. CASE ReaderFails
    <3>1. CASE held = dialled
      BY <2>4, <3>1 DEF ReaderFails, HangUp
    <3>2. CASE held # dialled
      <4>1. conn # held
        BY <1>1, <3>2 DEF TypeOK
      <4>. QED BY <2>4, <4>1 DEF ReaderFails
    <3>. QED BY <3>1, <3>2
  <2>5. CASE OwnerStep
    BY <2>5 DEF OwnerStep, Reconnect, Cooldown, Dial, Resubscribe, FailureAges, Stop, clientVars
  <2>. QED BY <1>1, <2>1, <2>2, <2>3, <2>4, <2>5 DEF Next, ClientNext, ReaderStep
<1>2. TypeOK /\ [Next]_vars => [Kept]_vars
  BY <1>1
<1>. QED BY <1>2, TypeCorrect, PTL DEF Spec, ReaderDropsOnlyItsOwn

-----------------------------------------------------------------------------
(***************************************************************************)
(* The client implements NotificationStream.  The mapping needs two facts  *)
(* of the reachable states: without a connection there is nothing to read, *)
(* so a notification in ReadLoop's hands is never lost from the middle;    *)
(* and no reply is left on the wire when ReadLoop reads (Outstanding),     *)
(* which would pass it on as a notification.                               *)
(***************************************************************************)
Forgotten == conn = 0 => ~up /\ wire = <<>>

LEMMA StepForgotten == TypeOK /\ Forgotten /\ [Next]_vars => Forgotten'
<1> SUFFICES ASSUME TypeOK, Forgotten, [Next]_vars PROVE Forgotten'
  OBVIOUS
<1>0. CASE UNCHANGED <<conn, up, wire>>
  BY <1>0 DEF Forgotten
<1>1. CASE Server
  BY <1>1 DEF Server, ServerAnswers, ServerNotifies, ServerSendsOther, ConnectionBreaks,
              clientVars, Forgotten
<1>2. ASSUME NEW p \in Programs, ReadResponse(p) PROVE Forgotten'
  BY <1>2, NonEmpty DEF ReadResponse, ReadAnswer, ReadOther, ReadNothing, HangUp, Forgotten
<1>3. CASE ReaderTop \/ ReaderPush
  BY <1>0, <1>3 DEF ReaderTop, ReaderPush, ReaderEnds, Disconnect, HangUp, Push, clientVars,
                    serverVars, Forgotten
<1>4. CASE ReaderReads
  BY <1>4 DEF ReaderReads, clientVars, Forgotten
<1>5. CASE ReaderFails
  BY <1>5 DEF ReaderFails, HangUp, Forgotten, TypeOK
<1>6. CASE Dial
  BY <1>6 DEF Dial, ConnectSucceeds, ConnectFails, HangUp, Forgotten, TypeOK
<1>7. ASSUME NEW p \in Programs, SendRequest(p) PROVE Forgotten'
  BY <1>0, <1>7 DEF SendRequest, clientVars
<1>. QED
  BY <1>0, <1>1, <1>2, <1>3, <1>4, <1>5, <1>6, <1>7
  DEF Next, ClientNext, IngestStep, StartReader, IngestReceive, IngestReturn,
      ReaderStep, OwnerStep, Reconnect, Cooldown, Resubscribe, FailureAges, Stop, Cancel,
      clientVars, serverVars, vars

Notification == {m \in Message : m.kind = "notice"}

LEMMA NumbersOf ==
  ASSUME NEW q \in Seq(Message)
  PROVE  Numbers(q) \in Seq(Nat) /\ Len(Numbers(q)) = Len(q)
         /\ \A i \in 1 .. Len(q) : Numbers(q)[i] = q[i].n
<1>1. Len(q) \in Nat /\ \A i \in 1 .. Len(q) : q[i] \in Message
  OBVIOUS
<1>2. \A m \in Message : m.n \in Nat
  BY DEF Message
<1>3. \A i \in 1 .. Len(q) : q[i].n \in Nat
  BY <1>1, <1>2
<1>. QED BY <1>1, <1>3 DEF Numbers

LEMMA NumbersAppend ==
  ASSUME NEW q \in Seq(Message), NEW m \in Message
  PROVE  Numbers(Append(q, m)) = Append(Numbers(q), m.n)
BY DEF Numbers, Message

LEMMA NumbersCons ==
  ASSUME NEW q \in Seq(Message), NEW m \in Message
  PROVE  Numbers(<<m>> \o q) = <<m.n>> \o Numbers(q)
<1> DEFINE r == <<m>> \o q
           k == m.n
           u == Numbers(q)
<1>1. r \in Seq(Message) /\ Len(r) = Len(q) + 1 /\ r[1] = m /\ Len(q) \in Nat
      /\ \A i \in 1 .. Len(q) + 1 : i # 1 => i - 1 \in 1 .. Len(q) /\ r[i] = q[i - 1]
  OBVIOUS
<1> HIDE DEF r
<1>2. u \in Seq(Nat) /\ Len(u) = Len(q) /\ \A i \in 1 .. Len(q) : u[i] = q[i].n
  BY NumbersOf
<1>3. k \in Nat
  BY DEF Message
<1> HIDE DEF u, k
<1>4. /\ Len(<<k>> \o u) = Len(q) + 1 /\ (<<k>> \o u)[1] = k
      /\ \A i \in 1 .. Len(q) + 1 : i # 1 => (<<k>> \o u)[i] = u[i - 1]
      /\ <<k>> \o u \in Seq(Nat)
  BY <1>1, <1>2, <1>3
<1>5. /\ Len(Numbers(r)) = Len(q) + 1 /\ Numbers(r) \in Seq(Nat)
      /\ \A i \in 1 .. Len(q) + 1 : Numbers(r)[i] = r[i].n
  BY <1>1, NumbersOf
<1>6. \A i \in 1 .. Len(q) + 1 : Numbers(r)[i] = (<<k>> \o u)[i]
  <2> SUFFICES ASSUME NEW i \in 1 .. Len(q) + 1 PROVE Numbers(r)[i] = (<<k>> \o u)[i]
    OBVIOUS
  <2>1. CASE i = 1
    BY <1>1, <1>4, <1>5, <2>1 DEF k
  <2>2. CASE i # 1
    BY <1>1, <1>2, <1>4, <1>5, <2>2
  <2>. QED BY <2>1, <2>2
<1>7. \A s \in Seq(Nat) : s = [i \in 1 .. Len(s) |-> s[i]]
  OBVIOUS
<1>8. Numbers(r) = <<k>> \o u
  BY <1>4, <1>5, <1>6, <1>7
<1>. QED BY <1>8 DEF r, k, u

\* What is on the wire for IngestLoop after a message is sent, or read.
LEMMA WireTypes ==
  ASSUME TypeOK
  PROVE  /\ wire \in Seq(Message) /\ Select(wire, Notification) \in Seq(Message)
         /\ OnWire = Numbers(Select(wire, Notification)) /\ OnWire \in Seq(Nat)
<1>1. wire \in Seq(Message)
  BY DEF TypeOK
<1>2. Select(wire, Notification) \in Seq(Message)
  BY <1>1, SelectIn
<1>3. OnWire = Numbers(Select(wire, Notification))
  BY DEF OnWire, Notification
<1>. QED BY <1>1, <1>2, <1>3, NumbersOf

LEMMA WireAppend ==
  ASSUME TypeOK, NEW m \in Message, wire' = Append(wire, m)
  PROVE  OnWire' = IF m.kind = "notice" THEN Append(OnWire, m.n) ELSE OnWire
<1>1. Select(wire', Notification) =
        IF m \in Notification THEN Append(Select(wire, Notification), m)
                              ELSE Select(wire, Notification)
  BY WireTypes, SelectAppend
<1>2. OnWire' = Numbers(Select(wire', Notification))
  BY DEF OnWire, Notification
<1>3. m \in Notification <=> m.kind = "notice"
  BY DEF Notification
<1>. QED BY <1>1, <1>2, <1>3, WireTypes, NumbersAppend

LEMMA WireTail ==
  ASSUME TypeOK, wire # <<>>, wire' = Tail(wire)
  PROVE  OnWire = IF Head(wire).kind = "notice" THEN <<Head(wire).n>> \o OnWire' ELSE OnWire'
<1>1. Head(wire) \in Message /\ Tail(wire) \in Seq(Message)
  BY WireTypes, NonEmpty
<1>2. Select(wire, Notification) =
        IF Head(wire) \in Notification THEN <<Head(wire)>> \o Select(Tail(wire), Notification)
                                       ELSE Select(Tail(wire), Notification)
  BY WireTypes, SelectTail
<1>3. OnWire' = Numbers(Select(Tail(wire), Notification))
  BY DEF OnWire, Notification
<1>4. Head(wire) \in Notification <=> Head(wire).kind = "notice"
  BY <1>1 DEF Notification
<1>5. Select(Tail(wire), Notification) \in Seq(Message)
  BY <1>1, SelectIn
<1>6. Numbers(<<Head(wire)>> \o Select(Tail(wire), Notification)) = <<Head(wire).n>> \o OnWire'
  BY <1>1, <1>3, <1>5, NumbersCons
<1>. QED BY <1>2, <1>3, <1>4, <1>6, WireTypes

LEMMA WireEmpty == ASSUME wire' = <<>> PROVE OnWire' = <<>>
BY SelectEmpty DEF OnWire, Numbers

LEMMA WireSame == ASSUME wire' = wire PROVE OnWire' = OnWire
BY DEF OnWire

LEMMA PendingTypes ==
  ASSUME TypeOK
  PROVE  channel \in Seq(Nat) /\ notif \in Seq(Nat) /\ OnWire \in Seq(Nat) /\ Pending \in Seq(Nat)
<1>1. channel \in Seq(Nat) /\ notif \in Seq(Nat) /\ OnWire \in Seq(Nat)
  BY WireTypes DEF TypeOK
<1>2. <<>> \in Seq(Nat) /\ channel \o notif \o OnWire \in Seq(Nat)
  BY <1>1
<1>. QED BY <1>1, <1>2 DEF Pending

LEMMA OneElement ==
  ASSUME NEW S, NEW q \in Seq(S), Len(q) = 1
  PROVE  q = <<q[1]>> /\ q[1] \in S
<1>1. 1 \in 1 .. Len(q)
  OBVIOUS
<1>2. q[1] \in S
  BY <1>1
<1>3. q = [i \in 1 .. Len(q) |-> q[i]]
  OBVIOUS
<1>4. \A i \in 1 .. 1 : i = 1
  OBVIOUS
<1>5. <<q[1]>> = [i \in 1 .. 1 |-> q[1]]
  OBVIOUS
<1>6. [i \in 1 .. 1 |-> q[i]] = [i \in 1 .. 1 |-> q[1]]
  BY <1>4
<1>. QED BY <1>2, <1>3, <1>5, <1>6

\* The end of what is pending may be lost at any step, and nothing else.
LEMMA LosesEnd ==
  ASSUME NEW p \in Seq(Nat), NEW q \in Seq(Nat), Pending = p \o q, Pending' = p,
         sent' = sent, received' = received
  PROVE  Stream!Lose \/ UNCHANGED <<sent, Pending, received>>
<1>1. CASE q = <<>>
  <2>1. p \o q = p
    BY <1>1
  <2>. QED BY <2>1
<1>2. CASE q # <<>>
  <2>1. /\ Len(p) \in Nat /\ Len(p \o q) \in Nat /\ Len(p) < Len(p \o q)
        /\ SubSeq(p \o q, 1, Len(p)) = p
    BY <1>2
  <2>2. Len(p) \in 0 .. Len(Pending) - 1
    BY <2>1
  <2>. QED BY <2>1, <2>2 DEF Stream!Lose
<1>. QED BY <1>1, <1>2

\* IngestLoop returns: whatever is pending is lost.
LEMMA ReturnLoses ==
  ASSUME TypeOK, ingest' = "returned", sent' = sent, received' = received
  PROVE  Stream!Lose \/ UNCHANGED <<sent, Pending, received>>
<1>1. Pending \in Seq(Nat) /\ <<>> \in Seq(Nat) /\ Pending' = <<>>
  BY PendingTypes DEF Pending
<1>2. Pending = <<>> \o Pending
  BY <1>1
<1>. QED BY <1>1, <1>2, LosesEnd

\* The connection is lost, and what it had not been read with it.
LEMMA WireLoses ==
  ASSUME TypeOK, ingest' = ingest, channel' = channel, notif' = notif,
         wire' \in {wire, <<>>}, sent' = sent, received' = received
  PROVE  Stream!Lose \/ UNCHANGED <<sent, Pending, received>>
<1>1. CASE ingest = "returned"
  BY <1>1 DEF Pending
<1>2. CASE ingest # "returned" /\ wire' = wire
  BY <1>2, WireSame DEF Pending
<1>3. CASE ingest # "returned" /\ wire' = <<>>
  <2>1. channel \o notif \in Seq(Nat) /\ OnWire \in Seq(Nat)
    BY PendingTypes
  <2>2. Pending = (channel \o notif) \o OnWire
    BY <1>3 DEF Pending
  <2>3. Pending' = channel \o notif
    <3>1. Pending' = (channel \o notif) \o <<>>
      BY <1>3, WireEmpty DEF Pending
    <3>. QED BY <2>1, <3>1
  <2>. QED BY <2>1, <2>2, <2>3, LosesEnd
<1>. QED BY <1>1, <1>2, <1>3

LEMMA ServerStream ==
  ASSUME TypeOK, Server
  PROVE  Stream!Send \/ UNCHANGED <<sent, Pending, received>>
<1>0. UNCHANGED <<ingest, channel, notif, received>>
  BY DEF Server, ServerAnswers, ServerNotifies, ServerSendsOther, ConnectionBreaks, ingestVars,
         readerVars
<1>1. ASSUME NEW m \in Message, m.kind # "notice", wire' = Append(wire, m), sent' = sent
      PROVE  UNCHANGED <<sent, Pending, received>>
  BY <1>0, <1>1, WireAppend DEF Pending
<1>2. CASE ServerAnswers
  <2>1. \E m \in Message : m.kind # "notice" /\ wire' = Append(wire, m)
    <3>1. granted \in Seq(Programs)
      BY DEF TypeOK
    <3>2. Answer(Len(granted) + 1) \in Message /\ Answer(Len(granted) + 1).kind # "notice"
      BY <3>1 DEF Answer, Message
    <3>3. Refusal \in Message /\ Refusal.kind # "notice"
      BY DEF Refusal, Message
    <3>. QED BY <1>2, <3>2, <3>3 DEF ServerAnswers
  <2>. QED BY <1>1, <1>2, <2>1 DEF ServerAnswers
<1>3. CASE ServerSendsOther
  <2>1. Unreadable \in Message /\ Unreadable.kind # "notice"
    BY DEF Unreadable, Message
  <2>. QED BY <1>1, <1>3, <2>1 DEF ServerSendsOther
<1>4. CASE ConnectionBreaks
  BY <1>0, <1>4, WireSame DEF ConnectionBreaks, Pending
<1>5. CASE ServerNotifies
  <2>1. sent' = sent + 1 /\ wire' = Append(wire, Notice(sent + 1)) /\ sent + 1 \in Nat
    BY <1>5, ClientAssumption DEF ServerNotifies, TypeOK
  <2>2. Notice(sent + 1) \in Message /\ Notice(sent + 1).kind = "notice"
        /\ Notice(sent + 1).n = sent + 1
    BY <2>1 DEF Notice, Message
  <2>3. OnWire' = Append(OnWire, sent + 1)
    BY <2>1, <2>2, WireAppend
  <2>4. channel \o notif \in Seq(Nat) /\ OnWire \in Seq(Nat)
    BY PendingTypes
  <2>5. (channel \o notif) \o Append(OnWire, sent + 1) = Append((channel \o notif) \o OnWire, sent + 1)
    BY <2>1, <2>4, ConcatAppend
  <2>6. Pending' \in {Pending, Append(Pending, sent + 1)}
    BY <1>0, <2>3, <2>5 DEF Pending
  <2>. QED BY <1>0, <2>1, <2>6 DEF Stream!Send
<1>. QED BY <1>2, <1>3, <1>4, <1>5 DEF Server

LEMMA IngestStream ==
  ASSUME TypeOK, IngestStep
  PROVE  Stream!Receive \/ Stream!Lose \/ UNCHANGED <<sent, Pending, received>>
<1>1. ASSUME NEW p \in Programs, SendRequest(p)
      PROVE  Stream!Lose \/ UNCHANGED <<sent, Pending, received>>
  <2>1. /\ UNCHANGED <<channel, notif, wire, sent, received>> /\ ingest = "subscribe"
        /\ ingest' \in {"await", "returned"}
    BY <1>1 DEF SendRequest, Return, readerVars
  <2>2. CASE ingest' = "await"
    BY <2>1, <2>2, WireSame DEF Pending
  <2>. QED BY <2>1, <2>2, ReturnLoses
<1>2. ASSUME NEW p \in Programs, ReadResponse(p)
      PROVE  Stream!Lose \/ UNCHANGED <<sent, Pending, received>>
  <2>1. UNCHANGED <<channel, notif, sent, received>> /\ ingest = "await"
    BY <1>2 DEF ReadResponse, ReadAnswer, ReadOther, ReadNothing, Return, readerVars
  <2>2. CASE ReadAnswer(p)
    <3>1. OnWire' = OnWire
      BY <2>2, WireTail DEF ReadAnswer
    <3>. QED BY <2>1, <2>2, <3>1 DEF ReadAnswer, Pending
  <2>3. CASE ReadOther(p) \/ ReadNothing(p)
    BY <2>1, <2>3, ReturnLoses DEF ReadOther, ReadNothing, Return
  <2>. QED BY <1>2, <2>2, <2>3 DEF ReadResponse
<1>3. CASE StartReader
  BY <1>3, WireSame DEF StartReader, serverVars, Pending
<1>4. CASE IngestReceive
  <2>1. /\ ingest = "loop" /\ ingest' = "loop" /\ channel # <<>> /\ channel' = Tail(channel)
        /\ received' = Append(received, Head(channel)) /\ UNCHANGED <<notif, wire, sent>>
    BY <1>4 DEF IngestReceive, readerVars, serverVars
  <2> DEFINE rest == notif \o OnWire
  <2>2. channel \in Seq(Nat) /\ rest \in Seq(Nat) /\ notif \in Seq(Nat) /\ OnWire \in Seq(Nat)
    BY PendingTypes
  <2>3. ASSUME NEW c \in Seq(Nat) PROVE c \o notif \o OnWire = c \o rest
    BY <2>2
  <2>4. Pending = channel \o rest /\ Pending' = Tail(channel) \o rest
    <3>1. Tail(channel) \in Seq(Nat)
      BY <2>1, <2>2
    <3>2. OnWire' = OnWire /\ notif' = notif
      BY <2>1, WireSame
    <3>3. Pending = channel \o notif \o OnWire /\ Pending' = Tail(channel) \o notif \o OnWire
      BY <2>1, <3>2 DEF Pending
    <3>. QED BY <2>2, <2>3, <3>1, <3>3
  <2> HIDE DEF rest
  <2>5. /\ channel \o rest # <<>> /\ Head(channel \o rest) = Head(channel)
        /\ Tail(channel \o rest) = Tail(channel) \o rest
    BY <2>1, <2>2
  <2>. QED BY <2>1, <2>4, <2>5 DEF Stream!Receive
<1>5. CASE IngestReturn
  BY <1>5, ReturnLoses DEF IngestReturn, Return, serverVars
<1>. QED BY <1>1, <1>2, <1>3, <1>4, <1>5 DEF IngestStep

\* ReadLoop moves a notification from the wire to its hands and from there to the
\* channel; when it ends it takes the connection and what is in its hands with it.
LEMMA ReaderStream ==
  ASSUME TypeOK, Outstanding, Forgotten, ReaderStep
  PROVE  Stream!Lose \/ UNCHANGED <<sent, Pending, received>>
<1>0. UNCHANGED <<ingest, sent, received>>
  BY DEF ReaderStep, ReaderTop, ReaderReads, ReaderFails, ReaderPush, ReaderEnds, Disconnect,
         Push, ingestVars, serverVars
<1>1. ASSUME ReaderEnds PROVE Stream!Lose \/ UNCHANGED <<sent, Pending, received>>
  <2>1. notif' = <<>> /\ channel' = channel /\ wire' = <<>>
    BY <1>1 DEF ReaderEnds, Disconnect, HangUp, Forgotten
  <2>2. CASE ingest = "returned"
    BY <1>0, <2>2 DEF Pending
  <2>3. CASE ingest # "returned"
    <3>1. channel \in Seq(Nat) /\ notif \in Seq(Nat) /\ OnWire \in Seq(Nat)
      BY PendingTypes
    <3>2. /\ channel \o notif \o OnWire = channel \o (notif \o OnWire)
          /\ notif \o OnWire \in Seq(Nat) /\ channel \o <<>> \o <<>> = channel
      BY <3>1
    <3>3. Pending = channel \o (notif \o OnWire)
      BY <2>3, <3>2 DEF Pending
    <3>4. Pending' = channel
      BY <1>0, <2>1, <2>3, <3>2, WireEmpty DEF Pending
    <3>. QED BY <1>0, <3>1, <3>2, <3>3, <3>4, LosesEnd
  <2>. QED BY <2>2, <2>3
<1>2. CASE ReaderTop
  <2>1. CASE ~ReaderEnds
    BY <1>2, <2>1, WireSame, <1>0 DEF ReaderTop, serverVars, Pending
  <2>. QED BY <1>1, <2>1
<1>3. CASE ReaderReads
  <2>1. /\ reader = "read" /\ wire # <<>> /\ wire' = Tail(wire) /\ channel' = channel
        /\ \/ Head(wire).kind = "unreadable" /\ notif' = notif
           \/ Head(wire).kind # "unreadable" /\ notif' = <<Head(wire).n>>
    BY <1>3 DEF ReaderReads
  <2>2. notif = <<>>
    BY <2>1, ZeroLen DEF TypeOK
  <2>3. CASE ingest = "returned"
    BY <1>0, <2>3 DEF Pending
  <2>4. CASE ingest = "loop"
    <3>1. NoReply(wire)
      BY <2>4 DEF Outstanding
    <3>2. Head(wire) = wire[1] /\ 1 \in 1 .. Len(wire) /\ Head(wire) \in Message
      BY <2>1, WireTypes
    <3>3. Head(wire).kind \in {"notice", "unreadable"}
      BY <3>1, <3>2 DEF NoReply, IsReply, Message
    <3>4. channel \in Seq(Nat) /\ OnWire \in Seq(Nat) /\ Head(wire).n \in Nat
      BY <3>2, PendingTypes DEF Message
    <3>5. OnWire' \in Seq(Nat)
      <4>1. Select(Tail(wire), Notification) \in Seq(Message)
        BY <2>1, WireTypes, NonEmpty, SelectIn
      <4>2. OnWire' = Numbers(Select(Tail(wire), Notification))
        BY <2>1 DEF OnWire, Notification
      <4>. QED BY <4>1, <4>2, NumbersOf
    <3>6. CASE Head(wire).kind = "unreadable"
      <4>1. OnWire' = OnWire
        BY <2>1, <3>6, WireTail
      <4>. QED BY <1>0, <2>1, <3>6, <4>1 DEF Pending
    <3>7. CASE Head(wire).kind = "notice"
      <4> DEFINE n == Head(wire).n
      <4>1. OnWire = <<n>> \o OnWire'
        BY <2>1, <3>7, WireTail
      <4>2. n \in Nat /\ notif' = <<n>>
        BY <2>1, <3>4, <3>7
      <4> HIDE DEF n
      <4>3. ASSUME NEW c \in Seq(Nat), NEW w \in Seq(Nat)
            PROVE  c \o <<>> \o (<<n>> \o w) = c \o <<n>> \o w
        BY <4>2
      <4>4. channel \o <<>> \o (<<n>> \o OnWire') = channel \o <<n>> \o OnWire'
        BY <3>4, <3>5, <4>3
      <4>5. Pending = channel \o <<>> \o (<<n>> \o OnWire')
        BY <2>2, <2>4, <4>1 DEF Pending
      <4>6. Pending' = channel \o <<n>> \o OnWire'
        BY <1>0, <2>1, <2>4, <4>2 DEF Pending
      <4>. QED BY <1>0, <4>4, <4>5, <4>6
    <3>. QED BY <3>3, <3>6, <3>7
  <2>5. ingest \in {"loop", "returned"}
    BY <2>1 DEF TypeOK
  <2>. QED BY <2>3, <2>4, <2>5
<1>4. CASE ReaderFails
  <2>1. channel' = channel /\ notif' = notif /\ wire' \in {wire, <<>>}
    BY <1>4 DEF ReaderFails, HangUp
  <2>. QED BY <1>0, <2>1, WireLoses
<1>5. CASE ReaderPush /\ ~ReaderEnds
  <2>1. reader = "push" /\ channel' = Append(channel, notif[1]) /\ notif' = <<>> /\ wire' = wire
    BY <1>5 DEF ReaderPush, Push, serverVars
  <2>2. channel \in Seq(Nat) /\ notif \in Seq(Nat) /\ Len(notif) = 1 /\ OnWire \in Seq(Nat)
    BY <2>1, PendingTypes DEF TypeOK
  <2>3. Append(channel, notif[1]) \o <<>> = channel \o notif
    <3> DEFINE n == notif[1]
    <3>1. notif = <<n>> /\ n \in Nat
      BY <2>2, OneElement
    <3> HIDE DEF n
    <3>2. Append(channel, n) \o <<>> = channel \o <<n>>
      BY <2>2, <3>1
    <3>. QED BY <3>1, <3>2 DEF n
  <2>4. OnWire' = OnWire
    BY <2>1, WireSame
  <2>. QED BY <1>0, <2>1, <2>3, <2>4 DEF Pending
<1>. QED BY <1>1, <1>2, <1>3, <1>4, <1>5 DEF ReaderStep, ReaderPush

LEMMA OwnerStream ==
  ASSUME TypeOK, OwnerStep \/ Cancel
  PROVE  Stream!Lose \/ UNCHANGED <<sent, Pending, received>>
<1>1. UNCHANGED <<ingest, channel, notif, sent, received>>
  BY DEF OwnerStep, Reconnect, Cooldown, Dial, ConnectSucceeds, ConnectFails, Resubscribe,
         FailureAges, Stop, Cancel, ingestVars, readerVars, serverVars
<1>2. wire' \in {wire, <<>>}
  BY DEF OwnerStep, Reconnect, Cooldown, Dial, ConnectSucceeds, ConnectFails, HangUp,
         Resubscribe, FailureAges, Stop, Cancel, serverVars
<1>. QED BY <1>1, <1>2, WireLoses

LEMMA StepStream ==
  ASSUME TypeOK, Outstanding, Forgotten, [Next]_vars
  PROVE  [Stream!Next]_<<sent, Pending, received>>
<1>1. CASE ClientNext
  BY <1>1, ServerStream, IngestStream, ReaderStream, OwnerStream DEF ClientNext, Stream!Next
<1>2. CASE Cancel
  BY <1>2, OwnerStream DEF Stream!Next
<1>3. CASE UNCHANGED vars
  <2>1. UNCHANGED <<ingest, channel, notif, wire, sent, received>>
    BY <1>3 DEF vars, ingestVars, readerVars, serverVars
  <2>. QED BY <2>1, WireSame DEF Pending
<1>. QED BY <1>1, <1>2, <1>3 DEF Next

\* IngestLoop receives the notifications in the order they were sent and none
\* twice, whatever is lost, and what is lost is lost from the end.
THEOREM ClientImplementsStream == Spec => ImplementsNotificationStream
<1>1. Spec => [](TypeOK /\ Outstanding)
  BY AlwaysMatched, TypeCorrect, PTL
<1>2. Init => Forgotten /\ Stream!Init
  <2> SUFFICES ASSUME Init PROVE Forgotten /\ Stream!Init
    OBVIOUS
  <2>1. wire = <<>> /\ channel = <<>> /\ notif = <<>> /\ sent = 0 /\ received = <<>> /\ conn = 1
    BY DEF Init
  <2>2. OnWire = <<>>
    BY <2>1, SelectEmpty DEF OnWire, Numbers
  <2>3. <<>> \o <<>> \o <<>> = <<>>
    OBVIOUS
  <2>. QED BY <2>1, <2>2, <2>3 DEF Forgotten, Stream!Init, Pending
<1>3. Spec => []Forgotten
  BY <1>1, <1>2, StepForgotten, PTL DEF Spec
<1>4. TypeOK /\ Outstanding /\ Forgotten /\ [Next]_vars
        => [Stream!Next]_<<sent, Pending, received>>
  BY StepStream
<1>. QED
  BY <1>1, <1>2, <1>3, <1>4, PTL DEF Spec, ImplementsNotificationStream, Stream!Spec
-----------------------------------------------------------------------------
(* After a reconnect *)

Subscribed == ingest \in {"loop", "returned"}

\* A connection without subscriptions and without requests for one.
Deaf == Subscribed /\ active = {} /\ requests = <<>>

\* A reconnect after IngestLoop has subscribed leaves the client deaf, and it stays
\* so: the server has nothing to notify on a connection nobody subscribes on.
DeafAfterReconnect ==
  [][Deaf \/ (Subscribed /\ dialled' # dialled) => Deaf' /\ sent' = sent]_vars

\* Subscribe finds every program in the map and returns (alchemy_client.go:296):
\* what ReconnectWithBackoff calls a resubscription never subscribes, for any
\* programs, failures and number of reconnects.
THEOREM ReconnectIsDeaf == Spec => DeafAfterReconnect
<1> DEFINE Quiet == Deaf \/ (Subscribed /\ dialled' # dialled) => Deaf' /\ sent' = sent
<1>1. ASSUME [Next]_vars PROVE Quiet
  <2>1. Subscribed => Subscribed'
    BY <1>1 DEF Subscribed, Next, ClientNext, Server, ServerAnswers, ServerNotifies,
         ServerSendsOther, ConnectionBreaks, IngestStep, SendRequest, ReadResponse, StartReader,
         IngestReceive, IngestReturn, Return, ReaderStep, ReaderTop, ReaderReads, ReaderFails,
         ReaderPush, OwnerStep, Reconnect, Cooldown, Dial, Resubscribe, FailureAges, Stop, Cancel,
         ingestVars, vars
  <2>2. CASE Dial
    BY <2>1, <2>2 DEF Dial, ConnectSucceeds, ConnectFails, Deaf
  <2>3. CASE Server
    BY <2>1, <2>3 DEF Server, ServerAnswers, ServerNotifies, ServerSendsOther, ConnectionBreaks,
                      Deaf
  <2>4. CASE IngestStep
    <3>1. UNCHANGED <<dialled, active, sent>> /\ (Subscribed => requests' = requests)
      BY <2>4 DEF IngestStep, SendRequest, ReadResponse, StartReader, IngestReceive, IngestReturn,
                  serverVars, Subscribed
    <3>. QED BY <2>1, <3>1 DEF Deaf
  <2>5. CASE ReaderStep \/ (OwnerStep /\ ~Dial) \/ Cancel \/ UNCHANGED vars
    <3>1. UNCHANGED <<dialled, active, sent, requests>>
      BY <2>5 DEF ReaderStep, ReaderTop, ReaderEnds, Disconnect, ReaderReads, ReaderFails,
                  ReaderPush, Push, OwnerStep, Reconnect, Cooldown, Resubscribe, FailureAges,
                  Stop, Cancel, serverVars, vars
    <3>. QED BY <2>1, <3>1 DEF Deaf
  <2>. QED BY <1>1, <2>2, <2>3, <2>4, <2>5 DEF Next, ClientNext
<1>. QED BY <1>1, PTL DEF Spec, DeafAfterReconnect

-----------------------------------------------------------------------------
(* What the stream promises of what IngestLoop has received *)

Rising(q) == \A i, j \in 1 .. Len(q) : i < j => q[i] < q[j]

\* The notifications s, p and r stand for are numbered in the order they were
\* sent: those received come first, those pending next.
InOrder(s, p, r) ==
  /\ Rising(p) /\ Rising(r)
  /\ \A i \in 1 .. Len(p) : p[i] <= s
  /\ \A i \in 1 .. Len(r) : r[i] <= s
  /\ \A i \in 1 .. Len(r), j \in 1 .. Len(p) : r[i] < p[j]

\* What IngestLoop has received it has received once, in the order the server
\* sent it, and the server did send it.
ReceivedInOrder == Rising(received) /\ \A i \in 1 .. Len(received) : received[i] <= sent

LEMMA SendInOrder ==
  ASSUME NEW s \in Nat, NEW p \in Seq(Nat), NEW r \in Seq(Nat), InOrder(s, p, r),
         NEW q \in {p, Append(p, s + 1)}
  PROVE  InOrder(s + 1, q, r)
<1>1. /\ Len(p) \in Nat /\ Len(r) \in Nat
      /\ \A i \in 1 .. Len(p) : p[i] \in Nat
      /\ \A i \in 1 .. Len(r) : r[i] \in Nat
  OBVIOUS
<1>2. CASE q = p
  BY <1>1, <1>2 DEF InOrder
<1>3. CASE q = Append(p, s + 1)
  <2>1. /\ Len(q) = Len(p) + 1 /\ q[Len(p) + 1] = s + 1
        /\ \A i \in 1 .. Len(p) : q[i] = p[i]
    BY <1>3
  <2>2. \A i \in 1 .. Len(q) : i \in 1 .. Len(p) \/ i = Len(p) + 1
    BY <1>1, <2>1
  <2>3. ASSUME NEW i \in 1 .. Len(q), NEW j \in 1 .. Len(q), i < j PROVE q[i] < q[j]
    <3>1. i \in 1 .. Len(p)
      BY <1>1, <2>1, <2>3
    <3>2. CASE j \in 1 .. Len(p)
      BY <2>1, <2>3, <3>1, <3>2 DEF InOrder, Rising
    <3>3. CASE j = Len(p) + 1
      <4>1. p[i] <= s /\ p[i] \in Nat
        BY <1>1, <3>1 DEF InOrder
      <4>. QED BY <2>1, <3>1, <3>3, <4>1
    <3>. QED BY <2>2, <3>2, <3>3
  <2>4. ASSUME NEW i \in 1 .. Len(q) PROVE q[i] <= s + 1
    <3>1. CASE i \in 1 .. Len(p)
      <4>1. p[i] <= s /\ p[i] \in Nat
        BY <1>1, <3>1 DEF InOrder
      <4>. QED BY <2>1, <3>1, <4>1
    <3>. QED BY <2>1, <2>2, <3>1
  <2>5. ASSUME NEW i \in 1 .. Len(r), NEW j \in 1 .. Len(q) PROVE r[i] < q[j]
    <3>1. CASE j \in 1 .. Len(p)
      BY <2>1, <3>1 DEF InOrder
    <3>2. CASE j = Len(p) + 1
      <4>1. r[i] <= s /\ r[i] \in Nat
        BY <1>1 DEF InOrder
      <4>. QED BY <2>1, <3>2, <4>1
    <3>. QED BY <2>2, <3>1, <3>2
  <2>6. \A i \in 1 .. Len(r) : r[i] <= s + 1
    BY <1>1 DEF InOrder
  <2>7. Rising(q)
    BY <2>3 DEF Rising
  <2>. QED BY <2>4, <2>5, <2>6, <2>7 DEF InOrder
<1>. QED BY <1>2, <1>3

LEMMA ReceiveInOrder ==
  ASSUME NEW s \in Nat, NEW p \in Seq(Nat), NEW r \in Seq(Nat), InOrder(s, p, r), p # <<>>
  PROVE  InOrder(s, Tail(p), Append(r, Head(p)))
<1> DEFINE q == Tail(p)
           t == Append(r, Head(p))
<1>1. /\ Len(p) \in Nat \ {0} /\ Len(r) \in Nat /\ Head(p) = p[1]
      /\ \A i \in 1 .. Len(p) : p[i] \in Nat
      /\ \A i \in 1 .. Len(r) : r[i] \in Nat
  OBVIOUS
<1>2. /\ Len(q) = Len(p) - 1
      /\ \A i \in 1 .. Len(q) : q[i] = p[i + 1] /\ i + 1 \in 1 .. Len(p)
  BY <1>1
<1>3. /\ Len(t) = Len(r) + 1 /\ t[Len(r) + 1] = p[1]
      /\ \A i \in 1 .. Len(r) : t[i] = r[i]
  BY <1>1
<1>4. \A i \in 1 .. Len(t) : i \in 1 .. Len(r) \/ i = Len(r) + 1
  BY <1>1, <1>3
<1>5. 1 \in 1 .. Len(p)
  BY <1>1
<1> HIDE DEF q, t
<1>6. Rising(q)
  <2> SUFFICES ASSUME NEW i \in 1 .. Len(q), NEW j \in 1 .. Len(q), i < j PROVE q[i] < q[j]
    BY DEF Rising
  <2>1. i + 1 \in 1 .. Len(p) /\ j + 1 \in 1 .. Len(p) /\ i + 1 < j + 1
    BY <1>2
  <2>. QED BY <1>2, <2>1 DEF InOrder, Rising
<1>7. Rising(t)
  BY <1>1, <1>3, <1>4, <1>5 DEF InOrder, Rising
<1>8. \A i \in 1 .. Len(q) : q[i] <= s
  BY <1>2 DEF InOrder
<1>9. \A i \in 1 .. Len(t) : t[i] <= s
  BY <1>3, <1>4, <1>5 DEF InOrder
<1>10. \A i \in 1 .. Len(t), j \in 1 .. Len(q) : t[i] < q[j]
  <2> SUFFICES ASSUME NEW i \in 1 .. Len(t), NEW j \in 1 .. Len(q) PROVE t[i] < p[j + 1]
    BY <1>2
  <2>1. j + 1 \in 1 .. Len(p) /\ 1 < j + 1
    BY <1>2
  <2>2. CASE i \in 1 .. Len(r)
    BY <1>3, <2>1, <2>2 DEF InOrder
  <2>3. CASE i = Len(r) + 1
    BY <1>3, <1>5, <2>1, <2>3 DEF InOrder, Rising
  <2>. QED BY <1>4, <2>2, <2>3
<1>11. InOrder(s, q, t)
  BY <1>6, <1>7, <1>8, <1>9, <1>10 DEF InOrder
<1>. QED BY <1>11 DEF q, t

LEMMA LoseInOrder ==
  ASSUME NEW s \in Nat, NEW p \in Seq(Nat), NEW r \in Seq(Nat), InOrder(s, p, r),
         NEW k \in 0 .. Len(p) - 1
  PROVE  InOrder(s, SubSeq(p, 1, k), r)
<1> DEFINE q == SubSeq(p, 1, k)
<1>1. Len(p) \in Nat /\ k \in Nat /\ k < Len(p)
  OBVIOUS
<1>2. Len(q) = k /\ \A i \in 1 .. Len(q) : q[i] = p[i] /\ i \in 1 .. Len(p)
  BY <1>1
<1> HIDE DEF q
<1>3. Rising(q)
  BY <1>1, <1>2 DEF InOrder, Rising
<1>4. InOrder(s, q, r)
  BY <1>2, <1>3 DEF InOrder
<1>. QED BY <1>4 DEF q

\* Nothing is received twice, out of order or out of thin air, for any number of
\* notifications, programs and lost or replaced connections.
THEOREM ReceivedIsOrdered == Spec => []ReceivedInOrder
<1> DEFINE Inv == InOrder(sent, Pending, received)
<1>1. Init => Inv
  <2> SUFFICES ASSUME Init PROVE Inv
    OBVIOUS
  <2>1. wire = <<>> /\ channel = <<>> /\ notif = <<>> /\ received = <<>>
    BY DEF Init
  <2>2. Pending = <<>>
    <3>1. OnWire = <<>>
      BY <2>1, SelectEmpty DEF OnWire, Numbers
    <3>2. <<>> \o <<>> \o <<>> = <<>>
      OBVIOUS
    <3>. QED BY <2>1, <3>1, <3>2 DEF Pending
  <2>3. Len(<<>>) = 0 /\ 1 .. 0 = {}
    OBVIOUS
  <2>. QED BY <2>1, <2>2, <2>3 DEF InOrder, Rising
<1>2. TypeOK /\ Inv /\ [Stream!Next]_<<sent, Pending, received>> => Inv'
  <2> SUFFICES ASSUME TypeOK, InOrder(sent, Pending, received),
                      [Stream!Next]_<<sent, Pending, received>>
               PROVE  InOrder(sent', Pending', received')
    OBVIOUS
  <2>0. sent \in Nat /\ Pending \in Seq(Nat) /\ received \in Seq(Nat)
    BY PendingTypes, ClientAssumption DEF TypeOK
  <2>1. CASE Stream!Send
    <3>1. sent' = sent + 1 /\ Pending' \in {Pending, Append(Pending, sent + 1)}
          /\ received' = received
      BY <2>1 DEF Stream!Send
    <3>. QED BY <2>0, <3>1, SendInOrder
  <2>2. CASE Stream!Receive
    BY <2>0, <2>2, ReceiveInOrder DEF Stream!Receive
  <2>3. CASE Stream!Lose
    BY <2>0, <2>3, LoseInOrder DEF Stream!Lose
  <2>4. CASE UNCHANGED <<sent, Pending, received>>
    BY <2>4
  <2>. QED BY <2>1, <2>2, <2>3, <2>4 DEF Stream!Next
<1>3. Inv => ReceivedInOrder
  BY DEF InOrder, ReceivedInOrder
<1>. QED
  BY <1>1, <1>2, <1>3, TypeCorrect, ClientImplementsStream, PTL
     DEF Spec, ImplementsNotificationStream, Stream!Spec

-----------------------------------------------------------------------------
(* The process (Service.tla), in which nobody calls ReconnectWithBackoff or Stop *)

\* There is the connection of Connect and no other; while it can be read the
\* client has it.
OneConnection ==
  /\ owner = "idle" /\ dialled = 1
  /\ conn \in {0, 1} /\ (conn = 0 => ~up)

\* What was lost with the connection stays lost.
NotRevived == [][~up => ~up' /\ sent' = sent]_vars

LEMMA StepOneConnection ==
  ASSUME ~Exported, OneConnection, [Next]_vars
  PROVE  OneConnection' /\ (~up => ~up' /\ sent' = sent)
<1>1. CASE Server
  BY <1>1 DEF Server, ServerAnswers, ServerNotifies, ServerSendsOther, ConnectionBreaks,
              clientVars, ownerVars, OneConnection
<1>2. CASE IngestStep
  BY <1>2 DEF IngestStep, SendRequest, ReadResponse, ReadAnswer, ReadOther, ReadNothing, HangUp,
              StartReader, IngestReceive, IngestReturn, clientVars, ownerVars, serverVars,
              OneConnection
<1>3. CASE ReaderStep
  <2>1. UNCHANGED <<owner, dialled, sent>>
    BY <1>3 DEF ReaderStep, ReaderTop, ReaderEnds, Disconnect, ReaderReads, ReaderFails, ReaderPush,
                Push, ownerVars, serverVars
  <2>2. \/ UNCHANGED <<conn, up>>
        \/ conn' \in {0, conn} /\ up' = FALSE
        \/ conn' = 0 /\ up' = up /\ conn = 0
    BY <1>3 DEF ReaderStep, ReaderTop, ReaderEnds, Disconnect, HangUp, ReaderReads, ReaderFails,
                ReaderPush, Push, clientVars, serverVars, OneConnection
  <2>. QED BY <2>1, <2>2 DEF OneConnection
<1>4. CASE OwnerStep
  <2>1. FailureAges
    BY <1>4 DEF OwnerStep, Reconnect, Cooldown, Dial, Resubscribe, Stop, OneConnection
  <2>. QED BY <2>1 DEF FailureAges, clientVars, serverVars, OneConnection
<1>5. CASE Cancel \/ UNCHANGED vars
  BY <1>5 DEF Cancel, vars, clientVars, ownerVars, serverVars, OneConnection
<1>. QED BY <1>1, <1>2, <1>3, <1>4, <1>5 DEF Next, ClientNext

LEMMA AlwaysOneConnection == ASSUME ~Exported PROVE Spec => []OneConnection
<1>1. Init => OneConnection
  BY DEF Init, OneConnection
<1>2. OneConnection /\ [Next]_vars => OneConnection'
  BY StepOneConnection
<1>. QED BY <1>1, <1>2, PTL DEF Spec

\* The program never reconnects: without a caller of ReconnectWithBackoff a lost
\* connection is never replaced, and the server has nobody to notify any more.
THEOREM LostForGood == ASSUME ~Exported PROVE Spec => NotRevived
<1>1. OneConnection /\ [Next]_vars => [~up => ~up' /\ sent' = sent]_vars
  BY StepOneConnection
<1>. QED BY <1>1, AlwaysOneConnection, PTL DEF Spec, NotRevived

\* A step of the process is a step of the client, with the cancel function of a
\* signal or of the group as its Cancel, or does not concern it.
LEMMA ServiceStep ==
  ASSUME ~Exported, OneConnection, cancelled \in BOOLEAN, [ServiceNext]_<<vars, serviceVars>>
  PROVE  [Next]_vars /\ cancelled' \in BOOLEAN
<1> SUFFICES [Next]_vars
  BY DEF Next, ClientNext, Server, ServerAnswers, ServerNotifies, ServerSendsOther,
         ConnectionBreaks, IngestStep, SendRequest, ReadResponse, StartReader, IngestReceive,
         IngestReturn, ReaderStep, ReaderTop, ReaderReads, ReaderFails, ReaderPush, OwnerStep,
         Reconnect, Cooldown, Dial, Resubscribe, FailureAges, Stop, Cancel, ends, vars
<1>1. Running
  BY DEF Running, OneConnection
<1>2. CASE PathNext
  BY <1>2 DEF PathNext, Next
<1>3. CASE GroupCancel
  BY <1>1, <1>3 DEF GroupCancel, Next
<1>4. CASE Signal
  <2>1. CASE cancelled' = cancelled
    BY <1>4, <2>1 DEF Signal, vars, ends
  <2>2. CASE cancelled' # cancelled
    <3>1. ~cancelled /\ cancelled' = TRUE
      BY <1>4, <2>2 DEF Signal
    <3>. QED BY <1>1, <1>4, <3>1 DEF Signal, Cancel, Next
  <2>. QED BY <2>1, <2>2
<1>5. CASE \/ EnrichReturn \/ MetricsReturn
           \/ \E r \in Posts : Post(r) \/ Serve(r)
           \/ MainStep \/ ListenFails
  BY <1>5 DEF EnrichReturn, MetricsReturn, Post, Serve, MainStep, Join, StopFetcher, Drain, Exit,
              ListenFails
<1>6. CASE UNCHANGED <<vars, serviceVars>>
  BY <1>6
<1>. QED BY <1>2, <1>3, <1>4, <1>5, <1>6 DEF ServiceNext, MemberStep

\* In the process the client behaves as it does on its own, so that every theorem
\* above is one about the process: what main, the group and the webhook server do
\* can cancel the client's context and nothing else of it.
THEOREM ServiceRunsClient == ASSUME ~Exported PROVE ServiceSpec => Spec
<1> DEFINE Inv == OneConnection /\ cancelled \in BOOLEAN
<1>1. ServiceInit => Init /\ Inv
  <2>1. ServiceInit => Init
    BY DEF ServiceInit
  <2>2. Init => OneConnection
    BY DEF Init, OneConnection
  <2>3. Init => cancelled \in BOOLEAN
    BY DEF Init
  <2>. QED BY <2>1, <2>2, <2>3
<1>2. Inv /\ [ServiceNext]_<<vars, serviceVars>> => Inv' /\ [Next]_vars
  BY ServiceStep, StepOneConnection
<1>. QED BY <1>1, <1>2, PTL DEF ServiceSpec, Spec

-----------------------------------------------------------------------------
(* The shutdown *)

PathReturned == alchemy = "on" => ingest = "returned" /\ ~enriching /\ ~metering

Answered == \A r \in Posts : posts[r] \in {"none", "answered"}

\* The order of the shutdown: the fetcher is stopped once the members of the
\* group have returned, the listener is closed after the fetcher, and when main
\* returns (os.Exit apart, which finds the listener open) every request it has
\* accepted is answered.
ShutdownInOrder ==
  /\ ~fetching => PathReturned
  /\ ~listening => ~fetching
  /\ phase = "exited" /\ ~listening => Answered

\* What each phase of main knows.
Phases ==
  /\ phase \in {"joined", "stopped", "draining"} => PathReturned
  /\ phase \in {"serving", "joining", "joined"} => fetching
  /\ phase # "exited" => (listening <=> phase # "draining")
  /\ phase \in {"stopped", "draining"} => ~fetching

LEMMA StepShutdown ==
  ASSUME Phases, ShutdownInOrder, [ServiceNext]_<<vars, serviceVars>>
  PROVE  Phases' /\ ShutdownInOrder'
<1> USE DEF Phases, ShutdownInOrder, PathReturned, Answered
<1>1. CASE PathNext
  <2>1. ingest = "returned" => ingest' = "returned"
    BY <1>1 DEF PathNext, ClientNext, Server, ServerAnswers, ServerNotifies, ServerSendsOther,
                ConnectionBreaks, IngestStep, SendRequest, ReadResponse, StartReader,
                IngestReceive, IngestReturn, Return, ReaderStep, ReaderTop, ReaderReads,
                ReaderFails, ReaderPush, OwnerStep, Reconnect, Cooldown, Dial, Resubscribe,
                FailureAges, Stop, ingestVars
  <2>. QED BY <1>1, <2>1 DEF PathNext, serviceVars, members, web
<1>2. CASE MemberStep
  BY <1>2 DEF MemberStep, GroupCancel, Cancel, EnrichReturn, MetricsReturn, vars, ingestVars,
              serviceVars, members, web
<1>3. ASSUME NEW r \in Posts, Post(r) \/ Serve(r), phase # "exited"
      PROVE  Phases' /\ ShutdownInOrder'
  BY <1>3 DEF Post, Serve, vars, ingestVars, members
<1>4. CASE Signal
  BY <1>4 DEF Signal, ingestVars, members, web
<1>5. CASE Join
  BY <1>5 DEF Join, vars, ingestVars, members, web
<1>6. CASE StopFetcher
  BY <1>6 DEF StopFetcher, vars, ingestVars, members
<1>7. CASE Drain
  BY <1>7 DEF Drain, vars, ingestVars, members
<1>8. CASE Exit
  BY <1>8 DEF Exit, vars, ingestVars, members, web
<1>9. CASE ListenFails
  BY <1>9 DEF ListenFails, vars, ingestVars, members, web
<1>10. CASE UNCHANGED <<vars, serviceVars>>
  BY <1>10 DEF vars, ingestVars, serviceVars, members, web
<1>. QED BY <1>1, <1>2, <1>3, <1>4, <1>5, <1>6, <1>7, <1>8, <1>9, <1>10 DEF ServiceNext, MainStep

\* The shutdown keeps its order and cuts no accepted request short, wherever a
\* signal finds the process; with and without the Alchemy path.
THEOREM ShutdownIsOrderly == ServiceSpec => []ShutdownInOrder
<1>1. ServiceInit => Phases /\ ShutdownInOrder
  BY DEF ServiceInit, Phases, ShutdownInOrder
<1>2. Phases /\ ShutdownInOrder /\ [ServiceNext]_<<vars, serviceVars>>
        => Phases' /\ ShutdownInOrder'
  BY StepShutdown
<1>. QED BY <1>1, <1>2, PTL DEF ServiceSpec

=============================================================================
