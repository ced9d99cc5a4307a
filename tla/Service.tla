------------------------------ MODULE Service ------------------------------
(***************************************************************************)
(* The process (cmd/main.go): the webhook server, the optional Alchemy     *)
(* path as an errgroup of three goroutines, and the shutdown.  IngestLoop  *)
(* and ReadLoop are those of AlchemyClient, whose variable cancelled is    *)
(* the context of the group; the enrichment workers, modelled in           *)
(* Enrichment, are here only running or returned.                          *)
(***************************************************************************)
EXTENDS AlchemyClient

CONSTANT Posts   \* webhook requests in a behaviour

VARIABLES
  alchemy,     \* "off": not configured, "failed": Connect failed, "on"
  phase,       \* main: "serving", "joining", "joined", "stopped", "draining", "exited"
  enriching,   \* EnrichLoop has not returned
  metering,    \* the metrics loop has not returned
  fetching,    \* the metadata fetcher has not been stopped
  listening,   \* the webhook server accepts requests
  posts        \* request: "none", "lookup", "ingest" or "answered"

members == <<enriching, metering>>
web == <<fetching, listening, posts>>
serviceVars == <<alchemy, phase, members, web>>

\* main has started the servers and, if it is configured and the connection
\* could be made, the three members of the group.
ServiceInit ==
  /\ Init
  /\ alchemy \in {"off", "failed", "on"}
  /\ phase = "serving"
  /\ enriching = (alchemy = "on") /\ metering = (alchemy = "on")
  /\ fetching = TRUE /\ listening = TRUE
  /\ posts = [r \in Posts |-> "none"]

-----------------------------------------------------------------------------
(* The group *)

\* One of the members has returned, each of them with an error; the group's
\* context, of which the members' contexts are children, is cancelled.
GroupCancel ==
  /\ ingest = "returned" \/ ~enriching \/ ~metering
  /\ Cancel
  /\ UNCHANGED serviceVars

\* EnrichLoop returns when its workers have (Enrichment: WorkersStop).
EnrichReturn ==
  /\ cancelled /\ enriching
  /\ enriching' = FALSE
  /\ UNCHANGED <<vars, alchemy, phase, metering, web>>

MetricsReturn ==
  /\ cancelled /\ metering
  /\ metering' = FALSE
  /\ UNCHANGED <<vars, alchemy, phase, enriching, web>>

MemberStep == GroupCancel \/ EnrichReturn \/ MetricsReturn

-----------------------------------------------------------------------------
(* The webhook server *)

Post(r) ==
  /\ listening /\ posts[r] = "none"
  /\ posts' = [posts EXCEPT ![r] = "lookup"]
  /\ UNCHANGED <<vars, alchemy, phase, members, fetching, listening>>

\* The request's wait for metadata ends: after two seconds at most, at once when
\* the fetcher is stopped; then its swaps enter the engine and it is answered.
Serve(r) ==
  /\ \/ posts[r] = "lookup" /\ posts' = [posts EXCEPT ![r] = "ingest"]
     \/ posts[r] = "ingest" /\ posts' = [posts EXCEPT ![r] = "answered"]
  /\ UNCHANGED <<vars, alchemy, phase, members, fetching, listening>>

-----------------------------------------------------------------------------
(* main *)

\* Bug: the cancel functions are not kept.
SignalOnly ==
  /\ phase = "serving"
  /\ phase' = "joining"
  /\ UNCHANGED <<vars, alchemy, members, web>>

\* A signal: main calls the cancel functions of the members.
Signal ==
  /\ phase = "serving"
  /\ phase' = "joining"
  /\ cancelled' = (cancelled \/ alchemy = "on")
  /\ UNCHANGED <<clientVars, channel, ingestVars, readerVars, ownerVars, serverVars, stopped,
                 alchemy, members, web>>

\* eg.Wait(), which ReadLoop is no member of.
Join ==
  /\ phase = "joining"
  /\ alchemy = "on" => ingest = "returned" /\ ~enriching /\ ~metering
  /\ phase' = "joined"
  /\ UNCHANGED <<vars, alchemy, members, web>>

StopFetcher ==
  /\ phase = "joined"
  /\ phase' = "stopped" /\ fetching' = FALSE
  /\ UNCHANGED <<vars, alchemy, members, listening, posts>>

\* app.Shutdown() closes the listener and waits for the requests in flight.
Drain ==
  /\ phase = "stopped"
  /\ phase' = "draining" /\ listening' = FALSE
  /\ UNCHANGED <<vars, alchemy, members, fetching, posts>>

Exit ==
  /\ phase = "draining"
  /\ \A r \in Posts : posts[r] \in {"none", "answered"}
  /\ phase' = "exited"
  /\ UNCHANGED <<vars, alchemy, members, web>>

\* One of the two servers cannot listen: os.Exit(1).
ListenFails ==
  /\ listening
  /\ phase' = "exited"
  /\ UNCHANGED <<vars, alchemy, members, web>>

MainStep == Join \/ StopFetcher \/ Drain \/ Exit

-----------------------------------------------------------------------------
\* The goroutines of the Alchemy path.
PathNext == ClientNext /\ UNCHANGED serviceVars

ServiceNext ==
  /\ phase # "exited"
  /\ \/ alchemy = "on" /\ (PathNext \/ MemberStep)
     \/ \E r \in Posts : Post(r) \/ Serve(r)
     \/ Signal \/ MainStep \/ ListenFails

ServiceSpec == ServiceInit /\ [][ServiceNext]_<<vars, serviceVars>>

Alive == phase # "exited"
OnPath == Alive /\ alchemy = "on"

\* Goroutines that are never blocked for good: the client's reads have
\* deadlines, a request waits for two seconds at most, and main waits only for
\* them.  Nothing is assumed of clients, of the server or of a signal.
FairServiceSpec ==
  /\ ServiceSpec
  /\ WF_<<vars, serviceVars>>(OnPath /\ IngestStep /\ UNCHANGED serviceVars)
  /\ WF_<<vars, serviceVars>>(OnPath /\ ReaderStep /\ UNCHANGED serviceVars)
  /\ WF_<<vars, serviceVars>>(OnPath /\ GroupCancel)
  /\ WF_<<vars, serviceVars>>(OnPath /\ EnrichReturn)
  /\ WF_<<vars, serviceVars>>(OnPath /\ MetricsReturn)
  /\ WF_<<vars, serviceVars>>(Alive /\ \E r \in Posts : Serve(r))
  /\ WF_<<vars, serviceVars>>(Alive /\ MainStep)

-----------------------------------------------------------------------------
(* Properties *)

\* "Graceful shutdown completes without hangs." (README.md:355): after a signal
\* main returns, wherever IngestLoop is, in the middle of a subscription too,
\* and whatever requests are being served.
ShutdownCompletes == phase = "joining" ~> phase = "exited"

\* The members of the group have returned and ReadLoop, if it was started, has
\* given its connection back.
PathOver ==
  /\ ingest = "returned" /\ ~enriching /\ ~metering
  /\ reader = "none" \/ (closed /\ conn = 0)

\* A lost connection ends the whole Alchemy path and nothing waits for ever for
\* notifications; so does the end of the context (alchemy_client.go:190, 224-232).
PathEnds == alchemy = "on" /\ (~up \/ cancelled) ~> PathOver \/ ~Alive
=============================================================================
