----------------------------- MODULE ModelRequests -----------------------------
(***************************************************************************)
(* Requests to models (aicoder/model_transport.py and the transports of    *)
(* aicoder/account_providers.py).  The agents of a team share one routing  *)
(* transport.  It makes a transport for a provider when the first request  *)
(* needs it, and gives every request a resource of its own: an HTTP        *)
(* response, a provider's command line client, or a provider's server that *)
(* first has to shake hands.  An agent waits in a thread of its own and,   *)
(* when it is stopped, walks over the transports to cancel its request.    *)
(*                                                                         *)
(* What is asked and answered is left out.  Requests that the routing      *)
(* leaves to the backend are those of ClientSession.                       *)
(***************************************************************************)
EXTENDS Naturals, Sequences, FiniteSets

CONSTANTS
  Askers,      \* agents, of one team, that share the model client
  Providers,   \* providers with a transport of their own
  TransportOf, \* "http" (a key in the keyring), "cli" or "server" (a linked account)
  MaxAsks,     \* bound: requests
  MaxKeys      \* bound: keys the user enters

AskId == 1..MaxAsks
AccountProviders == {p \in Providers : TransportOf[p] # "http"}

ASSUME RequestsAssumption ==
  /\ TransportOf \in [Providers -> {"http", "cli", "server"}]
  /\ MaxAsks \in Nat /\ MaxKeys \in Nat

VARIABLES
  asks,    \* requests, in the order they were made
  waits,   \* of every agent, the request it waits for (0: none), and how
  routes,  \* of every provider, its transport, named by the request it was made for; 0: none
  keyring, \* the key of the HTTP providers, counted
  madeWith, \* the key every transport was made with
  timeout  \* the timeout of the shared client: 0, its own, or the one of a request

requestVars == <<asks, waits, routes, keyring, madeWith, timeout>>

WaitingFor(r, how) == [ask |-> r, how |-> how, seen |-> {}]
NotWaiting == WaitingFor(0, "idle")

RequestsInit ==
  /\ asks = <<>> /\ waits = [a \in Askers |-> NotWaiting]
  /\ routes = [p \in Providers |-> 0] /\ keyring = 0
  /\ madeWith = [t \in AskId |-> 0] /\ timeout = 0

--------------------------------------------------------------------------------
AskGoes(r, at) == asks' = [asks EXCEPT ![r].at = at]
ProviderOf(r) == asks[r].to
AskIds == DOMAIN asks
routing == <<routes, keyring, madeWith>>

\* _chat_interruptibly() starts a thread; chat_with_timeout() keeps the client's timeout
\* there and sets the request's.
AskModel(a, p) ==
  /\ waits[a] = NotWaiting /\ Len(asks) < MaxAsks
  /\ LET r == Len(asks) + 1
     IN /\ asks' = Append(asks, [to |-> p, at |-> "route", via |-> 0, before |-> timeout,
                                 open |-> FALSE, listed |-> FALSE, cut |-> FALSE, alone |-> FALSE])
        /\ waits' = [waits EXCEPT ![a] = WaitingFor(r, "waits")] /\ timeout' = r
  /\ UNCHANGED routing

\* The transport that is kept for the provider; one whose key is not the keyring's any
\* more is not used.
Kept(p) ==
  IF routes[p] # 0 /\ (TransportOf[p] = "http" => madeWith[routes[p]] = keyring)
  THEN routes[p] ELSE 0

Route(r) ==
  /\ asks[r].at = "route"
  /\ IF Kept(ProviderOf(r)) = 0 THEN AskGoes(r, "make")
     ELSE asks' = [asks EXCEPT ![r].at = "open", ![r].via = Kept(ProviderOf(r))]
  /\ UNCHANGED <<waits, routing, timeout>>

\* _transport(), _transport_for_model(): without a lock, so that two requests may each
\* make one.
MakeTransport(r) ==
  /\ asks[r].at = "make"
  /\ routes' = [routes EXCEPT ![ProviderOf(r)] = r]
  /\ madeWith' = [madeWith EXCEPT ![r] = keyring]
  /\ asks' = [asks EXCEPT ![r].at = "open", ![r].via = r]
  /\ UNCHANGED <<waits, keyring, timeout>>

Uses(r, kind) == TransportOf[ProviderOf(r)] = kind

\* The account is not linked or not signed in, or its client program is missing or does
\* not start.
AccountRefused(r) ==
  /\ asks[r].at = "open" /\ ~Uses(r, "http") /\ AskGoes(r, "restore")
  /\ UNCHANGED <<waits, routing, timeout>>

\* The provider answers with an error, or cannot be reached.
HttpRefused(r) ==
  /\ asks[r].at = "open" /\ Uses(r, "http") /\ AskGoes(r, "restore")
  /\ UNCHANGED <<waits, routing, timeout>>

\* urlopen() returns with the head of the answer.
OpenHttp(r) ==
  /\ asks[r].at = "open" /\ Uses(r, "http")
  /\ asks' = [asks EXCEPT ![r].at = "list", ![r].open = TRUE]
  /\ UNCHANGED <<waits, routing, timeout>>

\* The provider's client program is started with the conversation.
StartProgram(r) ==
  /\ asks[r].at = "open" /\ Uses(r, "cli")
  /\ asks' = [asks EXCEPT ![r].at = "list", ![r].open = TRUE]
  /\ UNCHANGED <<waits, routing, timeout>>

\* CodexAppServer(): its constructor starts the server and talks to it.
StartServer(r) ==
  /\ asks[r].at = "open" /\ Uses(r, "server")
  /\ asks' = [asks EXCEPT ![r].at = "handshake", ![r].open = TRUE]
  /\ UNCHANGED <<waits, routing, timeout>>

Handshake(r) ==
  /\ asks[r].at = "handshake" /\ AskGoes(r, "list")
  /\ UNCHANGED <<waits, routing, timeout>>

\* It fails before there is an object to close.
HandshakeFails(r) ==
  /\ asks[r].at = "handshake"
  /\ asks' = [asks EXCEPT ![r].at = "restore", ![r].alone = TRUE]
  /\ UNCHANGED <<waits, routing, timeout>>

\* From here a cancel finds the request.
List(r) ==
  /\ asks[r].at = "list"
  /\ asks' = [asks EXCEPT ![r].at = "read", ![r].listed = TRUE]
  /\ UNCHANGED <<waits, routing, timeout>>

\* Mutant: the client program that runs out of time is left to itself.
ProgramTimesOut_Leaves(r) ==
  /\ asks[r].at = "read" /\ Uses(r, "cli")
  /\ asks' = [asks EXCEPT ![r].at = "restore", ![r].listed = FALSE]
  /\ UNCHANGED <<waits, routing, timeout>>

\* communicate() runs out of time: the program is killed, and waited for.
ProgramTimesOut(r) ==
  /\ asks[r].at = "read" /\ Uses(r, "cli")
  /\ asks' = [asks EXCEPT ![r].at = "finish", ![r].open = FALSE]
  /\ UNCHANGED <<waits, routing, timeout>>

\* The client program has ended, by itself or by a cancel.
ReadProgram(r) ==
  /\ asks[r].at = "read" /\ Uses(r, "cli")
  /\ asks' = [asks EXCEPT ![r].at = "finish", ![r].open = FALSE]
  /\ UNCHANGED <<waits, routing, timeout>>

\* The answer is read, or the connection fails or was cut.
ReadHttp(r) ==
  /\ asks[r].at = "read" /\ Uses(r, "http") /\ AskGoes(r, "finish")
  /\ UNCHANGED <<waits, routing, timeout>>

\* The turn is complete, or fails: in time, in what it answers, in what it tries to do.
ReadServer(r) ==
  /\ asks[r].at = "read" /\ Uses(r, "server") /\ AskGoes(r, "finish")
  /\ UNCHANGED <<waits, routing, timeout>>

\* The `finally' of the transports: take the request off the list if it is still on it,
\* and close what it used.
FinishRequest(r) ==
  /\ asks[r].at = "finish"
  /\ asks' = [asks EXCEPT ![r].at = "restore", ![r].listed = FALSE, ![r].open = FALSE]
  /\ UNCHANGED <<waits, routing, timeout>>

\* chat_with_timeout(): set the timeout that was found.
RestoreTimeout(r) ==
  /\ asks[r].at = "restore"
  /\ asks' = [asks EXCEPT ![r].at = "over", ![r].before = 0]
  /\ timeout' = asks[r].before /\ UNCHANGED <<waits, routing>>

\* The thread is over, and the agent goes on with the result.
TakeResult(a) ==
  /\ waits[a].how = "waits" /\ asks[waits[a].ask].at = "over"
  /\ waits' = [waits EXCEPT ![a] = NotWaiting]
  /\ UNCHANGED <<asks, routing, timeout>>

--------------------------------------------------------------------------------
\* _stopped() while the thread is alive: the walk over the accounts' transports begins.
RoutedAccounts == {p \in AccountProviders : routes[p] # 0}
StopAsker(a) ==
  /\ waits[a].how = "waits" /\ asks[waits[a].ask].at # "over"
  /\ waits' = [waits EXCEPT ![a].how = "accounts", ![a].seen = RoutedAccounts]
  /\ UNCHANGED <<asks, routing, timeout>>

\* Mutant: a cancel without the request's identity closes whatever the transport lists.
Cut_All(r) ==
  asks' = [s \in AskIds |->
    IF asks[s].listed /\ asks[s].via = asks[r].via
    THEN [asks[s] EXCEPT !.listed = FALSE, !.open = FALSE, !.cut = TRUE] ELSE asks[s]]

\* cancel_current_request(request_id) of a transport: take the request off the list and
\* close its response, or end its process.
Cut(r) ==
  IF asks[r].listed
  THEN asks' = [asks EXCEPT ![r].listed = FALSE, ![r].open = FALSE, ![r].cut = TRUE]
  ELSE UNCHANGED asks

\* Only the transports that are kept are walked over.
Reached(r) == routes[ProviderOf(r)] = asks[r].via

AskerLeaves(a) == waits' = [waits EXCEPT ![a] = NotWaiting]

\* A transport that was added meanwhile ends the walk with an error, which is ignored.
WalkBreaks(a) ==
  /\ waits[a].how \in {"accounts", "walked"} /\ waits[a].seen # RoutedAccounts
  /\ AskerLeaves(a) /\ UNCHANGED <<asks, routing, timeout>>

CancelAccount(a) ==
  /\ waits[a].how = "accounts" /\ waits[a].seen = RoutedAccounts
  /\ LET r == waits[a].ask
     IN IF Reached(r) /\ ProviderOf(r) \in AccountProviders THEN Cut(r) ELSE UNCHANGED asks
  /\ waits' = [waits EXCEPT ![a].how = "walked"]
  /\ UNCHANGED <<routing, timeout>>

\* Then the transports of ProviderRoutingTransport; then InterruptedError.
CancelDirect(a) ==
  /\ waits[a].how = "walked" /\ waits[a].seen = RoutedAccounts
  /\ LET r == waits[a].ask
     IN IF Reached(r) /\ ProviderOf(r) \notin AccountProviders THEN Cut(r) ELSE UNCHANGED asks
  /\ AskerLeaves(a) /\ UNCHANGED <<routing, timeout>>

\* set_provider_api_key(): the user enters another key.
EnterKey ==
  /\ keyring < MaxKeys /\ keyring' = keyring + 1
  /\ UNCHANGED <<asks, waits, routes, madeWith, timeout>>

AskStep(r) ==
  \/ Route(r) \/ MakeTransport(r) \/ AccountRefused(r) \/ HttpRefused(r)
  \/ OpenHttp(r) \/ StartProgram(r) \/ StartServer(r) \/ Handshake(r) \/ HandshakeFails(r)
  \/ List(r) \/ ProgramTimesOut(r) \/ ReadProgram(r) \/ ReadHttp(r) \/ ReadServer(r)
  \/ FinishRequest(r) \/ RestoreTimeout(r)

AskerStep(a) ==
  \/ \E p \in Providers : AskModel(a, p)
  \/ TakeResult(a) \/ StopAsker(a) \/ WalkBreaks(a) \/ CancelAccount(a) \/ CancelDirect(a)

RequestsNext ==
  \/ \E r \in AskIds : AskStep(r)
  \/ \E a \in Askers : AskerStep(a)
  \/ EnterKey

RequestsSpec == RequestsInit /\ [][RequestsNext]_requestVars

--------------------------------------------------------------------------------
\* Whoever is stopped, a request is cut only after its own agent was stopped while it
\* waited for it: the agents beside it on the same transport keep theirs.
Waited(r) == \E a \in Askers : waits[a].ask = r /\ waits[a].how = "waits"
OnlyTheStopped == \A r \in AskIds : asks[r].cut => ~Waited(r)

\* When a request is over, whether answered, failed, timed out or cancelled at whatever
\* moment, nothing it has opened is left: but for the server that did not shake hands,
\* which nobody closes.
NothingStaysOpen ==
  \A r \in AskIds : asks[r].at \in {"restore", "over"} /\ ~asks[r].alone => ~asks[r].open
================================================================================
