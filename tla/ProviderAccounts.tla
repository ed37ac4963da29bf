---------------------------- MODULE ProviderAccounts ----------------------------
(***************************************************************************)
(* Accounts of model providers (aicoder/account_providers.py).  Whether an *)
(* account is signed in is known to the provider's own client program and, *)
(* for certain, to its server only; AICoder keeps which accounts are       *)
(* linked.  The settings window connects and disconnects accounts, asks    *)
(* for their status and takes them from the list when a client says that   *)
(* they are signed out; agents use them, find out that a session was       *)
(* revoked or a quota is exhausted, and turn to another account.           *)
(*                                                                         *)
(* The clients and servers are modelled from how they are used.  Of the    *)
(* five providers those are modelled that differ: Claude, whose client     *)
(* believes in a session the server has revoked; ChatGPT, whose status is  *)
(* an error when its client fails; Gemini, whose client asks the server.   *)
(***************************************************************************)
EXTENDS Naturals, FiniteSets

CONSTANTS
  Accounts,      \* of "claude", "chatgpt", "gemini"
  AccountUsers,  \* threads: workers of the settings window, agents
  MaxAccountOps, \* bound: what they do
  MaxSessions    \* bound: sessions of an account

ASSUME AccountsAssumption ==
  /\ Accounts \subseteq {"claude", "chatgpt", "gemini"}
  /\ MaxAccountOps \in Nat /\ MaxSessions \in Nat \ {0}

VARIABLES
  linked,    \* linked_account_providers
  signedIn,   \* of every account, its last session: signed in, revoked or signed out
  exhausted, \* accounts whose quota is known to be used up
  acts,      \* what every thread is doing
  accountOps,
  \* History: sessions the server has refused in a request; the session each link was made
  \* for; whether two threads crossed: the list was written between another's reading and
  \* writing of it, or a session was refused between being accepted and being linked.
  refused, linkedFor, overlapped

accountVars ==
  <<linked, signedIn, exhausted, acts, accountOps, refused, linkedFor, overlapped>>

Inactive == [what |-> "none", at |-> "idle", on |-> "claude", marked |-> FALSE,
             list |-> {}, add |-> FALSE, of |-> 0, then |-> "end"]

AccountsInit ==
  /\ linked \in SUBSET Accounts
  /\ signedIn = [p \in Accounts |-> [nr |-> 1, state |-> IF p \in linked THEN "in" ELSE "out"]]
  /\ exhausted = {} /\ acts = [u \in AccountUsers |-> Inactive] /\ accountOps = 0
  /\ refused = {} /\ linkedFor = [p \in Accounts |-> 1] /\ overlapped = FALSE

--------------------------------------------------------------------------------
On(u) == acts[u].on
ActGoes(u, at) == acts' = [acts EXCEPT ![u].at = at]
ActEnds(u) == acts' = [acts EXCEPT ![u] = Inactive]
listing == <<linked, exhausted, overlapped, linkedFor>>
outside == <<signedIn, refused>>
\* How far the client of an account knows of its session.
Believes(p) == IF p = "gemini" THEN signedIn[p].state = "in" ELSE signedIn[p].state # "out"

ActStarts(u, what, p, at) ==
  /\ acts[u] = Inactive /\ accountOps < MaxAccountOps /\ accountOps' = accountOps + 1
  /\ acts' = [acts EXCEPT ![u] = [Inactive EXCEPT !.what = what, !.on = p, !.at = at,
                                    !.marked = p \in linked]]
  /\ UNCHANGED <<listing, outside>>

\* The status of an account is asked for by the window, or before an agent uses it.
StatusStarts(u, p) == ActStarts(u, "status", p, "probe")
ChatStarts(u, p) == ActStarts(u, "chat", p, "quota?")

\* reroute_account_model_if_unavailable(): an account whose quota is known to be used up
\* is left for another one; any other trouble is not.
Reroute(u) ==
  /\ acts[u].at = "quota?" /\ On(u) \in exhausted /\ Believes(On(u))
  /\ \E q \in Accounts \ ({On(u)} \cup exhausted) :
       acts' = [acts EXCEPT ![u].on = q, ![u].marked = q \in linked, ![u].at = "probe"]
  /\ UNCHANGED <<listing, outside, accountOps>>

KeepAccount(u) ==
  /\ acts[u].at = "quota?" /\ ActGoes(u, "probe")
  /\ UNCHANGED <<listing, outside, accountOps>>

\* set_provider_linked(): the list is read here, and written in a later step.
WithList(u, add) ==
  LET s == <<On(u), signedIn[On(u)].nr>>
  IN [acts[u] EXCEPT !.at = "write", !.list = linked, !.add = add,
                     !.of = IF add /\ s \notin refused THEN s[2] ELSE 0]
TakesList(u, add) == acts' = [acts EXCEPT ![u] = WithList(u, add)]

\* Mutant: what is signed in counts as linked.
Probed_Relinks(u, believed) ==
  IF acts[u].marked # believed THEN TakesList(u, believed) ELSE
  IF acts[u].marked /\ acts[u].what = "chat" THEN ActGoes(u, "ask") ELSE ActEnds(u)

\* An account that is linked and signed out is taken from the list; one that is signed in
\* and not linked stays off it.
Probed(u, believed) ==
  IF acts[u].marked /\ ~believed THEN TakesList(u, FALSE) ELSE
  IF acts[u].marked /\ acts[u].what = "chat" THEN ActGoes(u, "ask") ELSE ActEnds(u)

\* account_status().  A client that cannot be asked in time counts as signed out.
StatusProbe(u) ==
  /\ acts[u].at = "probe" /\ On(u) # "chatgpt"
  /\ \E believed \in {Believes(On(u)), FALSE} : Probed(u, believed)
  /\ UNCHANGED <<listing, outside, accountOps>>

\* _chatgpt_status(): a client that cannot be asked is an error, and the list is looked at
\* only after the client was.
ChatGPTProbe(u) ==
  /\ acts[u].at = "probe" /\ On(u) = "chatgpt" /\ ActGoes(u, "probed")
  /\ UNCHANGED <<listing, outside, accountOps>>

ChatGPTProbed(u) ==
  /\ acts[u].at = "probed"
  /\ \/ ActEnds(u)
     \/ /\ "chatgpt" \in linked
        /\ IF ~Believes("chatgpt") THEN TakesList(u, FALSE) ELSE
           IF acts[u].what = "chat" THEN ActGoes(u, "ask") ELSE ActEnds(u)
  /\ UNCHANGED <<listing, outside, accountOps>>

\* The rest of set_provider_linked(): the whole list is replaced.
WriteList(u) ==
  /\ acts[u].at = "write"
  /\ linked' = IF acts[u].add THEN acts[u].list \cup {On(u)} ELSE acts[u].list \ {On(u)}
  /\ overlapped' = (overlapped \/ acts[u].list # linked
                         \/ <<On(u), acts[u].of>> \in refused)
  /\ linkedFor' = IF acts[u].add THEN [linkedFor EXCEPT ![On(u)] = signedIn[On(u)].nr] ELSE linkedFor
  /\ IF acts[u].then = "login"
     THEN acts' = [acts EXCEPT ![u].at = "login", ![u].then = "end"] ELSE ActEnds(u)
  /\ UNCHANGED <<exhausted, outside, accountOps>>

--------------------------------------------------------------------------------
\* chat() of the account's transport.
Chat(u) ==
  /\ acts[u].at = "ask"
  /\ acts' = [acts EXCEPT ![u].at = "answer", ![u].of = signedIn[On(u)].nr]
  /\ UNCHANGED <<listing, outside, accountOps>>

StillIn(u) == signedIn[On(u)] = [nr |-> acts[u].of, state |-> "in"]

ChatAnswers(u) ==
  /\ acts[u].at = "answer" /\ ActEnds(u)
  /\ UNCHANGED <<listing, outside, accountOps>>

\* The session is not valid any more.  Of Claude's this is known for certain, and the
\* account is taken from the list.
ChatRefused(u) ==
  /\ acts[u].at = "answer" /\ ~StillIn(u)
  /\ refused' = refused \cup {<<On(u), acts[u].of>>}
  /\ IF On(u) = "claude" THEN TakesList(u, FALSE) ELSE ActEnds(u)
  /\ UNCHANGED <<listing, signedIn, accountOps>>

\* The quota is used up: ChatGPT's is remembered for a while, Gemini's is in the client's
\* log.
QuotaExhausted(u) ==
  /\ acts[u].at = "answer" /\ On(u) \in {"chatgpt", "gemini"}
  /\ exhausted' = exhausted \cup {On(u)} /\ ActEnds(u)
  /\ UNCHANGED <<linked, overlapped, linkedFor, outside, accountOps>>

QuotaRenewed(p) ==
  /\ p \in exhausted /\ exhausted' = exhausted \ {p}
  /\ UNCHANGED <<linked, overlapped, linkedFor, outside, acts, accountOps>>

--------------------------------------------------------------------------------
\* The window starts one worker for an account at a time.
Settings(p) == {u \in AccountUsers : acts[u].what \in {"connect", "disconnect"} /\ On(u) = p}
SignedOut(p) == signedIn' = [signedIn EXCEPT ![p].state = "out"]

\* Claude is signed out, where that works, and unlinked first: its client may believe in
\* a revoked session.
ConnectClaude(u) ==
  /\ acts[u].at = "connect" /\ On(u) = "claude"
  /\ SignedOut("claude") \/ UNCHANGED signedIn
  /\ acts' = [acts EXCEPT ![u] = [WithList(u, FALSE) EXCEPT !.then = "login"]]
  /\ UNCHANGED <<listing, refused, accountOps>>

\* The others are linked at once when they are signed in.
ConnectOther(u) ==
  /\ acts[u].at = "connect" /\ On(u) # "claude"
  /\ IF Believes(On(u)) THEN TakesList(u, TRUE)
     ELSE ActGoes(u, "login")
  /\ UNCHANGED <<listing, outside, accountOps>>

ConnectStarts(u, p) == Settings(p) = {} /\ ActStarts(u, "connect", p, "connect")

\* The user signs in, in the provider's own window.
SignIn(u) ==
  /\ acts[u].at = "login" /\ signedIn[On(u)].state # "in" /\ signedIn[On(u)].nr < MaxSessions
  /\ signedIn' = [signedIn EXCEPT ![On(u)] = [nr |-> @.nr + 1, state |-> "in"]]
  /\ UNCHANGED <<listing, acts, refused, accountOps>>

\* The login is over: linked when the client, and for Claude the server, accepts it.
LoginEnds(u) ==
  /\ acts[u].at = "login"
  /\ LET accepted == IF On(u) = "claude" THEN signedIn["claude"].state = "in" ELSE Believes(On(u))
     IN IF accepted THEN TakesList(u, TRUE) ELSE
        IF On(u) = "chatgpt" THEN ActEnds(u) ELSE TakesList(u, FALSE)
  /\ UNCHANGED <<listing, outside, accountOps>>

\* Sign out, where that works (Gemini's client has no command for it), and unlink.
Disconnect(u) ==
  /\ acts[u].at = "disconnect"
  /\ IF On(u) = "gemini" THEN UNCHANGED signedIn ELSE SignedOut(On(u)) \/ UNCHANGED signedIn
  /\ TakesList(u, FALSE)
  /\ UNCHANGED <<listing, refused, accountOps>>

DisconnectStarts(u, p) ==
  p \in linked /\ Settings(p) = {} /\ ActStarts(u, "disconnect", p, "disconnect")

--------------------------------------------------------------------------------
\* The provider revokes a session, or the user signs out elsewhere.
LosesSession(p, how) ==
  /\ signedIn[p].state = "in" /\ signedIn' = [signedIn EXCEPT ![p].state = how]
  /\ UNCHANGED <<listing, refused, acts, accountOps>>

AccountUserStep(u) ==
  \/ \E p \in Accounts :
       StatusStarts(u, p) \/ ChatStarts(u, p) \/ ConnectStarts(u, p) \/ DisconnectStarts(u, p)
  \/ Reroute(u) \/ KeepAccount(u) \/ StatusProbe(u) \/ ChatGPTProbe(u) \/ ChatGPTProbed(u)
  \/ WriteList(u) \/ Chat(u) \/ ChatAnswers(u) \/ ChatRefused(u) \/ QuotaExhausted(u)
  \/ ConnectClaude(u) \/ ConnectOther(u) \/ SignIn(u) \/ LoginEnds(u) \/ Disconnect(u)

AccountsNext ==
  \/ \E u \in AccountUsers : AccountUserStep(u)
  \/ \E p \in Accounts : QuotaRenewed(p) \/ \E how \in {"out", "revoked"} : LosesSession(p, how)

AccountsSpec == AccountsInit /\ [][AccountsNext]_accountVars

--------------------------------------------------------------------------------
\* A Claude session that a request has found refused never comes back as linked, by
\* whatever status is asked for meanwhile: only a new session is linked again.  (Unless
\* two threads change the list at a time.)
Unlinking(p) == \E u \in AccountUsers : On(u) = p /\ acts[u].at = "write" /\ ~acts[u].add
RefusedStaysOut ==
  "claude" \in linked /\ ~overlapped =>
    <<"claude", linkedFor["claude"]>> \notin refused \/ Unlinking("claude")
================================================================================
