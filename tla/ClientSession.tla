------------------------------ MODULE ClientSession ------------------------------
(***************************************************************************)
(* The client of the backend (aicoder/client.py), the session file         *)
(* (aicoder/config.py) and the retries of the calls above it               *)
(* (run_mcp_tool() of aicoder/executor.py).  Lanes of a team share a       *)
(* client; other clients of the same account live in the same or another   *)
(* process.  A token ages: the last hour it is renewed before a request,   *)
(* the last half minute it is not used any more.                           *)
(*                                                                         *)
(* The backend is modelled from how the client uses it: it may answer, may *)
(* fail before or after it has done what was asked, and refuses a token    *)
(* that has expired.                                                       *)
(***************************************************************************)
EXTENDS Naturals, FiniteSets

CONSTANTS
  Lanes, Clients, ClientOf, \* threads, and the client each of them uses
  Users, NoUser, NoLane,
  RequestKinds,       \* what is asked: see Attempts
  MaxTokens,   \* bound: tokens given out
  MaxRequests, \* bound: requests
  MaxLogins    \* bound: logins and logouts of the user

Tokens == 1..MaxTokens

ASSUME ClientAssumption ==
  /\ ClientOf \in [Lanes -> Clients] /\ NoUser \notin Users /\ NoLane \notin Lanes
  /\ RequestKinds \subseteq {"read", "change", "chat", "register"} /\ RequestKinds # {}
  /\ MaxTokens \in Nat \ {0} /\ MaxRequests \in Nat /\ MaxLogins \in Nat

VARIABLES
  issued, \* of every token its owner and age
  token,  \* self.token of every client
  refreshing, \* _token_refresh_lock: the lane that holds it
  lane,   \* what every lane is doing
  session, \* the session file
  requests, logins,
  \* History: how often each client renewed a token, how often the backend did a request.
  renewed, done

clientVars == <<issued, token, refreshing, lane, session, requests, logins, renewed, done>>

NoSession == [user |-> NoUser, token |-> 0]
Resting == [pc |-> "idle", kind |-> "read", left |-> 0, req |-> 0, read |-> NoSession, new |-> 0]

ClientInit ==
  /\ \E u \in Users :
       /\ issued = <<[owner |-> u, age |-> "fresh"]>>
       /\ session = [user |-> u, token |-> 1]
  /\ token = [c \in Clients |-> 1]  \* every client was made from the session
  /\ refreshing = [c \in Clients |-> NoLane]
  /\ lane = [l \in Lanes |-> Resting]
  /\ requests = 0 /\ logins = 0
  /\ renewed = [c \in Clients |-> [t \in Tokens |-> 0]] /\ done = [r \in 1..MaxRequests |-> 0]

--------------------------------------------------------------------------------
Age(l) == issued[token[ClientOf[l]]].age
LaneGoes(l, pc) == lane' = [lane EXCEPT ![l].pc = pc]
Sends(l) == lane' = [lane EXCEPT ![l].pc = "send", ![l].new = token[ClientOf[l]]]
LaneEnds(l) == lane' = [lane EXCEPT ![l] = Resting]
quiet == <<session, logins>>
server == <<issued, renewed, done>>

\* What is read is tried again, by _request() or by run_mcp_tool(); a registration is
\* tried again too.  A change and a chat are not: they may have been done.
Attempts(kind) == IF kind \in {"read", "register"} THEN 2 ELSE 1

\* _request() with require_auth.
BeginRequest(l, kind) ==
  /\ lane[l].pc = "idle" /\ requests < MaxRequests
  /\ requests' = requests + 1
  /\ lane' = [lane EXCEPT ![l] = [Resting EXCEPT !.pc = "fresh?", !.kind = kind,
                                   !.left = Attempts(kind), !.req = requests + 1]]
  /\ UNCHANGED <<token, refreshing, quiet, server>>

\* _ensure_token_fresh(): without the lock.
LooksFresh(l) ==
  /\ lane[l].pc = "fresh?"
  /\ CASE Age(l) = "fresh" -> Sends(l)
       [] Age(l) = "near" -> LaneGoes(l, "lock")
       [] OTHER -> LaneEnds(l)  \* TokenExpiredError
  /\ UNCHANGED <<token, refreshing, requests, quiet, server>>

Release(l) == refreshing' = [refreshing EXCEPT ![ClientOf[l]] = NoLane]
TakeLock(l) == refreshing[ClientOf[l]] = NoLane /\ refreshing' = [refreshing EXCEPT ![ClientOf[l]] = l]

\* Mutant: it does not look again when it has the lock.
LockToken_Renews(l) ==
  /\ lane[l].pc = "lock"
  /\ TakeLock(l) /\ lane' = [lane EXCEPT ![l].pc = "renew", ![l].new = token[ClientOf[l]]]
  /\ UNCHANGED <<token, requests, quiet, server>>

\* Another lane may have renewed the token while this one waited for the lock.
LockToken(l) ==
  /\ lane[l].pc = "lock" /\ refreshing[ClientOf[l]] = NoLane
  /\ IF Age(l) = "near"
     THEN TakeLock(l) /\ lane' = [lane EXCEPT ![l].pc = "renew", ![l].new = token[ClientOf[l]]]
     ELSE UNCHANGED refreshing /\ (IF Age(l) = "fresh" THEN Sends(l) ELSE LaneEnds(l))
  /\ UNCHANGED <<token, requests, quiet, server>>

\* refresh_token(): the backend gives a new token for one that is still valid.
Renew(l) ==
  /\ lane[l].pc = "renew" /\ issued[lane[l].new].age # "expired" /\ Cardinality(DOMAIN issued) < MaxTokens
  /\ LET t == Cardinality(DOMAIN issued) + 1
         old == lane[l].new
         c == ClientOf[l]
     IN /\ issued' = [x \in 1..t |-> IF x = t THEN [owner |-> issued[old].owner, age |-> "fresh"]
                                     ELSE issued[x]]
        /\ token' = [token EXCEPT ![c] = t]
        /\ renewed' = [renewed EXCEPT ![c][old] = @ + 1]
        /\ lane' = [lane EXCEPT ![l].pc = "load", ![l].new = t]
  /\ UNCHANGED <<refreshing, requests, quiet, done>>

\* It fails, or its answer is lost: the request that needed it fails.
RenewFails(l) ==
  /\ lane[l].pc = "renew" /\ Release(l) /\ LaneEnds(l)
  /\ UNCHANGED <<token, requests, quiet, server>>

\* The session file is read ...
LoadSession(l) ==
  /\ lane[l].pc = "load"
  /\ IF session = NoSession THEN Release(l) /\ Sends(l)
     ELSE UNCHANGED refreshing /\ lane' = [lane EXCEPT ![l].pc = "save", ![l].read = session]
  /\ UNCHANGED <<token, requests, quiet, server>>

\* ... and written with the new token in it, whoever it belongs to; or that fails.
SaveSession(l) ==
  /\ lane[l].pc = "save"
  /\ session' \in {session, [lane[l].read EXCEPT !.token = lane[l].new]}
  /\ Release(l) /\ Sends(l)
  /\ UNCHANGED <<token, requests, logins, server>>

Refused(l) == issued[lane[l].new].age = "expired"

\* The request goes out, with the token it was made with, and the backend does it.
Send(l) ==
  /\ lane[l].pc = "send" /\ ~Refused(l)
  /\ done' = [done EXCEPT ![lane[l].req] = @ + 1]
  /\ LaneGoes(l, "answer")
  /\ UNCHANGED <<issued, token, refreshing, requests, quiet, renewed>>

\* The answer comes whole; or it was the error of a backend that has done nothing more.
Answered(l) ==
  /\ lane[l].pc = "answer" /\ LaneEnds(l)
  /\ UNCHANGED <<token, refreshing, requests, quiet, server>>

\* The connection fails, before the request gets there or after it was done; a request with
\* an attempt left is sent again.
Lost(l) ==
  /\ lane[l].pc \in {"send", "answer"}
  /\ IF lane[l].left > 1
     THEN lane' = [lane EXCEPT ![l].pc = "send", ![l].left = @ - 1] ELSE LaneEnds(l)
  /\ UNCHANGED <<token, refreshing, requests, quiet, server>>

\* The backend refuses the token: nothing is tried again, but a chat with a public model
\* goes on without one.
Expired(l) ==
  /\ lane[l].pc = "send" /\ Refused(l)
  /\ \/ LaneEnds(l) /\ UNCHANGED done
     \/ /\ lane[l].kind = "chat" /\ LaneGoes(l, "answer")
        /\ done' = [done EXCEPT ![lane[l].req] = @ + 1]
  /\ UNCHANGED <<issued, token, refreshing, requests, quiet, renewed>>

\* cancel_current_request(), by the id of a chat whose run was stopped: its connection is
\* closed, and the thread that waits for it left behind.
Cancel(l) ==
  /\ lane[l].kind = "chat" /\ lane[l].pc \in {"send", "answer"} /\ LaneEnds(l)
  /\ UNCHANGED <<token, refreshing, requests, quiet, server>>

--------------------------------------------------------------------------------
Ages(t) ==
  /\ issued[t].age # "expired"
  /\ issued' = [issued EXCEPT ![t].age = IF @ = "fresh" THEN "near" ELSE "expired"]
  /\ UNCHANGED <<token, refreshing, lane, session, requests, logins, renewed, done>>

UserActs ==
  /\ logins < MaxLogins /\ logins' = logins + 1
  /\ UNCHANGED <<token, refreshing, lane, requests, renewed, done>>

\* login or setup, as this user or another one: save_session().
Login(u) ==
  /\ UserActs /\ Cardinality(DOMAIN issued) < MaxTokens
  /\ LET t == Cardinality(DOMAIN issued) + 1
     IN /\ issued' = [x \in 1..t |-> IF x = t THEN [owner |-> u, age |-> "fresh"] ELSE issued[x]]
        /\ session' = [user |-> u, token |-> t]

\* delete_session().
Logout == UserActs /\ session' = NoSession /\ UNCHANGED issued

LaneStep(l) ==
  \/ \E kind \in RequestKinds : BeginRequest(l, kind)
  \/ LooksFresh(l) \/ LockToken(l) \/ Renew(l) \/ RenewFails(l) \/ LoadSession(l) \/ SaveSession(l)
  \/ Send(l) \/ Answered(l) \/ Lost(l) \/ Expired(l) \/ Cancel(l)

ClientNext ==
  \/ \E l \in Lanes : LaneStep(l)
  \/ \E t \in DOMAIN issued : Ages(t)
  \/ (\E u \in Users : Login(u)) \/ Logout

ClientSpec == ClientInit /\ [][ClientNext]_clientVars

--------------------------------------------------------------------------------
ClientTypeOK ==
  /\ \A c \in Clients : token[c] \in DOMAIN issued
  /\ \A c \in Clients : refreshing[c] # NoLane => ClientOf[refreshing[c]] = c
  /\ \A l \in Lanes : lane[l].pc \in {"idle", "fresh?", "lock", "renew", "load", "save", "send", "answer"}
  /\ session.user \in Users \cup {NoUser} /\ session.token \in 0..MaxTokens

\* Lanes that find the token of their client about to expire renew it once between them:
\* the others see the new one when they get the lock, and renew neither it nor the old one.
RenewedOnce ==
  \A c \in Clients, t \in Tokens :
    renewed[c][t] > 0 => renewed[c][t] = 1 /\ issued[t].age # "fresh"

\* What changes something, or costs something, is not done twice, however the connection
\* fails.
DoneOnce ==
  \A l \in Lanes : lane[l].kind \in {"change", "chat"} /\ lane[l].req # 0 => done[lane[l].req] <= 1

\* A client's lanes do once what is to be done once: renew the token, and their requests.
OnceOnly == RenewedOnce /\ DoneOnce
=================================================================================
