---------------------------- MODULE ServiceProofs -----------------------------
(***************************************************************************)
(* The services around the agents, for any number of threads, processes,   *)
(* tokens, requests, calls and servers: what this machine shares stays     *)
(* shared, a client renews a token and does a request once, a call runs    *)
(* only on the answer that was given to it, no message is dropped before   *)
(* it was taken care of, and a cancelled or failed request to a model ends *)
(* that request and leaves nothing open.                                   *)
(***************************************************************************)
EXTENDS NotifyShares, ClientSession, Approval, SharedNotify, ModelRequests,
        FiniteSetTheorems, SequenceTheorems, WellFoundedInduction, TLAPS

--------------------------------------------------------------------------------
(* Shares.  As long as operations come one after the other, the one at work   *)
(* has read the file as it is, but for the shares it retires: these are not   *)
(* of a server that is there, and the chosen ones are.                        *)

Alone == \A a, b \in Actors : a \in Working /\ b \in Working => a = b
HasRead(a) ==
  IF actor[a].op = "retire"
  THEN /\ chosen \subseteq actor[a].read.published
       /\ actor[a].left \subseteq Servers
  ELSE actor[a].read.published = shares.published
ShareRecord == [on : BOOLEAN, published : SUBSET Servers]
Operations == {"none", "publish", "unpublish", "enable", "disable", "presence", "retire"}
ActorRecord == [op : Operations, server : Servers \cup {"none"}, read : ShareRecord,
                left : SUBSET Servers, pc : {"idle", "server", "save"}]
ActorsOK ==
  /\ actor \in [Actors -> ActorRecord]
  /\ \A a \in Working : actor[a].op \in {"publish", "unpublish"} => actor[a].server \in Servers
SharesInv ==
  /\ SharesTypeOK /\ crossed \in BOOLEAN /\ ActorsOK
  /\ ~crossed => /\ chosen \subseteq shares.published \cap configured
                 /\ Alone
                 /\ \A a \in Working : /\ HasRead(a)
                                       /\ actor[a].op = "publish" => actor[a].server \in configured

LEMMA OpStartsKeeps ==
  ASSUME SharesInv, NEW a \in Actors, actor[a].pc = "idle",
         NEW op \in Operations, NEW s \in Servers \cup {"none"}, NEW left \in SUBSET Servers,
         OpStarts(a, op, s, left),
         op \in {"publish", "unpublish"} => s \in Servers,
         op = "publish" => s \in configured
  PROVE SharesInv'
<1> DEFINE r == [op |-> op, server |-> s, read |-> shares, left |-> left,
                 pc |-> IF op = "presence" THEN "save" ELSE "server"]
<1>1. r \in ActorRecord /\ r.pc # "idle" /\ r.op = op /\ r.server = s /\ r.read = shares
      /\ r.left = left
  BY DEF SharesInv, SharesTypeOK, ActorRecord, ShareRecord
<1>2. /\ actor' = [actor EXCEPT ![a] = r] /\ UNCHANGED <<shares, configured, online, chosen>>
      /\ crossed' = (crossed \/ Working # {})
  BY DEF OpStarts
<1> HIDE DEF r
<1>3. actor' \in [Actors -> ActorRecord] /\ actor'[a] = r /\ \A b \in Actors \ {a} : actor'[b] = actor[b]
  BY <1>1, <1>2 DEF SharesInv, ActorsOK
<1>4. Working' = Working \cup {a}
  BY <1>1, <1>3 DEF Working
<1>5. ActorsOK' /\ SharesTypeOK' /\ crossed' \in BOOLEAN
  <2>1. \A b \in Working' : actor'[b].op \in {"publish", "unpublish"} => actor'[b].server \in Servers
    BY <1>1, <1>3, <1>4 DEF SharesInv, ActorsOK, Working
  <2> QED BY <1>2, <1>3, <2>1 DEF SharesInv, SharesTypeOK, ActorsOK
<1>6. ASSUME ~crossed'
      PROVE /\ (chosen \subseteq shares.published \cap configured)' /\ Alone'
            /\ \A b \in Working' : HasRead(b)' /\ (actor'[b].op = "publish" => actor'[b].server \in configured')
  <2>1. ~crossed /\ Working' = {a}
    BY <1>2, <1>4, <1>6
  <2>2. HasRead(a)'
    BY <1>1, <1>2, <1>3, <2>1 DEF HasRead, SharesInv
  <2> QED BY <1>1, <1>2, <1>3, <2>1, <2>2 DEF SharesInv, Alone
<1> QED BY <1>5, <1>6 DEF SharesInv

LEMMA StartKeeps ==
  ASSUME SharesInv, NEW a \in Actors,
         \/ PublishStarts(a) \/ UnpublishStarts(a) \/ EnableStarts(a) \/ DisableStarts(a)
         \/ PresenceStarts(a) \/ RetireStarts(a)
  PROVE SharesInv'
<1>1. configured \subseteq Servers /\ shares.published \subseteq Servers
  BY DEF SharesInv, SharesTypeOK
<1>2. CASE PublishStarts(a)
  BY <1>1, <1>2, OpStartsKeeps DEF PublishStarts, UserStarts, Operations
<1>3. CASE UnpublishStarts(a)
  BY <1>1, <1>3, OpStartsKeeps DEF UnpublishStarts, UserStarts, Operations
<1>4. CASE EnableStarts(a) \/ DisableStarts(a) \/ PresenceStarts(a)
  BY <1>4, OpStartsKeeps DEF EnableStarts, DisableStarts, PresenceStarts, UserStarts, Operations
<1>5. CASE RetireStarts(a)
  BY <1>1, <1>5, OpStartsKeeps DEF RetireStarts, Operations
<1> QED BY <1>2, <1>3, <1>4, <1>5

\* A step of an operation at work that leaves the file, the servers and the choice alone.
LEMMA WorkKeeps ==
  ASSUME SharesInv, NEW a \in Working,
         actor' \in [Actors -> ActorRecord], \A b \in Actors \ {a} : actor'[b] = actor[b],
         online' \subseteq Servers, UNCHANGED <<shares, configured, chosen, crossed>>,
         a \in Working' =>
           /\ actor'[a].op = actor[a].op
           /\ actor[a].op # "retire" => actor'[a].server = actor[a].server
           /\ ~crossed /\ HasRead(a) => HasRead(a)'
  PROVE SharesInv'
<1>1. Working' \subseteq Working /\ Working \subseteq Actors
  BY DEF Working
<1>2. ActorsOK' /\ SharesTypeOK' /\ crossed' \in BOOLEAN
  BY <1>1 DEF SharesInv, SharesTypeOK, ActorsOK, Working
<1>3. ASSUME ~crossed'
      PROVE /\ (chosen \subseteq shares.published \cap configured)' /\ Alone'
            /\ \A b \in Working' : HasRead(b)' /\ (actor'[b].op = "publish" => actor'[b].server \in configured')
  <2>1. Working' \subseteq {a}
    BY <1>1, <1>3 DEF SharesInv, Alone
  <2> QED BY <1>1, <1>3, <2>1 DEF SharesInv, Alone
<1> QED BY <1>2, <1>3 DEF SharesInv

LEMMA ActorTyped ==
  ASSUME SharesInv, NEW a \in Actors
  PROVE /\ actor[a] \in ActorRecord /\ actor[a].op \in Operations
        /\ actor[a].server \in Servers \cup {"none"} /\ actor[a].read \in ShareRecord
        /\ actor[a].left \subseteq Servers
        /\ actor[a].read.published \subseteq Servers /\ actor[a].read.on \in BOOLEAN
<1>1. actor[a] \in ActorRecord
  BY DEF SharesInv, ActorsOK
<1> QED BY <1>1 DEF ActorRecord, ShareRecord

LEMMA RestTyped == AtRest \in ActorRecord /\ AtRest.pc = "idle"
BY DEF AtRest, ActorRecord, ShareRecord, Operations

LEMMA EndsKeeps ==
  ASSUME SharesInv, NEW a \in Working, Ends(a), online' \subseteq Servers,
         UNCHANGED <<shares, configured, chosen, crossed>>
  PROVE SharesInv'
<1>1. a \in Actors /\ actor' = [actor EXCEPT ![a] = AtRest]
  BY DEF Working, Ends
<1>2. actor' \in [Actors -> ActorRecord] /\ a \notin Working'
      /\ \A b \in Actors \ {a} : actor'[b] = actor[b]
  BY <1>1, RestTyped DEF SharesInv, ActorsOK, Working
<1> QED BY <1>2, WorkKeeps

LEMMA AskKeeps == ASSUME SharesInv, NEW a \in Actors, Ask(a) PROVE SharesInv'
<1> DEFINE s == actor[a].server
           op == actor[a].op
<1>1. actor[a].pc = "server" /\ op # "retire" /\ a \in Working
      /\ UNCHANGED <<shares, configured, chosen, crossed>>
  BY DEF Ask, Working
<1>2. online \subseteq Servers /\ (op \in {"publish", "unpublish"} => s \in Servers)
  BY <1>1 DEF SharesInv, SharesTypeOK, ActorsOK
<1>3. online' \subseteq Servers
  BY <1>2 DEF Ask
<1>4. CASE actor' = [actor EXCEPT ![a].pc = "save"]
  <2>1. actor' \in [Actors -> ActorRecord] /\ actor'[a] = [actor[a] EXCEPT !.pc = "save"]
        /\ \A b \in Actors \ {a} : actor'[b] = actor[b]
    BY <1>4, ActorTyped DEF SharesInv, ActorsOK, ActorRecord
  <2>2. actor'[a].op = op /\ actor'[a].server = s /\ actor'[a].read = actor[a].read
    BY <2>1, ActorTyped DEF ActorRecord
  <2>3. HasRead(a) => HasRead(a)'
    BY <1>1, <2>2 DEF HasRead
  <2> QED BY <1>1, <1>3, <2>1, <2>2, <2>3, WorkKeeps
<1>5. CASE Ends(a)
  BY <1>1, <1>3, <1>5, EndsKeeps
<1> QED BY <1>4, <1>5 DEF Ask

LEMMA RetireKeeps == ASSUME SharesInv, NEW a \in Actors, Retire(a) PROVE SharesInv'
<1>1. PICK s \in actor[a].left :
       \/ /\ s \notin configured /\ online' = online \ {s}
          /\ actor' = [actor EXCEPT ![a].left = @ \ {s}, ![a].read.published = @ \ {s},
                                     ![a].server = s]
       \/ /\ actor' = [actor EXCEPT ![a].left = @ \ {s}] /\ UNCHANGED online
  BY DEF Retire
<1>2. a \in Working /\ actor[a].op = "retire" /\ s \in Servers
      /\ UNCHANGED <<shares, configured, chosen, crossed>>
  BY ActorTyped DEF Retire, Working
<1>3. online' \subseteq Servers
  BY <1>1 DEF SharesInv, SharesTypeOK
<1> DEFINE read == [actor[a].read EXCEPT !.published = @ \ {s}]
           kept == [actor[a] EXCEPT !.left = @ \ {s}]
           moved == [actor[a] EXCEPT !.left = @ \ {s}, !.read = read, !.server = s]
<1>4. read \in ShareRecord /\ read.published = actor[a].read.published \ {s}
  BY ActorTyped DEF ShareRecord
<1>5. actor[a].left \ {s} \in SUBSET Servers
  BY ActorTyped
<1>6. kept \in ActorRecord /\ kept.op = "retire" /\ kept.read = actor[a].read
      /\ kept.left = actor[a].left \ {s}
  BY <1>2, <1>5, ActorTyped DEF ActorRecord
<1>7. moved \in ActorRecord /\ moved.op = "retire" /\ moved.read = read
      /\ moved.left = actor[a].left \ {s}
  <2> HIDE DEF read
  <2> QED BY <1>2, <1>4, <1>5, ActorTyped DEF ActorRecord
<1>8. CASE actor' = [actor EXCEPT ![a] = kept]
  <2> HIDE DEF kept
  <2>1. actor' \in [Actors -> ActorRecord] /\ actor'[a] = kept
        /\ \A b \in Actors \ {a} : actor'[b] = actor[b]
    BY <1>6, <1>8 DEF SharesInv, ActorsOK
  <2>2. HasRead(a) => HasRead(a)'
    BY <1>2, <1>5, <1>6, <2>1 DEF HasRead
  <2> QED BY <1>2, <1>3, <1>6, <2>1, <2>2, WorkKeeps
<1>9. CASE actor' = [actor EXCEPT ![a] = moved] /\ s \notin configured
  <2> HIDE DEF moved
  <2>1. actor' \in [Actors -> ActorRecord] /\ actor'[a] = moved
        /\ \A b \in Actors \ {a} : actor'[b] = actor[b]
    BY <1>7, <1>9 DEF SharesInv, ActorsOK
  <2>2. ~crossed /\ HasRead(a) => HasRead(a)'
    <3>1. ~crossed => s \notin chosen
      BY <1>9 DEF SharesInv
    <3> QED BY <1>2, <1>4, <1>5, <1>7, <2>1, <3>1 DEF HasRead
  <2> QED BY <1>2, <1>3, <1>7, <2>1, <2>2, WorkKeeps
<1> QED BY <1>1, <1>8, <1>9

LEMMA RetireEndsKeeps == ASSUME SharesInv, NEW a \in Actors, RetireEnds(a) PROVE SharesInv'
<1>1. a \in Working /\ actor[a].op = "retire" /\ UNCHANGED <<shares, configured, online, chosen, crossed>>
  BY DEF RetireEnds, Working
<1>2. actor' \in [Actors -> ActorRecord] /\ actor'[a] = [actor[a] EXCEPT !.pc = "save"]
      /\ \A b \in Actors \ {a} : actor'[b] = actor[b]
  BY ActorTyped DEF RetireEnds, SharesInv, ActorsOK, ActorRecord
<1>3. actor'[a].op = "retire" /\ actor'[a].read = actor[a].read /\ actor'[a].left = actor[a].left
  BY <1>1, <1>2, ActorTyped DEF ActorRecord
<1>4. HasRead(a) => HasRead(a)'
  BY <1>1, <1>3 DEF HasRead
<1>5. online' \subseteq Servers
  BY <1>1 DEF SharesInv, SharesTypeOK
<1> QED BY <1>1, <1>2, <1>3, <1>4, <1>5, WorkKeeps

LEMMA SaveKeeps == ASSUME SharesInv, NEW a \in Actors, Save(a) PROVE SharesInv'
<1> DEFINE s == actor[a].server
           op == actor[a].op
           read == actor[a].read
<1>1. a \in Working /\ actor[a].pc = "save" /\ UNCHANGED <<configured, online, crossed>>
      /\ actor' = [actor EXCEPT ![a] = AtRest]
  BY DEF Save, Working, Ends
<1>2. actor' \in [Actors -> ActorRecord] /\ Working' = Working \ {a}
      /\ \A b \in Actors \ {a} : actor'[b] = actor[b]
  BY <1>1, RestTyped DEF SharesInv, ActorsOK, Working
<1>3. op \in {"publish", "unpublish"} => s \in Servers
  BY <1>1 DEF SharesInv, ActorsOK
<1>4. read \in ShareRecord /\ read.published \subseteq Servers /\ chosen \subseteq Servers
      /\ shares \in ShareRecord
  BY ActorTyped DEF SharesInv, SharesTypeOK, ShareRecord
<1>5. /\ chosen' = CASE op = "publish" -> chosen \cup {s}
                     [] op = "unpublish" -> chosen \ {s}
                     [] OTHER -> chosen
      /\ shares' = IF op = "retire" /\ s = "none" THEN shares ELSE Outcome(op, s, read)
  BY DEF Save
<1>6. Outcome(op, s, read) \in ShareRecord
      /\ Outcome(op, s, read).published = CASE op = "publish" -> read.published \cup {s}
                                            [] op = "unpublish" -> read.published \ {s}
                                            [] OTHER -> read.published
  <2> HIDE DEF op, s, read
  <2> QED BY <1>3, <1>4 DEF Outcome, ShareRecord
<1> HIDE DEF op, s, read
<1>7. shares' \in ShareRecord /\ chosen' \subseteq Servers
  BY <1>3, <1>4, <1>5, <1>6
<1>8. ActorsOK' /\ SharesTypeOK' /\ crossed' \in BOOLEAN
  BY <1>1, <1>2, <1>7 DEF SharesInv, SharesTypeOK, ActorsOK, Working, ShareRecord
<1>9. ASSUME ~crossed'
      PROVE (chosen \subseteq shares.published \cap configured)' /\ Working' = {}
  <2>1. Working' = {} /\ HasRead(a) /\ chosen \subseteq shares.published \cap configured
        /\ (op = "publish" => s \in configured)
    <3>1. ~crossed
      BY <1>1, <1>9
    <3>2. Working = {a}
      BY <1>1, <3>1 DEF SharesInv, Alone, Working
    <3> QED BY <1>1, <1>2, <3>1, <3>2 DEF SharesInv, op, s
  <2>2. chosen \subseteq read.published
    BY <2>1 DEF HasRead, read
  <2>3. chosen' \subseteq shares'.published
    BY <1>5, <1>6, <2>1, <2>2
  <2>4. chosen' \subseteq configured'
    BY <1>1, <1>5, <2>1
  <2> QED BY <2>1, <2>3, <2>4
<1> QED BY <1>8, <1>9 DEF SharesInv, Alone

LEMMA ReconfigureKeeps == ASSUME SharesInv, NEW s \in Servers, Reconfigure(s) PROVE SharesInv'
<1>1. Working' = Working /\ UNCHANGED <<shares, online, actor>>
      /\ crossed' = (crossed \/ Working # {})
  BY DEF Reconfigure, Working
<1>2. configured' \subseteq Servers /\ chosen' \subseteq chosen
      /\ (chosen \subseteq configured => chosen' \subseteq configured')
  BY DEF Reconfigure, SharesInv, SharesTypeOK
<1> QED BY <1>1, <1>2 DEF SharesInv, SharesTypeOK, ActorsOK, Alone

LEMMA SharesAlways == SharesSpec => []SharesInv
<1>1. SharesInit => SharesInv
  <2> SUFFICES ASSUME SharesInit PROVE SharesInv
    OBVIOUS
  <2>1. Working = {}
    BY RestTyped DEF SharesInit, Working
  <2> QED BY <2>1, RestTyped DEF SharesInit, SharesInv, SharesTypeOK, ActorsOK, Alone
<1>2. SharesInv /\ [SharesNext]_sharesVars => SharesInv'
  <2> SUFFICES ASSUME SharesInv, [SharesNext]_sharesVars PROVE SharesInv'
    OBVIOUS
  <2>1. CASE UNCHANGED sharesVars
    BY <2>1 DEF sharesVars, SharesInv, SharesTypeOK, ActorsOK, Alone, Working, HasRead
  <2> QED BY <2>1, StartKeeps, AskKeeps, RetireKeeps, RetireEndsKeeps, SaveKeeps, ReconfigureKeeps
             DEF SharesNext, ActorStep
<1> QED BY <1>1, <1>2, PTL DEF SharesSpec

\* What the user published, and did not take back, is in the file as long as the operations
\* on it came one after the other, for any number of commands, windows and servers.
THEOREM SharesLast == SharesSpec => []ChosenAreShared
<1>1. SharesInv => ChosenAreShared
  BY DEF SharesInv, ChosenAreShared
<1> QED BY <1>1, SharesAlways, PTL

\* The file of shares holds shares of servers, whoever writes it (aicoder/notify_shares.py).
THEOREM SharesTypes == SharesSpec => []SharesTypeOK
<1>1. SharesInv => SharesTypeOK
  BY DEF SharesInv
<1> QED BY <1>1, SharesAlways, PTL

--------------------------------------------------------------------------------
(* The client.  A token is renewed by the lane that holds the lock of its     *)
(* client, and is then no longer that client's token; a request belongs to    *)
(* one lane, and one that must not be repeated has one attempt.               *)

Locked == {"renew", "load", "save"}
Pcs == {"idle", "fresh?", "lock", "send", "answer"} \cup Locked
Sessions == [user : Users \cup {NoUser}, token : 0..MaxTokens]
LaneRecord == [pc : Pcs, kind : {"read", "change", "chat", "register"}, left : 0..2,
               req : 0..MaxRequests, read : Sessions, new : 0..MaxTokens]
Issued == [owner : Users, age : {"fresh", "near", "expired"}]

ClientTyped ==
  /\ \E n \in 1..MaxTokens : issued \in [1..n -> Issued]
  /\ token \in [Clients -> DOMAIN issued]
  /\ refreshing \in [Clients -> Lanes \cup {NoLane}]
  /\ lane \in [Lanes -> LaneRecord] /\ session \in Sessions
  /\ requests \in 0..MaxRequests /\ logins \in 0..MaxLogins
  /\ renewed \in [Clients -> [Tokens -> 0..1]] /\ done \in [1..MaxRequests -> Nat]
Holds(l) ==
  /\ lane[l].pc \in Locked => refreshing[ClientOf[l]] = l
  /\ lane[l].pc = "renew" => /\ lane[l].new = token[ClientOf[l]]
                             /\ issued[lane[l].new].age # "fresh"
Renewals ==
  \A c \in Clients, t \in Tokens : renewed[c][t] = 1 =>
    t \in DOMAIN issued /\ t # token[c] /\ issued[t].age # "fresh"
Does(l) ==
  /\ lane[l].req <= requests /\ (lane[l].pc = "idle" => lane[l].req = 0)
  /\ lane[l].kind \in {"change", "chat"} /\ lane[l].req # 0 =>
       /\ lane[l].left <= 1
       /\ done[lane[l].req] <= 1 /\ (lane[l].pc # "answer" => done[lane[l].req] = 0)
OwnRequests ==
  /\ \A k, l \in Lanes : lane[k].req = lane[l].req /\ lane[k].req # 0 => k = l
  /\ \A r \in 1..MaxRequests : r > requests => done[r] = 0
ClientInv ==
  ClientTyped /\ Renewals /\ OwnRequests /\ \A l \in Lanes : Holds(l) /\ Does(l)

LEMMA IssuedTyped ==
  ASSUME ClientInv
  PROVE /\ DOMAIN issued \subseteq Tokens /\ DOMAIN issued = 1..Cardinality(DOMAIN issued)
        /\ Cardinality(DOMAIN issued) \in 1..MaxTokens
        /\ issued \in [DOMAIN issued -> Issued]
        /\ \A t \in DOMAIN issued : issued[t] \in Issued
<1>1. PICK n \in 1..MaxTokens : issued \in [1..n -> Issued]
  BY DEF ClientInv, ClientTyped
<1>2. MaxTokens \in Nat /\ n \in Nat /\ n <= MaxTokens /\ 1 <= n
  BY ClientAssumption
<1>3. Cardinality(1..n) = n
  BY <1>2, FS_Interval
<1> QED BY <1>1, <1>2, <1>3 DEF Tokens

LEMMA ClientLaneTyped ==
  ASSUME ClientInv, NEW l \in Lanes
  PROVE /\ lane[l] \in LaneRecord /\ lane[l].pc \in Pcs /\ lane[l].left \in 0..2
        /\ lane[l].req \in 0..MaxRequests /\ lane[l].read \in Sessions /\ lane[l].new \in 0..MaxTokens
        /\ ClientOf[l] \in Clients /\ token[ClientOf[l]] \in DOMAIN issued
        /\ token[ClientOf[l]] \in 0..MaxTokens
<1>1. lane[l] \in LaneRecord
  BY DEF ClientInv, ClientTyped
<1>2. ClientOf[l] \in Clients /\ token[ClientOf[l]] \in DOMAIN issued
  BY ClientAssumption DEF ClientInv, ClientTyped
<1>3. token[ClientOf[l]] \in 0..MaxTokens
  BY <1>2, IssuedTyped, ClientAssumption DEF Tokens
<1> QED BY <1>1, <1>2, <1>3 DEF LaneRecord

LEMMA RestingTyped == Resting \in LaneRecord /\ Resting.pc = "idle" /\ Resting.req = 0
BY ClientAssumption DEF Resting, LaneRecord, Pcs, Sessions, NoSession

\* A step of a lane that gives out no token.
LEMMA LaneKeeps ==
  ASSUME ClientInv, NEW l \in Lanes,
         lane' \in [Lanes -> LaneRecord], \A k \in Lanes \ {l} : lane'[k] = lane[k],
         UNCHANGED <<issued, token, renewed, logins>>, session' \in Sessions,
         refreshing' \in [Clients -> Lanes \cup {NoLane}],
         \A k \in Lanes \ {l} : refreshing[ClientOf[k]] = k => refreshing'[ClientOf[k]] = k,
         requests' \in requests..MaxRequests, done' \in [1..MaxRequests -> Nat],
         lane'[l].req \in {0, lane[l].req} \/ lane'[l].req > requests,
         \A r \in 1..MaxRequests : r # lane[l].req => done'[r] = done[r],
         lane[l].req # 0 \/ done' = done,
         Holds(l)', Does(l)'
  PROVE ClientInv'
<1>0. requests \in 0..MaxRequests /\ MaxRequests \in Nat /\ requests' >= requests
      /\ \A k \in Lanes : lane[k].req \in 0..requests
  <2>1. requests \in 0..MaxRequests /\ MaxRequests \in Nat
    BY ClientAssumption DEF ClientInv, ClientTyped
  <2>2. \A k \in Lanes : lane[k].req \in 0..MaxRequests /\ lane[k].req <= requests
    BY ClientLaneTyped DEF ClientInv, Does
  <2> QED BY <2>1, <2>2
<1>1. ClientTyped'
  <2>1. ClientTyped
    BY DEF ClientInv
  <2>2. /\ \E n \in 1..MaxTokens : issued' \in [1..n -> Issued]
        /\ token' \in [Clients -> DOMAIN issued'] /\ logins' \in 0..MaxLogins
        /\ renewed' \in [Clients -> [Tokens -> 0..1]]
    BY <2>1 DEF ClientTyped
  <2>3. requests' \in 0..MaxRequests
    BY <1>0
  <2> QED BY <2>2, <2>3 DEF ClientTyped
<1>2. Renewals'
  BY DEF ClientInv, Renewals
<1>3. ASSUME NEW k \in Lanes \ {l} PROVE Holds(k)'
  BY DEF ClientInv, Holds
<1>4. ASSUME NEW k \in Lanes \ {l} PROVE Does(k)'
  <2>1. CASE lane[k].req = 0
    BY <2>1, <1>0 DEF ClientInv, Does
  <2>2. CASE lane[k].req # 0
    <3>1. lane[k].req # lane[l].req
      BY <2>2 DEF ClientInv, OwnRequests
    <3>2. done'[lane[k].req] = done[lane[k].req]
      BY <3>1, <2>2, <1>0
    <3> QED BY <3>2, <1>0 DEF ClientInv, Does
  <2> QED BY <2>1, <2>2
<1>5. OwnRequests'
  <2>1. \A k \in Lanes \ {l} : lane'[k].req = lane[k].req
    OBVIOUS
  <2>2. ASSUME NEW k \in Lanes \ {l}, lane'[l].req # 0 PROVE lane'[l].req # lane'[k].req
    BY <1>0, <2>1, <2>2 DEF ClientInv, OwnRequests
  <2>3. ASSUME NEW r \in 1..MaxRequests, r > requests' PROVE done'[r] = 0
    BY <1>0, <2>3 DEF ClientInv, OwnRequests
  <2> QED BY <2>1, <2>2, <2>3 DEF ClientInv, OwnRequests
<1> QED BY <1>1, <1>2, <1>3, <1>4, <1>5 DEF ClientInv

\* The lane alone changes: its place, what it has read, or the token it sends.
LEMMA PlaceKeeps ==
  ASSUME ClientInv, NEW l \in Lanes,
         lane' \in [Lanes -> LaneRecord], \A k \in Lanes \ {l} : lane'[k] = lane[k],
         UNCHANGED <<issued, token, renewed, logins, requests, done>>, session' \in Sessions,
         refreshing' \in [Clients -> Lanes \cup {NoLane}],
         \A k \in Lanes \ {l} : refreshing[ClientOf[k]] = k => refreshing'[ClientOf[k]] = k,
         \/ lane'[l].req = 0 /\ (lane'[l].pc = "idle")
         \/ /\ lane'[l].req = lane[l].req /\ lane'[l].kind = lane[l].kind
            /\ lane'[l].pc # "idle" /\ lane'[l].pc # "answer"
            /\ \/ lane[l].pc # "answer" /\ lane'[l].left = lane[l].left
               \/ lane[l].left > 1,
         lane'[l].pc \in Locked => refreshing'[ClientOf[l]] = l,
         lane'[l].pc = "renew" =>
           lane'[l].new = token[ClientOf[l]] /\ issued[lane'[l].new].age # "fresh"
  PROVE ClientInv'
<1>1. requests' \in requests..MaxRequests /\ done' \in [1..MaxRequests -> Nat]
  BY ClientAssumption DEF ClientInv, ClientTyped
<1>2. Holds(l)'
  BY DEF Holds
<1>3. Does(l)'
  <2>1. requests \in Nat
    BY ClientAssumption DEF ClientInv, ClientTyped
  <2>2. CASE lane'[l].req = 0 /\ lane'[l].pc = "idle"
    BY <2>1, <2>2 DEF Does
  <2>3. CASE lane'[l].req = lane[l].req /\ lane'[l].kind = lane[l].kind /\ lane'[l].pc # "idle"
             /\ lane[l].pc # "answer" /\ lane'[l].left = lane[l].left
    BY <2>3 DEF ClientInv, Does
  <2>4. CASE lane'[l].req = lane[l].req /\ lane'[l].kind = lane[l].kind /\ lane'[l].pc # "idle"
             /\ lane[l].left > 1
    <3>1. lane[l].left \in 0..2
      BY ClientLaneTyped
    <3> QED BY <2>4, <3>1 DEF ClientInv, Does
  <2> QED BY <2>2, <2>3, <2>4
<1> QED BY <1>1, <1>2, <1>3, LaneKeeps

LEMMA OthersHoldOn ==
  ASSUME ClientInv, NEW l \in Lanes, Release(l), refreshing[ClientOf[l]] = l
  PROVE /\ refreshing' \in [Clients -> Lanes \cup {NoLane}]
        /\ \A k \in Lanes \ {l} : refreshing[ClientOf[k]] = k => refreshing'[ClientOf[k]] = k
BY ClientAssumption DEF ClientInv, ClientTyped, Release

LEMMA GoesTyped ==
  ASSUME ClientInv, NEW l \in Lanes, NEW pc \in Pcs, LaneGoes(l, pc)
  PROVE /\ lane' \in [Lanes -> LaneRecord] /\ \A k \in Lanes \ {l} : lane'[k] = lane[k]
        /\ lane'[l].pc = pc /\ lane'[l].req = lane[l].req /\ lane'[l].kind = lane[l].kind
        /\ lane'[l].left = lane[l].left /\ lane'[l].new = lane[l].new
<1>1. [lane[l] EXCEPT !.pc = pc] \in LaneRecord
  BY ClientLaneTyped DEF LaneRecord
<1> QED BY <1>1, ClientLaneTyped DEF LaneGoes, ClientInv, ClientTyped, LaneRecord

LEMMA SendsTyped ==
  ASSUME ClientInv, NEW l \in Lanes, NEW pc \in Pcs, NEW new \in 0..MaxTokens,
         lane' = [lane EXCEPT ![l].pc = pc, ![l].new = new]
  PROVE /\ lane' \in [Lanes -> LaneRecord] /\ \A k \in Lanes \ {l} : lane'[k] = lane[k]
        /\ lane'[l].pc = pc /\ lane'[l].req = lane[l].req /\ lane'[l].kind = lane[l].kind
        /\ lane'[l].left = lane[l].left
<1> DEFINE r == [lane[l] EXCEPT !.pc = pc, !.new = new]
<1>1. r \in LaneRecord /\ r.pc = pc /\ r.req = lane[l].req /\ r.kind = lane[l].kind
      /\ r.left = lane[l].left
  BY ClientLaneTyped DEF LaneRecord
<1>2. lane' = [lane EXCEPT ![l] = r]
  BY DEF ClientInv, ClientTyped
<1> HIDE DEF r
<1> QED BY <1>1, <1>2 DEF ClientInv, ClientTyped

LEMMA EndsTyped ==
  ASSUME ClientInv, NEW l \in Lanes, LaneEnds(l)
  PROVE /\ lane' \in [Lanes -> LaneRecord] /\ \A k \in Lanes \ {l} : lane'[k] = lane[k]
        /\ lane'[l].req = 0 /\ lane'[l].pc = "idle"
BY RestingTyped DEF LaneEnds, ClientInv, ClientTyped

\* A lane that ends, with the lock or without it.
LEMMA LaneEndsKeeps ==
  ASSUME ClientInv, NEW l \in Lanes, LaneEnds(l),
         UNCHANGED <<issued, token, renewed, session, logins, requests, done>>,
         UNCHANGED refreshing \/ (Release(l) /\ refreshing[ClientOf[l]] = l)
  PROVE ClientInv'
<1>1. refreshing' \in [Clients -> Lanes \cup {NoLane}]
      /\ \A k \in Lanes \ {l} : refreshing[ClientOf[k]] = k => refreshing'[ClientOf[k]] = k
  BY OthersHoldOn DEF ClientInv, ClientTyped
<1>2. session' \in Sessions
  BY DEF ClientInv, ClientTyped
<1> QED BY <1>1, <1>2, EndsTyped, PlaceKeeps DEF Locked

\* A lane that goes on to the request, with the lock or without it.
LEMMA SendsKeeps ==
  ASSUME ClientInv, NEW l \in Lanes, Sends(l), lane[l].pc # "answer",
         UNCHANGED <<issued, token, renewed, logins, requests, done>>, session' \in Sessions,
         UNCHANGED refreshing \/ (Release(l) /\ refreshing[ClientOf[l]] = l)
  PROVE ClientInv'
<1>1. refreshing' \in [Clients -> Lanes \cup {NoLane}]
      /\ \A k \in Lanes \ {l} : refreshing[ClientOf[k]] = k => refreshing'[ClientOf[k]] = k
  BY OthersHoldOn DEF ClientInv, ClientTyped
<1>2. lane' = [lane EXCEPT ![l].pc = "send", ![l].new = token[ClientOf[l]]]
  BY DEF Sends
<1>3. lane' \in [Lanes -> LaneRecord] /\ (\A k \in Lanes \ {l} : lane'[k] = lane[k])
      /\ lane'[l].pc = "send" /\ lane'[l].req = lane[l].req /\ lane'[l].kind = lane[l].kind
      /\ lane'[l].left = lane[l].left
  BY <1>2, SendsTyped, ClientLaneTyped DEF Pcs
<1> QED BY <1>1, <1>3, PlaceKeeps DEF Locked

LEMMA BeginRequestKeeps ==
  ASSUME ClientInv, NEW l \in Lanes, NEW kind \in RequestKinds, BeginRequest(l, kind)
  PROVE ClientInv'
<1> DEFINE r == [Resting EXCEPT !.pc = "fresh?", !.kind = kind, !.left = Attempts(kind),
                                !.req = requests + 1]
<1>0. requests \in 0..MaxRequests /\ MaxRequests \in Nat /\ requests' = requests + 1
      /\ requests < MaxRequests
  BY ClientAssumption DEF BeginRequest, ClientInv, ClientTyped
<1>1. Attempts(kind) \in 0..2 /\ (kind \in {"change", "chat"} => Attempts(kind) = 1)
      /\ kind \in {"read", "change", "chat", "register"}
  BY ClientAssumption DEF Attempts
<1>2. r.pc = "fresh?" /\ r.kind = kind /\ r.left = Attempts(kind) /\ r.req = requests + 1
  BY DEF Resting
<1>3. r \in LaneRecord
  <2>1. "fresh?" \in Pcs /\ requests + 1 \in 0..MaxRequests
    BY <1>0 DEF Pcs
  <2> QED BY <1>1, <2>1, RestingTyped DEF LaneRecord
<1>4. lane' = [lane EXCEPT ![l] = r] /\ lane[l].pc = "idle"
      /\ UNCHANGED <<token, refreshing, session, logins, issued, renewed, done>>
  BY DEF BeginRequest, quiet, server
<1> HIDE DEF r
<1>5. lane' \in [Lanes -> LaneRecord] /\ lane'[l] = r /\ \A k \in Lanes \ {l} : lane'[k] = lane[k]
  BY <1>3, <1>4 DEF ClientInv, ClientTyped
<1>6. Holds(l)'
  BY <1>2, <1>5 DEF Holds, Locked
<1>7. done[requests + 1] = 0
  BY <1>0 DEF ClientInv, OwnRequests
<1>8. Does(l)'
  BY <1>0, <1>1, <1>2, <1>4, <1>5, <1>7 DEF Does
<1>9. requests' \in requests..MaxRequests /\ lane'[l].req > requests
  BY <1>0, <1>2, <1>5
<1>10. session' \in Sessions /\ refreshing' \in [Clients -> Lanes \cup {NoLane}]
       /\ done' \in [1..MaxRequests -> Nat]
  BY <1>4 DEF ClientInv, ClientTyped
<1> QED BY <1>4, <1>5, <1>6, <1>8, <1>9, <1>10, LaneKeeps

LEMMA LooksFreshKeeps == ASSUME ClientInv, NEW l \in Lanes, LooksFresh(l) PROVE ClientInv'
<1>1. lane[l].pc = "fresh?" /\ UNCHANGED <<token, refreshing, requests, session, logins, issued, renewed, done>>
      /\ refreshing' \in [Clients -> Lanes \cup {NoLane}] /\ session' \in Sessions
  BY DEF LooksFresh, quiet, server, ClientInv, ClientTyped
<1>2. Sends(l) \/ LaneGoes(l, "lock") \/ LaneEnds(l)
  BY DEF LooksFresh
<1>3. CASE LaneGoes(l, "lock")
  BY <1>1, <1>3, GoesTyped, PlaceKeeps DEF Pcs, Locked
<1> QED BY <1>1, <1>2, <1>3, SendsKeeps, LaneEndsKeeps

LEMMA LockTokenKeeps == ASSUME ClientInv, NEW l \in Lanes, LockToken(l) PROVE ClientInv'
<1>1. lane[l].pc = "lock" /\ refreshing[ClientOf[l]] = NoLane
      /\ UNCHANGED <<token, requests, session, logins, issued, renewed, done>> /\ session' \in Sessions
  BY DEF LockToken, quiet, server, ClientInv, ClientTyped
<1>2. CASE Age(l) = "near" /\ TakeLock(l)
           /\ lane' = [lane EXCEPT ![l].pc = "renew", ![l].new = token[ClientOf[l]]]
  <2>1. refreshing' \in [Clients -> Lanes \cup {NoLane}] /\ refreshing'[ClientOf[l]] = l
        /\ \A k \in Lanes \ {l} : refreshing[ClientOf[k]] = k => refreshing'[ClientOf[k]] = k
    BY <1>1, <1>2, ClientAssumption DEF TakeLock, ClientInv, ClientTyped
  <2>2. lane' \in [Lanes -> LaneRecord] /\ (\A k \in Lanes \ {l} : lane'[k] = lane[k])
        /\ lane'[l].pc = "renew" /\ lane'[l].req = lane[l].req /\ lane'[l].kind = lane[l].kind
        /\ lane'[l].left = lane[l].left /\ lane'[l].new = token[ClientOf[l]]
    <3>1. "renew" \in Pcs
      BY DEF Pcs, Locked
    <3>2. lane'[l].new = token[ClientOf[l]]
      BY <1>2, ClientLaneTyped DEF ClientInv, ClientTyped, LaneRecord
    <3> QED BY <1>2, <3>1, <3>2, SendsTyped, ClientLaneTyped
  <2>3. issued[token[ClientOf[l]]].age # "fresh"
    BY <1>2 DEF Age
  <2> QED BY <1>1, <2>1, <2>2, <2>3, PlaceKeeps
<1>3. CASE UNCHANGED refreshing /\ (Sends(l) \/ LaneEnds(l))
  BY <1>1, <1>3, SendsKeeps, LaneEndsKeeps
<1> QED BY <1>2, <1>3 DEF LockToken

LEMMA RenewFailsKeeps == ASSUME ClientInv, NEW l \in Lanes, RenewFails(l) PROVE ClientInv'
<1>1. refreshing[ClientOf[l]] = l
  BY DEF RenewFails, ClientInv, Holds, Locked
<1> QED BY <1>1, LaneEndsKeeps DEF RenewFails, quiet, server

LEMMA LoadSessionKeeps == ASSUME ClientInv, NEW l \in Lanes, LoadSession(l) PROVE ClientInv'
<1>1. refreshing[ClientOf[l]] = l /\ lane[l].pc = "load"
  BY DEF LoadSession, ClientInv, Holds, Locked
<1>2. session \in Sessions /\ refreshing \in [Clients -> Lanes \cup {NoLane}]
      /\ UNCHANGED <<token, requests, session, logins, issued, renewed, done>>
  BY DEF LoadSession, quiet, server, ClientInv, ClientTyped
<1>3. CASE UNCHANGED refreshing /\ lane' = [lane EXCEPT ![l].pc = "save", ![l].read = session]
  <2> DEFINE r == [lane[l] EXCEPT !.pc = "save", !.read = session]
  <2>1. r \in LaneRecord /\ r.pc = "save" /\ r.req = lane[l].req /\ r.kind = lane[l].kind
        /\ r.left = lane[l].left
    <3>1. "save" \in Pcs
      BY DEF Pcs, Locked
    <3> QED BY <1>2, <3>1, ClientLaneTyped DEF LaneRecord
  <2>2. lane' = [lane EXCEPT ![l] = r]
    BY <1>3 DEF ClientInv, ClientTyped
  <2> HIDE DEF r
  <2>3. lane' \in [Lanes -> LaneRecord] /\ lane'[l] = r /\ \A k \in Lanes \ {l} : lane'[k] = lane[k]
    BY <2>1, <2>2 DEF ClientInv, ClientTyped
  <2> QED BY <1>1, <1>2, <1>3, <2>1, <2>3, PlaceKeeps
<1>4. CASE Release(l) /\ Sends(l)
  BY <1>1, <1>2, <1>4, SendsKeeps
<1> QED BY <1>3, <1>4 DEF LoadSession

LEMMA SaveSessionKeeps == ASSUME ClientInv, NEW l \in Lanes, SaveSession(l) PROVE ClientInv'
<1>1. refreshing[ClientOf[l]] = l /\ lane[l].pc = "save"
  BY DEF SaveSession, ClientInv, Holds, Locked
<1>2. [lane[l].read EXCEPT !.token = lane[l].new] \in Sessions /\ session \in Sessions
  BY ClientLaneTyped DEF Sessions, ClientInv, ClientTyped
<1>3. session' \in Sessions
  BY <1>2 DEF SaveSession
<1> QED BY <1>1, <1>3, SendsKeeps DEF SaveSession, quiet, server

\* The backend does the request of a lane that waits to send it.
LEMMA DoneKeeps ==
  ASSUME ClientInv, NEW l \in Lanes, lane[l].pc = "send", LaneGoes(l, "answer"),
         done' = [done EXCEPT ![lane[l].req] = @ + 1],
         UNCHANGED <<issued, token, refreshing, requests, session, logins, renewed>>
  PROVE ClientInv'
<1>0. requests \in 0..MaxRequests /\ MaxRequests \in Nat /\ done \in [1..MaxRequests -> Nat]
      /\ lane[l].req \in 0..MaxRequests
  BY ClientLaneTyped, ClientAssumption DEF ClientInv, ClientTyped
<1> requests' \in requests..MaxRequests
  BY <1>0
<1>1. done' \in [1..MaxRequests -> Nat]
      /\ (\A r \in 1..MaxRequests : r # lane[l].req => done'[r] = done[r])
      /\ (lane[l].req # 0 \/ done' = done)
  <2>1. CASE lane[l].req = 0
    <3>1. done' = done
      BY <1>0, <2>1
    <3> QED BY <1>0, <3>1
  <2>2. CASE lane[l].req # 0
    <3>1. lane[l].req \in 1..MaxRequests /\ done[lane[l].req] + 1 \in Nat
      BY <1>0, <2>2
    <3> QED BY <1>0, <2>2, <3>1
  <2> QED BY <2>1, <2>2
<1>2. session' \in Sessions /\ refreshing' \in [Clients -> Lanes \cup {NoLane}]
  BY DEF ClientInv, ClientTyped
<1>3. lane' \in [Lanes -> LaneRecord] /\ (\A k \in Lanes \ {l} : lane'[k] = lane[k])
      /\ lane'[l].pc = "answer" /\ lane'[l].req = lane[l].req /\ lane'[l].kind = lane[l].kind
      /\ lane'[l].left = lane[l].left
  BY GoesTyped DEF Pcs
<1>4. Holds(l)'
  BY <1>3 DEF Holds, Locked
<1>5. Does(l)'
  <2>1. lane[l].kind \in {"change", "chat"} /\ lane[l].req # 0 => done'[lane[l].req] = 1
    BY <1>0 DEF ClientInv, Does
  <2> QED BY <1>3, <2>1 DEF ClientInv, Does
<1> QED BY <1>1, <1>2, <1>3, <1>4, <1>5, LaneKeeps

LEMMA SendKeeps == ASSUME ClientInv, NEW l \in Lanes, Send(l) PROVE ClientInv'
BY DoneKeeps DEF Send, quiet

LEMMA LostKeeps == ASSUME ClientInv, NEW l \in Lanes, Lost(l) PROVE ClientInv'
<1>1. lane[l].pc \in {"send", "answer"} /\ UNCHANGED <<token, refreshing, requests, session, logins, issued, renewed, done>>
      /\ refreshing' \in [Clients -> Lanes \cup {NoLane}] /\ session' \in Sessions
  BY DEF Lost, quiet, server, ClientInv, ClientTyped
<1>2. CASE lane[l].left > 1 /\ lane' = [lane EXCEPT ![l].pc = "send", ![l].left = @ - 1]
  <2> DEFINE r == [lane[l] EXCEPT !.pc = "send", !.left = @ - 1]
  <2>1. lane[l].left - 1 \in 0..2 /\ "send" \in Pcs
    BY <1>2, ClientLaneTyped DEF Pcs
  <2>2. r \in LaneRecord /\ r.pc = "send" /\ r.req = lane[l].req /\ r.kind = lane[l].kind
    BY <2>1, ClientLaneTyped DEF LaneRecord
  <2>3. lane' = [lane EXCEPT ![l] = r]
    BY <1>2 DEF ClientInv, ClientTyped
  <2> HIDE DEF r
  <2>4. lane' \in [Lanes -> LaneRecord] /\ lane'[l] = r /\ \A k \in Lanes \ {l} : lane'[k] = lane[k]
    BY <2>2, <2>3 DEF ClientInv, ClientTyped
  <2> QED BY <1>1, <1>2, <2>2, <2>4, PlaceKeeps DEF Locked
<1>3. CASE LaneEnds(l)
  BY <1>1, <1>3, LaneEndsKeeps
<1> QED BY <1>2, <1>3 DEF Lost

LEMMA LaneOverKeeps ==
  ASSUME ClientInv, NEW l \in Lanes, Answered(l) \/ Cancel(l) \/ Expired(l) PROVE ClientInv'
<1>1. CASE Answered(l) \/ Cancel(l)
  BY <1>1, LaneEndsKeeps DEF Answered, Cancel, quiet, server
<1>2. CASE Expired(l)
  BY <1>2, LaneEndsKeeps, DoneKeeps DEF Expired, quiet
<1> QED BY <1>1, <1>2

LEMMA RenewKeeps == ASSUME ClientInv, NEW l \in Lanes, Renew(l) PROVE ClientInv'
<1> DEFINE t == Cardinality(DOMAIN issued) + 1
           old == lane[l].new
           c == ClientOf[l]
<1>1. lane[l].pc = "renew" /\ old = token[c] /\ issued[old].age # "fresh" /\ refreshing[c] = l
      /\ c \in Clients /\ old \in DOMAIN issued
  BY ClientLaneTyped DEF Renew, ClientInv, Holds, Locked
<1>2. DOMAIN issued = 1..(t - 1) /\ t \in 1..MaxTokens /\ t \in Tokens /\ t \notin DOMAIN issued
      /\ DOMAIN issued \subseteq Tokens /\ MaxTokens \in Nat
  BY IssuedTyped, ClientAssumption DEF Renew, Tokens
<1>3. /\ issued' = [x \in 1..t |-> IF x = t THEN [owner |-> issued[old].owner, age |-> "fresh"]
                                   ELSE issued[x]]
      /\ token' = [token EXCEPT ![c] = t]
      /\ renewed' = [renewed EXCEPT ![c][old] = @ + 1]
      /\ lane' = [lane EXCEPT ![l].pc = "load", ![l].new = t]
      /\ UNCHANGED <<refreshing, requests, session, logins, done>>
  BY DEF Renew, quiet
<1> HIDE DEF t, old, c
<1>4. issued' \in [1..t -> Issued] /\ DOMAIN issued' = 1..t
      /\ (\A x \in DOMAIN issued : x # t /\ x \in 1..t /\ issued'[x] = issued[x])
  <2>1. [owner |-> issued[old].owner, age |-> "fresh"] \in Issued
    BY <1>1, IssuedTyped DEF Issued
  <2>2. \A x \in 1..t : x # t => issued[x] \in Issued /\ x \in DOMAIN issued
    BY <1>2, IssuedTyped
  <2>3. \A x \in DOMAIN issued : x # t /\ x \in 1..t
    BY <1>2
  <2> QED BY <1>3, <2>1, <2>2, <2>3
<1>5. token' \in [Clients -> DOMAIN issued'] /\ token'[c] = t
      /\ \A d \in Clients \ {c} : token'[d] = token[d]
  <2>1. token \in [Clients -> DOMAIN issued]
    BY DEF ClientInv, ClientTyped
  <2>2. t \in DOMAIN issued' /\ DOMAIN issued \subseteq DOMAIN issued'
    BY <1>2, <1>4
  <2> QED BY <1>1, <1>3, <2>1, <2>2
<1>6. lane' \in [Lanes -> LaneRecord] /\ (\A k \in Lanes \ {l} : lane'[k] = lane[k])
      /\ lane'[l].pc = "load" /\ lane'[l].req = lane[l].req /\ lane'[l].kind = lane[l].kind
      /\ lane'[l].left = lane[l].left
  <2>1. "load" \in Pcs /\ t \in 0..MaxTokens
    BY <1>2 DEF Pcs, Locked
  <2> QED BY <1>3, <2>1, SendsTyped
<1>7. renewed \in [Clients -> [Tokens -> 0..1]] /\ renewed[c] \in [Tokens -> 0..1] /\ old \in Tokens
  BY <1>1, <1>2 DEF ClientInv, ClientTyped
<1>8. renewed[c][old] = 0
  <2>1. renewed[c][old] # 1
    BY <1>1, <1>7 DEF ClientInv, Renewals
  <2> QED BY <1>7, <2>1
<1>9. renewed' \in [Clients -> [Tokens -> 0..1]]
      /\ \A d \in Clients, x \in Tokens : renewed'[d][x] = 1 => renewed[d][x] = 1 \/ (d = c /\ x = old)
  <2>1. renewed' = [renewed EXCEPT ![c] = [renewed[c] EXCEPT ![old] = 1]]
    BY <1>1, <1>3, <1>7, <1>8
  <2> QED BY <1>1, <1>7, <2>1
<1>10. ClientTyped'
  BY <1>2, <1>3, <1>4, <1>5, <1>6, <1>9 DEF ClientInv, ClientTyped
<1>11. Renewals'
  <2> SUFFICES ASSUME NEW d \in Clients, NEW x \in Tokens, renewed'[d][x] = 1
               PROVE x \in DOMAIN issued' /\ x # token'[d] /\ issued'[x].age # "fresh"
    BY DEF Renewals
  <2>1. x \in DOMAIN issued /\ issued[x].age # "fresh" /\ (d # c => x # token[d])
    BY <1>1, <1>9 DEF ClientInv, Renewals
  <2> QED BY <1>4, <1>5, <2>1
<1>12. ASSUME NEW k \in Lanes PROVE Holds(k)' /\ Does(k)'
  <2>1. CASE k = l
    BY <2>1, <1>1, <1>3, <1>6 DEF ClientInv, Does, Holds, Locked, c
  <2>2. CASE k # l
    <3>1. lane'[k] = lane[k]
      BY <2>2, <1>6
    <3>2. Does(k)'
      BY <1>3, <3>1 DEF ClientInv, Does
    <3>3. lane[k].pc \in Locked => refreshing[ClientOf[k]] = k /\ ClientOf[k] # c
      BY <2>2, <1>1 DEF ClientInv, Holds
    <3>4. lane[k].pc = "renew" => lane[k].new = token[ClientOf[k]] /\ issued[lane[k].new].age # "fresh"
      BY DEF ClientInv, Holds
    <3>5. lane[k].pc = "renew" => token'[ClientOf[k]] = token[ClientOf[k]]
      BY <1>5, <3>3, ClientLaneTyped DEF Locked
    <3>6. lane[k].pc = "renew" => issued'[lane[k].new] = issued[lane[k].new]
      BY <1>4, <3>4, ClientLaneTyped
    <3> QED BY <1>3, <3>1, <3>2, <3>3, <3>4, <3>5, <3>6 DEF Holds
  <2> QED BY <2>1, <2>2
<1>13. OwnRequests'
  BY <1>3, <1>6 DEF ClientInv, OwnRequests
<1> QED BY <1>10, <1>11, <1>12, <1>13 DEF ClientInv

LEMMA AgesKeeps == ASSUME ClientInv, NEW t \in DOMAIN issued, Ages(t) PROVE ClientInv'
<1>1. issued[t] \in Issued /\ issued \in [DOMAIN issued -> Issued]
      /\ UNCHANGED <<token, refreshing, lane, session, requests, logins, renewed, done>>
  BY IssuedTyped DEF Ages
<1> DEFINE r == [issued[t] EXCEPT !.age = IF @ = "fresh" THEN "near" ELSE "expired"]
<1>2. r \in Issued /\ r.age # "fresh"
  BY <1>1 DEF Issued
<1>3. issued' = [issued EXCEPT ![t] = r]
  BY <1>1 DEF Ages
<1> HIDE DEF r
<1>4. issued' \in [DOMAIN issued -> Issued] /\ DOMAIN issued' = DOMAIN issued
      /\ \A x \in DOMAIN issued : issued[x].age # "fresh" => issued'[x].age # "fresh"
  BY <1>1, <1>2, <1>3
<1>5. ClientTyped'
  <2>1. PICK n \in 1..MaxTokens : DOMAIN issued = 1..n
    BY DEF ClientInv, ClientTyped
  <2>2. issued' \in [1..n -> Issued]
    BY <1>4, <2>1
  <2> QED BY <1>1, <1>4, <2>2 DEF ClientInv, ClientTyped
<1>6. Renewals'
  BY <1>1, <1>4 DEF ClientInv, Renewals
<1>7. ASSUME NEW l \in Lanes PROVE Holds(l)' /\ Does(l)'
  <2>1. lane[l].pc = "renew" => lane[l].new \in DOMAIN issued
    BY ClientLaneTyped DEF ClientInv, Holds
  <2> QED BY <1>1, <1>4, <2>1 DEF ClientInv, Holds, Does
<1>8. OwnRequests'
  BY <1>1 DEF ClientInv, OwnRequests
<1> QED BY <1>5, <1>6, <1>7, <1>8 DEF ClientInv

LEMMA LoginKeeps == ASSUME ClientInv, NEW u \in Users, Login(u) PROVE ClientInv'
<1> DEFINE t == Cardinality(DOMAIN issued) + 1
<1>1. DOMAIN issued = 1..(t - 1) /\ t \in 1..MaxTokens /\ t \in 0..MaxTokens
  BY IssuedTyped, ClientAssumption DEF Login
<1>2. /\ issued' = [x \in 1..t |-> IF x = t THEN [owner |-> u, age |-> "fresh"] ELSE issued[x]]
      /\ session' = [user |-> u, token |-> t]
      /\ UNCHANGED <<token, refreshing, lane, requests, renewed, done>>
      /\ logins' \in 0..MaxLogins
  BY ClientAssumption DEF Login, UserActs, ClientInv, ClientTyped
<1> HIDE DEF t
<1>3. issued' \in [1..t -> Issued] /\ DOMAIN issued \subseteq DOMAIN issued'
      /\ \A x \in DOMAIN issued : issued'[x] = issued[x]
  <2>1. [owner |-> u, age |-> "fresh"] \in Issued
    BY DEF Issued
  <2>2. \A x \in 1..t : x # t => issued[x] \in Issued /\ x \in DOMAIN issued
    BY <1>1, IssuedTyped
  <2>3. \A x \in DOMAIN issued : x # t /\ x \in 1..t
    BY <1>1
  <2> QED BY <1>2, <2>1, <2>2, <2>3
<1>4. ClientTyped'
  <2>1. session' \in Sessions
    BY <1>1, <1>2 DEF Sessions
  <2>2. token' \in [Clients -> DOMAIN issued']
    BY <1>2, <1>3 DEF ClientInv, ClientTyped
  <2> QED BY <1>1, <1>2, <1>3, <2>1, <2>2 DEF ClientInv, ClientTyped
<1>5. Renewals'
  BY <1>2, <1>3 DEF ClientInv, Renewals
<1>6. ASSUME NEW l \in Lanes PROVE Holds(l)' /\ Does(l)'
  <2>1. lane[l].pc = "renew" => lane[l].new \in DOMAIN issued
    BY ClientLaneTyped DEF ClientInv, Holds
  <2> QED BY <1>2, <1>3, <2>1 DEF ClientInv, Holds, Does
<1>7. OwnRequests'
  BY <1>2 DEF ClientInv, OwnRequests
<1> QED BY <1>4, <1>5, <1>6, <1>7 DEF ClientInv

LEMMA LogoutKeeps == ASSUME ClientInv, Logout PROVE ClientInv'
<1>1. UNCHANGED <<issued, token, refreshing, lane, requests, renewed, done>>
      /\ logins' \in 0..MaxLogins /\ session' \in Sessions
  BY ClientAssumption DEF Logout, UserActs, NoSession, Sessions, ClientInv, ClientTyped
<1> QED BY <1>1 DEF ClientInv, ClientTyped, Renewals, OwnRequests, Holds, Does

LEMMA ClientAlways == ClientSpec => []ClientInv
<1>1. ASSUME ClientInit PROVE ClientInv
  <2>1. PICK u \in Users : issued = <<[owner |-> u, age |-> "fresh"]>> /\ session = [user |-> u, token |-> 1]
    BY <1>1 DEF ClientInit
  <2>2. MaxTokens \in Nat \ {0} /\ MaxRequests \in Nat /\ MaxLogins \in Nat
    BY ClientAssumption
  <2>3. issued \in [1..1 -> Issued] /\ 1 \in 1..MaxTokens /\ 1 \in DOMAIN issued
    BY <2>1, <2>2 DEF Issued
  <2>4. session \in Sessions
    BY <2>1, <2>2 DEF Sessions
  <2>5. ClientTyped
    BY <1>1, <2>2, <2>3, <2>4, RestingTyped DEF ClientInit, ClientTyped
  <2>6. Renewals /\ OwnRequests
    BY <1>1, <2>2, RestingTyped DEF ClientInit, Renewals, OwnRequests
  <2>7. ASSUME NEW l \in Lanes PROVE Holds(l) /\ Does(l)
    BY <1>1, RestingTyped DEF ClientInit, Holds, Does, Locked
  <2> QED BY <2>5, <2>6, <2>7 DEF ClientInv
<1>2. ClientInv /\ [ClientNext]_clientVars => ClientInv'
  <2> SUFFICES ASSUME ClientInv, [ClientNext]_clientVars PROVE ClientInv'
    OBVIOUS
  <2>1. ASSUME NEW l \in Lanes, LaneStep(l) PROVE ClientInv'
    BY <2>1, BeginRequestKeeps, LooksFreshKeeps, LockTokenKeeps, RenewKeeps, RenewFailsKeeps,
       LoadSessionKeeps, SaveSessionKeeps, SendKeeps, LostKeeps, LaneOverKeeps DEF LaneStep
  <2>2. CASE UNCHANGED clientVars
    BY <2>2 DEF clientVars, ClientInv, ClientTyped, Renewals, OwnRequests, Holds, Does
  <2> QED BY <2>1, <2>2, AgesKeeps, LoginKeeps, LogoutKeeps DEF ClientNext
<1> QED BY <1>1, <1>2, PTL DEF ClientSpec

\* Lanes that share a client renew a token once between them, and what must not be repeated
\* is done once, for any number of lanes, clients, tokens and lost answers.
THEOREM OnceForAll == ClientSpec => []OnceOnly
<1>1. ClientInv => OnceOnly
  <2> SUFFICES ASSUME ClientInv PROVE OnceOnly
    OBVIOUS
  <2>1. RenewedOnce
    <3>1. \A c \in Clients, t \in Tokens : renewed[c][t] \in 0..1
      BY DEF ClientInv, ClientTyped
    <3> QED BY <3>1 DEF ClientInv, Renewals, RenewedOnce
  <2>2. DoneOnce
    BY DEF ClientInv, Does, DoneOnce
  <2> QED BY <2>1, <2>2 DEF OnceOnly
<1> QED BY <1>1, ClientAlways, PTL

\* The lock of a client is held by one of its lanes.
LocksOwn == \A c \in Clients : refreshing[c] # NoLane => ClientOf[refreshing[c]] = c

\* A lane takes the lock of its own client and of no other.
LEMMA LocksStayOwn ==
  ASSUME ClientInv, LocksOwn, [ClientNext]_clientVars
  PROVE  LocksOwn'
<1>1. refreshing \in [Clients -> Lanes \cup {NoLane}] /\ ClientOf \in [Lanes -> Clients]
  BY ClientAssumption DEF ClientInv, ClientTyped
<1>2. UNCHANGED refreshing \/ \E l \in Lanes : Release(l) \/ TakeLock(l)
  <2>1. ASSUME NEW l \in Lanes, LaneStep(l) PROVE UNCHANGED refreshing \/ Release(l) \/ TakeLock(l)
    BY <2>1 DEF LaneStep, BeginRequest, LooksFresh, LockToken, Renew, RenewFails, LoadSession,
      SaveSession, Send, Answered, Lost, Expired, Cancel
  <2> QED BY <2>1 DEF ClientNext, clientVars, Ages, Login, Logout, UserActs
<1> QED BY <1>1, <1>2 DEF LocksOwn, Release, TakeLock

\* The lock of a client is held by its own lanes, and no token is used that was not issued,
\* however many lanes renew and are cancelled (_ensure_token_fresh() of client.py).
THEOREM ClientTypes == ClientSpec => []ClientTypeOK
<1>1. ASSUME ClientInit PROVE LocksOwn
  BY <1>1 DEF ClientInit, LocksOwn
<1>2. ClientInv /\ LocksOwn /\ [ClientNext]_clientVars => LocksOwn'
  BY LocksStayOwn
<1>3. ClientInv /\ LocksOwn => ClientTypeOK
  <2> SUFFICES ASSUME ClientInv, LocksOwn PROVE ClientTypeOK
    OBVIOUS
  <2>1. \A c \in Clients : token[c] \in DOMAIN issued
    BY DEF ClientInv, ClientTyped
  <2>2. \A l \in Lanes : lane[l] \in LaneRecord
    BY DEF ClientInv, ClientTyped
  <2>3. \A l \in Lanes : lane[l].pc \in Pcs
    BY <2>2 DEF LaneRecord
  <2>4. session \in Sessions
    BY DEF ClientInv, ClientTyped
  <2>5. session.user \in Users \cup {NoUser} /\ session.token \in 0..MaxTokens
    BY <2>4 DEF Sessions
  <2> QED BY <2>1, <2>3, <2>5 DEF ClientTypeOK, LocksOwn, Pcs, Locked
<1> QED BY <1>1, <1>2, <1>3, ClientAlways, PTL DEF ClientSpec

--------------------------------------------------------------------------------
(* Approval.  A request is at most in one place on its way to the window: in  *)
(* the queue, in a dialog, or answered and not yet handed over (Live).  Its   *)
(* answer reaches the run's box once, when it is live no more; so a later     *)
(* request can be given it only if the first was not waited for.              *)

Occurs(x, s) == \E i \in 1..Len(s) : s[i] = x
Distinct(s) == \A i, j \in 1..Len(s) : s[i] = s[j] => i = j

LEMMA TailTokens ==
  ASSUME NEW s \in Seq(Nat), s # <<>>, Distinct(s)
  PROVE /\ Tail(s) \in Seq(Nat) /\ Head(s) \in Nat /\ Distinct(Tail(s))
        /\ Occurs(Head(s), s) /\ ~Occurs(Head(s), Tail(s))
        /\ \A x : Occurs(x, Tail(s)) <=> Occurs(x, s) /\ x # Head(s)
<1>1. Len(s) \in Nat /\ Len(s) > 0 /\ Head(s) = s[1] /\ Tail(s) \in Seq(Nat)
      /\ Len(Tail(s)) = Len(s) - 1 /\ \A i \in 1..Len(Tail(s)) : Tail(s)[i] = s[i + 1]
  BY EmptySeq, HeadTailProperties
<1>2. Distinct(Tail(s))
  BY <1>1 DEF Distinct
<1>3. Occurs(Head(s), s) /\ ~Occurs(Head(s), Tail(s))
  BY <1>1 DEF Occurs, Distinct
<1>4. ASSUME NEW x, Occurs(x, s), x # Head(s) PROVE Occurs(x, Tail(s))
  <2>1. PICK i \in 1..Len(s) : s[i] = x
    BY <1>4 DEF Occurs
  <2>2. i # 1 /\ i - 1 \in 1..Len(Tail(s)) /\ Tail(s)[i - 1] = x
    BY <1>1, <1>4, <2>1
  <2> QED BY <2>2 DEF Occurs
<1>5. ASSUME NEW x, Occurs(x, Tail(s)) PROVE Occurs(x, s) /\ x # Head(s)
  BY <1>1, <1>3, <1>5 DEF Occurs
<1>6. Head(s) \in Nat
  BY <1>1
<1> QED BY <1>1, <1>2, <1>3, <1>4, <1>5, <1>6

LEMMA AppendToken ==
  ASSUME NEW s \in Seq(Nat), NEW y \in Nat, Distinct(s), ~Occurs(y, s)
  PROVE /\ Append(s, y) \in Seq(Nat) /\ Distinct(Append(s, y))
        /\ \A x : Occurs(x, Append(s, y)) <=> Occurs(x, s) \/ x = y
<1>1. Append(s, y) \in Seq(Nat) /\ Len(Append(s, y)) = Len(s) + 1 /\ Len(s) \in Nat
      /\ Append(s, y)[Len(s) + 1] = y /\ \A i \in 1..Len(s) : Append(s, y)[i] = s[i]
  BY AppendProperties
<1>2. \A i \in 1..(Len(s) + 1) : i \in 1..Len(s) \/ i = Len(s) + 1
  BY <1>1
<1>3. Distinct(Append(s, y))
  BY <1>1, <1>2 DEF Distinct, Occurs
<1>4. \A x : Occurs(x, Append(s, y)) <=> Occurs(x, s) \/ x = y
  BY <1>1, <1>2 DEF Occurs
<1> QED BY <1>1, <1>3, <1>4

LEMMA PushToken ==
  ASSUME NEW s \in Seq(Nat), NEW y \in Nat, Distinct(s), ~Occurs(y, s)
  PROVE /\ <<y>> \o s \in Seq(Nat) /\ Distinct(<<y>> \o s)
        /\ \A x : Occurs(x, <<y>> \o s) <=> Occurs(x, s) \/ x = y
<1> DEFINE t == <<y>> \o s
<1>1. t \in Seq(Nat) /\ Len(t) = Len(s) + 1 /\ Len(s) \in Nat
      /\ t[1] = y /\ \A i \in 1..Len(s) : t[i + 1] = s[i]
  <2>1. <<y>> \in Seq(Nat) /\ Len(<<y>>) = 1 /\ <<y>>[1] = y
    OBVIOUS
  <2>2. t \in Seq(Nat) /\ Len(t) = 1 + Len(s) /\ Len(s) \in Nat
        /\ \A i \in 1..Len(t) : t[i] = IF i <= 1 THEN <<y>>[i] ELSE s[i - 1]
    BY <2>1, ConcatProperties
  <2> HIDE DEF t
  <2> QED BY <2>1, <2>2
<1> HIDE DEF t
<1>2. \A i \in 1..Len(t) : i = 1 \/ (i - 1 \in 1..Len(s) /\ t[i] = s[i - 1])
  <2>1. ASSUME NEW i \in 1..Len(t), i # 1 PROVE i - 1 \in 1..Len(s) /\ t[i] = s[i - 1]
    <3>1. i - 1 \in 1..Len(s) /\ (i - 1) + 1 = i
      BY <1>1, <2>1
    <3>2. t[(i - 1) + 1] = s[i - 1]
      BY <1>1, <3>1
    <3> QED BY <3>1, <3>2
  <2> QED BY <2>1
<1>3. Distinct(t)
  <2> SUFFICES ASSUME NEW i \in 1..Len(t), NEW j \in 1..Len(t), t[i] = t[j] PROVE i = j
    BY DEF Distinct
  <2>1. \A k \in 1..Len(t) : k # 1 => t[k] # y
    BY <1>2 DEF Occurs
  <2>2. CASE i = 1 \/ j = 1
    BY <1>1, <2>1, <2>2
  <2>3. CASE i # 1 /\ j # 1
    <3>1. i - 1 \in 1..Len(s) /\ j - 1 \in 1..Len(s) /\ s[i - 1] = s[j - 1]
      BY <1>2, <2>3
    <3>2. i - 1 = j - 1
      BY <3>1 DEF Distinct
    <3> QED BY <3>2
  <2> QED BY <2>2, <2>3
<1>4. ASSUME NEW x PROVE Occurs(x, t) <=> Occurs(x, s) \/ x = y
  <2>1. ASSUME Occurs(x, s) PROVE Occurs(x, t)
    <3>1. PICK i \in 1..Len(s) : s[i] = x
      BY <2>1 DEF Occurs
    <3>2. i + 1 \in 1..Len(t) /\ t[i + 1] = x
      BY <1>1, <3>1
    <3> QED BY <3>2 DEF Occurs
  <2>2. Occurs(y, t)
    BY <1>1 DEF Occurs
  <2>3. ASSUME Occurs(x, t) PROVE Occurs(x, s) \/ x = y
    BY <1>1, <1>2, <2>3 DEF Occurs
  <2> QED BY <2>1, <2>2, <2>3
<1> QED BY <1>1, <1>3, <1>4 DEF t

AnyCall == UNION {Calls[s] : s \in Surfaces}
AnswerBoxes == [set : BOOLEAN, yes : BOOLEAN, by : Nat]
ApprovalTyped ==
  /\ surface \in Surfaces /\ run \in 1..MaxRuns
  /\ agent \in [pc : {"idle", "cleared", "waiting", "over"}, req : Nat, child : BOOLEAN]
  /\ box \in [1..MaxRuns -> AnswerBoxes]
  /\ queue \in Seq(Nat) /\ dialogs \in Seq(Nat)
  /\ window \in [req : Nat, yes : BOOLEAN, put : BOOLEAN]
  /\ made \in Seq([call : AnyCall, run : 1..MaxRuns])
  /\ said \in [Requests -> {"nothing", "yes", "no"}] /\ Latest <= MaxApprovals

InWindow(r) == window.req = r /\ ~window.put
Live(r) == r # 0 /\ (Occurs(r, queue) \/ Occurs(r, dialogs) \/ InWindow(r))
Permits(r) == ~Grave(made[r].call) \/ said[r] = "yes"

Handed ==
  /\ Distinct(queue) /\ Distinct(dialogs)
  /\ \A r : Occurs(r, queue) => ~Occurs(r, dialogs) /\ ~InWindow(r) /\ r \in 1..Latest
  /\ \A r : Occurs(r, dialogs) => ~InWindow(r) /\ r \in 1..Latest
  /\ IF window.req = 0 THEN ~window.put ELSE window.req \in 1..Latest
  /\ window.req # 0 /\ window.yes => Permits(window.req)
BoxFits(n) ==
  LET b == box[n].by
  IN /\ b \in 0..Latest /\ (box[n].yes => b # 0)
     /\ b # 0 => ~Live(b) /\ made[b].run = n /\ (box[n].yes => Permits(b))
Asker ==
  /\ agent.pc \in {"cleared", "waiting"} <=> agent.req # 0
  /\ agent.req # 0 => /\ agent.req \in 1..Latest /\ agent.req \notin DOMAIN ran
                      /\ made[agent.req].run = run /\ ~Denied(made[agent.req].call)
  /\ agent.pc = "cleared" => ~Live(agent.req) /\ \A n \in 1..MaxRuns : box[n].by # agent.req
  /\ agent.pc = "waiting" => box[run].by \in {0, agent.req} \cup givenUp
  /\ \A r : Live(r) => r = agent.req \/ r \in givenUp
RanWell(r) ==
  /\ r \in 1..Latest /\ ~Denied(made[r].call)
  /\ ran[r] = 0 => ~Grave(made[r].call)
                   \/ (surface = "repair" /\ made[r].call = {"escape", "acceptance"})
  /\ ran[r] = r => Permits(r) /\ ~Live(r)
  /\ ran[r] \notin {0, r} => ran[r] \in givenUp /\ ran[r] \in 1..Latest /\ made[ran[r]].run = made[r].run
ApprovalInv ==
  /\ ApprovalTyped /\ Handed /\ Asker
  /\ \A n \in 1..MaxRuns : BoxFits(n)
  /\ \A r \in DOMAIN ran : RanWell(r)

LEMMA LatestTyped ==
  ASSUME ApprovalInv
  PROVE /\ Latest \in Nat /\ DOMAIN made = 1..Latest
        /\ \A r \in 1..Latest : made[r].run \in 1..MaxRuns /\ made[r].call \in AnyCall
        /\ MaxRuns \in Nat /\ MaxApprovals \in Nat
<1>1. made \in Seq([call : AnyCall, run : 1..MaxRuns])
  BY DEF ApprovalInv, ApprovalTyped
<1>2. Latest \in Nat /\ DOMAIN made = 1..Latest
  BY <1>1, LenProperties DEF Latest
<1>3. \A r \in 1..Latest : made[r] \in [call : AnyCall, run : 1..MaxRuns]
  BY <1>1, ElementOfSeq DEF Latest
<1> QED BY <1>2, <1>3, ApprovalAssumption

--------------------------------------------------------------------------------
(* A new request.                                                             *)

\* What has been asked before stays as it is.
LEMMA RequestAdds ==
  ASSUME ApprovalInv, NEW c \in Calls[surface], Request(c)
  PROVE /\ made' \in Seq([call : AnyCall, run : 1..MaxRuns])
        /\ Latest' = Latest + 1 /\ Latest \in Nat /\ Latest' <= MaxApprovals
        /\ made'[Latest + 1].call = c /\ made'[Latest + 1].run = run
        /\ \A r \in 1..Latest : made'[r] = made[r]
        /\ agent.pc = "idle" /\ agent.req = 0
        /\ UNCHANGED <<surface, contract, mode, run, stopped>>
<1>1. c \in AnyCall /\ run \in 1..MaxRuns
  BY DEF ApprovalInv, ApprovalTyped, AnyCall
<1>2. made' = Append(made, [call |-> c, run |-> run]) /\ Latest < MaxApprovals /\ agent.pc = "idle"
      /\ UNCHANGED <<surface, contract, mode, run, stopped>>
  BY DEF Request, hidden
<1>3. [call |-> c, run |-> run] \in [call : AnyCall, run : 1..MaxRuns]
      /\ made \in Seq([call : AnyCall, run : 1..MaxRuns])
  BY <1>1 DEF ApprovalInv, ApprovalTyped
<1>4. made' \in Seq([call : AnyCall, run : 1..MaxRuns]) /\ Len(made') = Len(made) + 1
      /\ made'[Len(made) + 1] = [call |-> c, run |-> run]
      /\ \A r \in 1..Len(made) : made'[r] = made[r]
  BY <1>2, <1>3, AppendProperties
<1>5. agent.req = 0
  BY <1>2 DEF ApprovalInv, Asker
<1> QED BY <1>2, <1>4, <1>5, LatestTyped DEF Latest

\* Whatever becomes of the request, provided that nothing has happened yet in the window,
\* and that a call that runs at once may.
LEMMA RequestKeeps ==
  ASSUME ApprovalInv, NEW c \in Calls[surface], Request(c),
         UNCHANGED <<queue, dialogs, window, givenUp>>,
         box' \in [1..MaxRuns -> AnswerBoxes],
         \A n \in 1..MaxRuns : box'[n].yes = box[n].yes /\ box'[n].by = box[n].by,
         said' \in [Requests -> {"nothing", "yes", "no"}],
         \A r \in 1..Latest : said'[r] = said[r],
         agent' \in [pc : {"idle", "cleared", "over"}, req : Nat, child : BOOLEAN],
         IF agent'.pc = "cleared" THEN agent'.req = Latest + 1 /\ Passes(c) /\ ran' = ran
         ELSE agent'.req = 0,
         \/ ran' = ran
         \/ /\ Passes(c) /\ Runs(Latest + 1, 0)
            /\ ~Grave(c) \/ (surface = "repair" /\ c = {"escape", "acceptance"})
         \/ /\ Passes(c) /\ Runs(Latest + 1, Latest + 1)
            /\ ~Grave(c) \/ said'[Latest + 1] = "yes"
  PROVE ApprovalInv'
<1>1. /\ made' \in Seq([call : AnyCall, run : 1..MaxRuns])
      /\ Latest' = Latest + 1 /\ Latest \in Nat /\ Latest' <= MaxApprovals
      /\ made'[Latest + 1].call = c /\ made'[Latest + 1].run = run
      /\ \A r \in 1..Latest : made'[r] = made[r]
      /\ agent.pc = "idle" /\ agent.req = 0
      /\ UNCHANGED <<surface, contract, mode, run, stopped>>
  BY RequestAdds
<1>2. ApprovalTyped'
  BY <1>1 DEF ApprovalInv, ApprovalTyped
<1>3. \A r : Live(r)' <=> Live(r)
  BY DEF Live, InWindow
<1>4. \A r \in 1..Latest : r \in 1..Latest' /\ (Permits(r) <=> Permits(r)')
      /\ (Denied(made[r].call)' <=> Denied(made[r].call)) /\ r # Latest + 1
  BY <1>1 DEF Permits, Grave, Denied
<1>5. \A r : Live(r) => r \in 1..Latest
  BY DEF ApprovalInv, Handed, Live, InWindow
<1>6. Handed'
  BY <1>1, <1>4 DEF ApprovalInv, Handed, InWindow
<1>7. ASSUME NEW n \in 1..MaxRuns PROVE BoxFits(n)'
  <2>1. box[n].by \in 0..Latest /\ box'[n].by = box[n].by /\ box'[n].yes = box[n].yes
        /\ (box[n].yes => box[n].by # 0)
    BY DEF ApprovalInv, BoxFits
  <2>2. CASE box[n].by = 0
    BY <1>1, <2>1, <2>2 DEF BoxFits
  <2>3. CASE box[n].by # 0
    <3>1. box[n].by \in 1..Latest /\ box[n].by \in 0..Latest'
      BY <1>1, <2>1, <2>3
    <3>2. ~Live(box[n].by) /\ made[box[n].by].run = n /\ (box[n].yes => Permits(box[n].by))
      BY <2>3 DEF ApprovalInv, BoxFits
    <3> QED BY <1>1, <1>3, <1>4, <2>1, <3>1, <3>2 DEF BoxFits
  <2> QED BY <2>1, <2>2, <2>3
<1>8. \A r \in DOMAIN ran : r \in 1..Latest
  BY DEF ApprovalInv, RanWell
<1>9. Passes(c) => ~Denied(c)'
  BY <1>1 DEF Passes, Denied
<1>10. Asker'
  <2>1. CASE agent'.pc = "cleared"
    <3>1. agent'.req = Latest + 1 /\ Passes(c) /\ ran' = ran
      BY <2>1
    <3>2. agent'.req \in 1..Latest' /\ agent'.req # 0 /\ agent'.req \notin DOMAIN ran'
      BY <1>1, <1>8, <3>1
    <3>3. made'[agent'.req].run = run' /\ ~Denied(made[agent.req].call)'
      BY <1>1, <1>9, <3>1 DEF Denied
    <3>4. ~Live(agent.req)'
      BY <1>1, <1>3, <1>5, <3>1
    <3>5. \A n \in 1..MaxRuns : box'[n].by # agent'.req
      <4>1. ASSUME NEW n \in 1..MaxRuns PROVE box'[n].by # Latest + 1
        <5>1. box[n].by \in 0..Latest
          BY DEF ApprovalInv, BoxFits
        <5>2. box'[n].by = box[n].by /\ Latest \in Nat
          BY <1>1
        <5>3. \A k \in 0..Latest : k # Latest + 1
          BY <5>2
        <5> QED BY <5>1, <5>2, <5>3
      <4> QED BY <3>1, <4>1
    <3>6. \A r : Live(r)' => r \in givenUp'
      BY <1>1, <1>3 DEF ApprovalInv, Asker, Live
    <3> QED BY <2>1, <3>2, <3>3, <3>4, <3>5, <3>6 DEF Asker
  <2>2. CASE agent'.pc # "cleared"
    <3>1. agent'.req = 0 /\ agent'.pc \notin {"cleared", "waiting"}
      BY <2>2
    <3>2. \A r : Live(r)' => r \in givenUp'
      BY <1>1, <1>3 DEF ApprovalInv, Asker, Live
    <3> QED BY <3>1, <3>2 DEF Asker
  <2> QED BY <2>1, <2>2
<1>11. ASSUME NEW r \in DOMAIN ran, ran'[r] = ran[r] PROVE RanWell(r)'
  <2>1. RanWell(r) /\ r \in 1..Latest
    BY <1>8 DEF ApprovalInv
  <2>2. /\ r \in 1..Latest' /\ made'[r] = made[r] /\ ~Denied(made[r].call)
        /\ ~Denied(made[r].call)'
    BY <1>1, <1>4, <2>1 DEF RanWell
  <2>3. ran[r] = 0 => ~Grave(made[r].call)
                      \/ (surface = "repair" /\ made[r].call = {"escape", "acceptance"})
    BY <2>1 DEF RanWell
  <2>4. ran[r] = r => Permits(r)' /\ ~Live(r)'
    BY <1>3, <1>4, <2>1 DEF RanWell
  <2>5. ran[r] \notin {0, r} => /\ ran[r] \in givenUp' /\ ran[r] \in 1..Latest'
                               /\ made'[ran[r]].run = made'[r].run
    BY <1>1, <1>4, <2>1, <2>2 DEF RanWell
  <2>6. Grave(made[r].call)' <=> Grave(made[r].call)
    BY <2>2 DEF Grave
  <2> QED BY <1>1, <1>11, <2>2, <2>3, <2>4, <2>5, <2>6 DEF RanWell
<1>12. ASSUME NEW r \in DOMAIN ran' PROVE RanWell(r)'
  <2>1. CASE ran' = ran
    BY <1>11, <2>1
  <2>2. CASE r = Latest + 1 /\ Passes(c) /\ ran'[r] = 0
             /\ (~Grave(c) \/ (surface = "repair" /\ c = {"escape", "acceptance"}))
    <3>1. r \in 1..Latest' /\ r # 0 /\ made'[r].call = c
      BY <1>1, <2>2
    <3>2. ~Denied(made[r].call)'
      BY <1>1, <1>9, <2>2, <3>1 DEF Denied
    <3> QED BY <1>1, <2>2, <3>1, <3>2 DEF RanWell, Grave
  <2>3. CASE r = Latest + 1 /\ Passes(c) /\ ran'[r] = Latest + 1
             /\ (~Grave(c) \/ said'[Latest + 1] = "yes")
    <3>1. r \in 1..Latest' /\ r # 0 /\ made'[r].call = c /\ ~Live(r)'
      BY <1>1, <1>3, <1>5, <2>3
    <3>2. ~Denied(made[r].call)'
      BY <1>1, <1>9, <2>3, <3>1 DEF Denied
    <3> QED BY <1>1, <2>3, <3>1, <3>2 DEF RanWell, Permits, Grave
  <2>4. CASE r # Latest + 1 /\ ran' # ran
    <3>1. r \in DOMAIN ran /\ ran'[r] = ran[r]
      BY <2>4 DEF Runs
    <3> QED BY <1>11, <3>1
  <2>5. ran' # ran /\ r = Latest + 1 => Passes(c) /\
          \/ ran'[r] = 0 /\ (~Grave(c) \/ (surface = "repair" /\ c = {"escape", "acceptance"}))
          \/ ran'[r] = Latest + 1 /\ (~Grave(c) \/ said'[Latest + 1] = "yes")
    BY DEF Runs
  <2> QED BY <2>1, <2>2, <2>3, <2>4, <2>5
<1> QED BY <1>2, <1>6, <1>7, <1>10, <1>12, <1>1 DEF ApprovalInv

\* What is not asked for, approved by a mode, or allowed by the policy of a stage, is not
\* grave, but for the final repair reading an acceptance test.
LEMMA LetThrough ==
  ASSUME NEW c
  PROVE /\ ~Asks(c) => ~Grave(c)
        /\ \A m : Automatic(c, m) => ~Grave(c)
        /\ StageAllows(c) => ~Grave(c) \/ (surface = "repair" /\ c = {"escape", "acceptance"})
<1>1. ~Asks(c) => ~Grave(c)
  BY DEF Asks, Grave, NeedsApproval
<1>2. \A m : Automatic(c, m) => ~Grave(c)
  BY DEF Automatic, Grave, NeedsApproval
<1>3. (Harmless(c) => ~Grave(c)) /\ (CandidateAllows(c) => ~Grave(c))
  BY DEF Harmless, CandidateAllows
<1>4. StageAllows(c) => \/ ResearchAllows(c) \/ BrainstormAllows(c) \/ PlanningAllows(c)
                        \/ (surface = "repair" /\ RepairAllows(c)) \/ CandidateAllows(c)
  BY DEF StageAllows
<1> QED BY <1>1, <1>2, <1>3, <1>4 DEF ResearchAllows, BrainstormAllows, PlanningAllows, RepairAllows

LEMMA AgentTyped ==
  ASSUME ApprovalInv, NEW c \in Calls[surface], Request(c),
         UNCHANGED agent \/ Rejected
  PROVE /\ agent' \in [pc : {"idle", "cleared", "over"}, req : Nat, child : BOOLEAN]
        /\ agent'.pc # "cleared" /\ agent'.req = 0
<1>1. agent \in [pc : {"idle", "cleared", "waiting", "over"}, req : Nat, child : BOOLEAN]
      /\ agent.pc = "idle" /\ agent.req = 0
  BY DEF ApprovalInv, ApprovalTyped, Asker, Request
<1>2. AgentRests.pc = "idle" /\ AgentRests.req = 0
      /\ AgentRests \in [pc : {"idle", "cleared", "over"}, req : Nat, child : BOOLEAN]
  BY DEF AgentRests
<1>3. CASE UNCHANGED agent
  BY <1>1, <1>3
<1>4. CASE Rejected
  BY <1>2, <1>4 DEF Rejected
<1> QED BY <1>3, <1>4

LEMMA WindowUnused ==
  ASSUME ApprovalInv, UNCHANGED desktop
  PROVE /\ UNCHANGED <<queue, dialogs, window>> /\ box' \in [1..MaxRuns -> AnswerBoxes]
        /\ \A n \in 1..MaxRuns : box'[n].yes = box[n].yes /\ box'[n].by = box[n].by
BY DEF desktop, ApprovalInv, ApprovalTyped

LEMMA SaidStays ==
  ASSUME ApprovalInv, said' = said
  PROVE said' \in [Requests -> {"nothing", "yes", "no"}] /\ \A r \in 1..Latest : said'[r] = said[r]
BY DEF ApprovalInv, ApprovalTyped

LEMMA BlockedKeeps ==
  ASSUME ApprovalInv, NEW c \in Calls[surface], Blocked(c) PROVE ApprovalInv'
BY AgentTyped, WindowUnused, SaidStays, RequestKeeps DEF Blocked

LEMMA UnaskedKeeps ==
  ASSUME ApprovalInv, NEW c \in Calls[surface], Unasked(c) PROVE ApprovalInv'
BY AgentTyped, WindowUnused, SaidStays, RequestKeeps, LetThrough DEF Unasked

LEMMA AskPolicyKeeps ==
  ASSUME ApprovalInv, NEW c \in Calls[surface], AskPolicy(c) PROVE ApprovalInv'
<1>1. Request(c) /\ Passes(c) /\ UNCHANGED <<desktop, said, givenUp>>
  BY DEF AskPolicy
<1>2. \/ /\ Automatic(c, mode) \/ StageAllows(c)
         /\ Runs(Latest + 1, 0) /\ UNCHANGED agent
      \/ ran' = ran /\ (UNCHANGED agent \/ Rejected)
  BY DEF AskPolicy
<1> QED BY <1>1, <1>2, AgentTyped, WindowUnused, SaidStays, RequestKeeps, LetThrough

LEMMA AskTerminalKeeps ==
  ASSUME ApprovalInv, NEW c \in Calls[surface], AskTerminal(c) PROVE ApprovalInv'
<1>1. PICK yes \in BOOLEAN, password \in BOOLEAN :
       /\ said' = IF Automatic(c, mode) THEN said
                  ELSE [said EXCEPT ![Latest + 1] = IF yes THEN "yes" ELSE "no"]
       /\ IF (Automatic(c, mode) \/ yes) /\ ("elevate" \in c => password)
          THEN Runs(Latest + 1, Latest + 1) /\ UNCHANGED agent
          ELSE UNCHANGED ran /\ Rejected
  BY DEF AskTerminal
<1>2. Request(c) /\ Passes(c) /\ UNCHANGED <<desktop, givenUp>>
  BY DEF AskTerminal
<1>3. Latest + 1 \in Requests /\ Latest \in Nat /\ said \in [Requests -> {"nothing", "yes", "no"}]
  BY <1>2, LatestTyped DEF Request, Requests, ApprovalInv, ApprovalTyped
<1>4. said' \in [Requests -> {"nothing", "yes", "no"}] /\ \A r \in 1..Latest : said'[r] = said[r]
  BY <1>1, <1>3
<1>5. CASE Runs(Latest + 1, Latest + 1) /\ UNCHANGED agent /\ (Automatic(c, mode) \/ yes)
  <2>1. ~Grave(c) \/ said'[Latest + 1] = "yes"
    BY <1>1, <1>3, <1>5, LetThrough
  <2> QED BY <1>2, <1>4, <1>5, <2>1, AgentTyped, WindowUnused, RequestKeeps
<1>6. CASE UNCHANGED ran /\ Rejected
  BY <1>2, <1>4, <1>6, AgentTyped, WindowUnused, RequestKeeps
<1> QED BY <1>1, <1>5, <1>6

LEMMA AskWindowKeeps ==
  ASSUME ApprovalInv, NEW c \in Calls[surface], AskWindow(c) PROVE ApprovalInv'
<1>1. Request(c) /\ Passes(c) /\ UNCHANGED <<queue, dialogs, window, said, givenUp, ran>>
      /\ agent' = [agent EXCEPT !.pc = "cleared", !.req = Latest + 1]
      /\ box' = [box EXCEPT ![run].set = FALSE]
  BY DEF AskWindow
<1>2. agent' \in [pc : {"idle", "cleared", "over"}, req : Nat, child : BOOLEAN]
      /\ agent'.pc = "cleared" /\ agent'.req = Latest + 1
  <2>1. agent \in [pc : {"idle", "cleared", "waiting", "over"}, req : Nat, child : BOOLEAN]
    BY DEF ApprovalInv, ApprovalTyped
  <2>2. Latest + 1 \in Nat
    BY LatestTyped
  <2> QED BY <1>1, <2>1, <2>2
<1>3. box' \in [1..MaxRuns -> AnswerBoxes]
      /\ \A n \in 1..MaxRuns : box'[n].yes = box[n].yes /\ box'[n].by = box[n].by
  BY <1>1 DEF ApprovalInv, ApprovalTyped, AnswerBoxes
<1> QED BY <1>1, <1>2, <1>3, SaidStays, RequestKeeps

--------------------------------------------------------------------------------
(* The agent's thread and the window.                                         *)

LEMMA RestsTyped ==
  AgentRests.pc = "idle" /\ AgentRests.req = 0 /\ AgentRests.child = FALSE
BY DEF AgentRests

\* Nothing but the run, its thread's rest, the stop and the mode changes.
LEMMA RestKeeps ==
  ASSUME ApprovalInv,
         UNCHANGED <<surface, contract, box, queue, dialogs, window, made, said, givenUp, ran>>,
         run' \in 1..MaxRuns,
         \/ agent' = agent /\ run' = run
         \/ /\ agent.req = 0 /\ agent'.req = 0
            /\ agent' \in [pc : {"idle", "over"}, req : Nat, child : BOOLEAN]
  PROVE ApprovalInv'
<1>1. ApprovalTyped'
  BY DEF ApprovalInv, ApprovalTyped, Latest
<1>2. Handed' /\ \A n \in 1..MaxRuns : BoxFits(n)'
  BY DEF ApprovalInv, Handed, BoxFits, Live, InWindow, Permits, Latest
<1>3. \A r \in DOMAIN ran : RanWell(r)'
  BY DEF ApprovalInv, RanWell, Denied, Permits, Live, InWindow, Latest
<1>4. \A r : Live(r)' <=> Live(r)
  BY DEF Live, InWindow
<1>5. Asker'
  <2>1. CASE agent' = agent /\ run' = run
    BY <1>4, <2>1 DEF ApprovalInv, Asker, Denied, Latest
  <2>2. CASE agent.req = 0 /\ agent'.req = 0
             /\ agent' \in [pc : {"idle", "over"}, req : Nat, child : BOOLEAN]
    <3>1. agent'.pc \notin {"cleared", "waiting"}
      BY <2>2
    <3> QED BY <1>4, <2>2, <3>1 DEF ApprovalInv, Asker, Live
  <2> QED BY <2>1, <2>2
<1> QED BY <1>1, <1>2, <1>3, <1>5 DEF ApprovalInv

LEMMA QuietKeeps ==
  ASSUME ApprovalInv, Delegate \/ Delegated \/ UserStops \/ ModeChanges \/ RunFinishes \/ SendMessage
  PROVE ApprovalInv'
<1>1. UNCHANGED <<surface, contract, box, queue, dialogs, window, made, said, givenUp, ran>>
  BY DEF Delegate, Delegated, UserStops, ModeChanges, RunFinishes, SendMessage, hidden, desktop
<1>2. agent \in [pc : {"idle", "cleared", "waiting", "over"}, req : Nat, child : BOOLEAN]
      /\ run \in 1..MaxRuns /\ MaxRuns \in Nat
  BY LatestTyped DEF ApprovalInv, ApprovalTyped
<1>3. agent.pc \in {"idle", "over"} => agent.req = 0
  BY DEF ApprovalInv, Asker
<1>4. CASE UserStops \/ ModeChanges
  BY <1>1, <1>2, <1>4, RestKeeps DEF UserStops, ModeChanges
<1>5. CASE Delegate \/ Delegated \/ RunFinishes
  <2>1. agent.pc \in {"idle", "over"} /\ run' = run
    BY <1>5, RestsTyped DEF Delegate, Delegated, RunFinishes, hidden
  <2>2. agent' \in [pc : {"idle", "over"}, req : Nat, child : BOOLEAN] /\ agent'.req = 0
    <3>1. CASE Delegate
      BY <3>1, <1>2, <1>3, <2>1 DEF Delegate, AgentRests
    <3>2. CASE Delegated
      BY <3>2 DEF Delegated, AgentRests
    <3>3. CASE RunFinishes
      BY <3>3 DEF RunFinishes, AgentRests
    <3> QED BY <1>5, <3>1, <3>2, <3>3
  <2> QED BY <1>1, <1>2, <1>3, <2>1, <2>2, RestKeeps
<1>6. CASE SendMessage
  <2>1. agent.pc = "over" /\ run' \in 1..MaxRuns /\ agent' = AgentRests
    BY <1>2, <1>6 DEF SendMessage
  <2>2. agent' \in [pc : {"idle", "over"}, req : Nat, child : BOOLEAN] /\ agent'.req = 0
    BY <2>1 DEF AgentRests
  <2> QED BY <1>1, <1>3, <2>1, <2>2, RestKeeps
<1> QED BY <1>4, <1>5, <1>6

\* The thread goes on, with the answer in its box or without one.
LEMMA ReturnKeepsApproval ==
  ASSUME ApprovalInv, NEW yes \in BOOLEAN, agent.pc = "waiting", Return(yes),
         yes => box[run].yes,
         givenUp \subseteq givenUp', box[run].by # agent.req => agent.req \in givenUp',
         yes \/ box[run].by = agent.req \/ agent.req \in givenUp',
         UNCHANGED <<hidden, desktop, made, said>>
  PROVE ApprovalInv'
<1>0. agent.req \in 1..Latest /\ agent.req # 0 /\ agent.req \notin DOMAIN ran
      /\ made[agent.req].run = run /\ ~Denied(made[agent.req].call) /\ run \in 1..MaxRuns
      /\ box[run].by \in {0, agent.req} \cup givenUp
  BY DEF ApprovalInv, ApprovalTyped, Asker
<1>1. UNCHANGED <<surface, contract, mode, run, stopped, box, queue, dialogs, window, made, said>>
  BY DEF hidden, desktop
<1>2. agent' \in [pc : {"idle", "over"}, req : Nat, child : BOOLEAN] /\ agent'.req = 0
  <2>1. agent \in [pc : {"idle", "cleared", "waiting", "over"}, req : Nat, child : BOOLEAN]
    BY DEF ApprovalInv, ApprovalTyped
  <2>2. CASE GoesOn
    BY <2>1, <2>2 DEF GoesOn
  <2>3. CASE Rejected
    <3>1. AgentRests \in [pc : {"idle", "over"}, req : Nat, child : BOOLEAN] /\ AgentRests.req = 0
      BY DEF AgentRests
    <3> QED BY <2>3, <3>1 DEF Rejected
  <2> QED BY <2>2, <2>3 DEF Return
<1>3. \A r : (Live(r)' <=> Live(r)) /\ (Permits(r)' <=> Permits(r))
             /\ (Denied(made[r].call)' <=> Denied(made[r].call))
  BY <1>1 DEF Live, InWindow, Permits, Denied
<1>4. ApprovalTyped' /\ Handed' /\ \A n \in 1..MaxRuns : BoxFits(n)'
  <2>1. ApprovalTyped'
    BY <1>1, <1>2 DEF ApprovalInv, ApprovalTyped, Latest
  <2> QED BY <1>1, <2>1 DEF ApprovalInv, Handed, BoxFits, Live, InWindow, Permits, Latest
<1>5. box[run].by = agent.req => ~Live(agent.req)
  BY <1>0 DEF ApprovalInv, BoxFits
<1>6. Asker'
  <2>1. agent'.pc \notin {"cleared", "waiting"}
    BY <1>2
  <2>2. \A r : Live(r)' => r \in givenUp'
    BY <1>3, <1>5 DEF ApprovalInv, Asker
  <2> QED BY <1>2, <2>1, <2>2 DEF Asker
<1>7. ASSUME NEW r \in DOMAIN ran, ran'[r] = ran[r] PROVE RanWell(r)'
  <2>1. RanWell(r)
    BY DEF ApprovalInv
  <2> QED BY <1>1, <1>3, <1>7, <2>1 DEF RanWell, Latest
<1>8. ASSUME NEW r \in DOMAIN ran' PROVE RanWell(r)'
  <2>1. CASE r \in DOMAIN ran /\ ran'[r] = ran[r]
    BY <1>7, <2>1
  <2>2. CASE ~(r \in DOMAIN ran /\ ran'[r] = ran[r])
    <3>1. yes /\ r = agent.req /\ ran'[r] = box[run].by
      BY <1>0, <2>2 DEF Return, Runs
    <3> DEFINE b == box[run].by
    <3>2. b \in 0..Latest /\ b # 0 /\ ~Live(b) /\ made[b].run = run /\ Permits(b)
      BY <1>0, <3>1 DEF ApprovalInv, BoxFits
    <3>3. b # r => b \in givenUp'
      BY <1>0, <3>1, <3>2
    <3>4. b \in 1..Latest
      BY <3>2, LatestTyped
    <3> HIDE DEF b
    <3>5. ran'[r] = b
      BY <3>1 DEF b
    <3> QED BY <1>0, <1>1, <1>3, <3>1, <3>2, <3>3, <3>4, <3>5 DEF RanWell, Latest
  <2> QED BY <2>1, <2>2
<1> QED BY <1>1, <1>4, <1>6, <1>8 DEF ApprovalInv

LEMMA WakeKeeps == ASSUME ApprovalInv, Wake PROVE ApprovalInv'
<1>1. box[run].yes \in BOOLEAN
  BY DEF ApprovalInv, ApprovalTyped, AnswerBoxes
<1> QED BY <1>1, ReturnKeepsApproval DEF Wake

LEMMA GiveUpKeeps == ASSUME ApprovalInv, GiveUp PROVE ApprovalInv'
<1>1. PICK waited \in BOOLEAN : Return(waited /\ box[run].yes)
  BY DEF GiveUp
<1>2. (waited /\ box[run].yes) \in BOOLEAN
  OBVIOUS
<1> QED BY <1>1, <1>2, ReturnKeepsApproval DEF GiveUp

\* A step on the way of an answer: what is live may become less, or the same in another
\* place, and what was said to a request changes only while it is live.
LEMMA WindowKeeps ==
  ASSUME ApprovalInv,
         UNCHANGED <<surface, contract, run, agent, made, givenUp, ran>>,
         ApprovalTyped', Handed',
         \A r : Live(r)' => Live(r),
         \A r : r \in 1..Latest /\ ~Live(r) => said'[r] = said[r],
         \A n \in 1..MaxRuns : \/ box'[n].by = box[n].by /\ box'[n].yes = box[n].yes
                               \/ BoxFits(n)' /\ Live(box'[n].by)
  PROVE ApprovalInv'
<1>1. Latest' = Latest /\ DOMAIN made = 1..Latest
      /\ \A r : (Denied(made[r].call)' <=> Denied(made[r].call))
  BY LatestTyped DEF Latest, Denied
<1>2. \A r \in 1..Latest : ~Live(r) => (Permits(r)' <=> Permits(r))
  BY DEF Permits
<1>3. ASSUME NEW n \in 1..MaxRuns PROVE BoxFits(n)'
  <2>1. CASE box'[n].by = box[n].by /\ box'[n].yes = box[n].yes
    <3>1. BoxFits(n)
      BY DEF ApprovalInv
    <3>2. box[n].by # 0 => box[n].by \in 1..Latest
      BY <3>1, LatestTyped DEF BoxFits
    <3> QED BY <1>1, <1>2, <2>1, <3>1, <3>2 DEF BoxFits
  <2> QED BY <2>1
<1>4. ASSUME NEW r \in DOMAIN ran PROVE RanWell(r)'
  <2>1. RanWell(r)
    BY DEF ApprovalInv
  <2>2. ran[r] = r => Permits(r)' /\ ~Live(r)'
    BY <1>2, <2>1 DEF RanWell
  <2> QED BY <1>1, <2>1, <2>2 DEF RanWell
<1>5. Asker'
  <2>1. Asker
    BY DEF ApprovalInv
  <2>2. agent.pc = "cleared" => \A n \in 1..MaxRuns : box'[n].by # agent.req
    BY <2>1 DEF Asker
  <2>3. agent.pc = "waiting" => box'[run].by \in {0, agent.req} \cup givenUp
    <3>1. run \in 1..MaxRuns
      BY DEF ApprovalInv, ApprovalTyped
    <3> QED BY <2>1, <3>1 DEF Asker
  <2> QED BY <1>1, <2>1, <2>2, <2>3 DEF Asker
<1> QED BY <1>3, <1>4, <1>5 DEF ApprovalInv

LEMMA EmitKeeps == ASSUME ApprovalInv, Emit PROVE ApprovalInv'
<1> DEFINE q == agent.req
<1>0. /\ agent.pc = "cleared" /\ q # 0 /\ q \in 1..Latest /\ q \in Nat /\ q \notin DOMAIN ran
      /\ ~Live(q) /\ \A n \in 1..MaxRuns : box[n].by # q
      /\ run \in 1..MaxRuns
  BY DEF Emit, ApprovalInv, ApprovalTyped, Asker
<1>1. /\ UNCHANGED <<surface, contract, mode, run, stopped, dialogs, window, made, said, givenUp, ran>>
      /\ queue' = Append(queue, q) /\ box' = [box EXCEPT ![run].yes = FALSE, ![run].by = 0]
      /\ agent' = [agent EXCEPT !.pc = "waiting"]
  BY DEF Emit, hidden
<1>2. agent' \in [pc : {"idle", "cleared", "waiting", "over"}, req : Nat, child : BOOLEAN]
      /\ agent'.pc = "waiting" /\ agent'.req = q
  BY <1>1 DEF ApprovalInv, ApprovalTyped
<1> HIDE DEF q
<1>3. queue' \in Seq(Nat) /\ Distinct(queue') /\ ~Occurs(q, queue)
      /\ \A x : Occurs(x, queue') <=> Occurs(x, queue) \/ x = q
  <2>1. ~Occurs(q, queue) /\ queue \in Seq(Nat) /\ Distinct(queue)
    BY <1>0 DEF Live, ApprovalInv, ApprovalTyped, Handed
  <2> QED BY <1>0, <1>1, <2>1, AppendToken
<1>4. box' \in [1..MaxRuns -> AnswerBoxes] /\ box'[run].by = 0 /\ box'[run].yes = FALSE
      /\ \A n \in 1..MaxRuns \ {run} : box'[n] = box[n]
  <2>1. box \in [1..MaxRuns -> AnswerBoxes] /\ box[run] \in AnswerBoxes
    BY <1>0 DEF ApprovalInv, ApprovalTyped
  <2>2. [box[run] EXCEPT !.yes = FALSE, !.by = 0] \in AnswerBoxes
    BY <2>1 DEF AnswerBoxes
  <2>3. box' = [box EXCEPT ![run] = [box[run] EXCEPT !.yes = FALSE, !.by = 0]]
    BY <1>1, <2>1
  <2> QED BY <1>0, <2>1, <2>2, <2>3 DEF AnswerBoxes
<1>5. \A r : Live(r)' <=> Live(r) \/ r = q
  BY <1>0, <1>1, <1>3 DEF Live, InWindow
<1>6. ApprovalTyped'
  BY <1>1, <1>2, <1>3, <1>4 DEF ApprovalInv, ApprovalTyped, Latest
<1>7. Latest' = Latest /\ \A r : (Permits(r)' <=> Permits(r))
             /\ (Denied(made[r].call)' <=> Denied(made[r].call))
  BY <1>1 DEF Latest, Permits, Denied
<1>8. Handed'
  <2>1. ~Occurs(q, dialogs) /\ ~InWindow(q)
    BY <1>0 DEF Live
  <2> QED BY <1>0, <1>1, <1>3, <1>7, <2>1 DEF ApprovalInv, Handed, InWindow
<1>9. ASSUME NEW n \in 1..MaxRuns PROVE BoxFits(n)'
  <2>1. BoxFits(n) /\ box[n].by # q
    BY <1>0 DEF ApprovalInv
  <2>2. CASE n = run
    BY <1>4, <2>2, LatestTyped, <1>7 DEF BoxFits
  <2>3. CASE n # run
    <3>1. box'[n] = box[n]
      BY <1>4, <2>3
    <3> QED BY <1>1, <1>5, <1>7, <2>1, <3>1 DEF BoxFits
  <2> QED BY <2>2, <2>3
<1>10. ASSUME NEW r \in DOMAIN ran PROVE RanWell(r)'
  <2>1. RanWell(r) /\ r # q
    BY <1>0 DEF ApprovalInv
  <2> QED BY <1>1, <1>5, <1>7, <2>1 DEF RanWell
<1>11. Asker'
  <2>1. \A r : Live(r)' => r = q \/ r \in givenUp'
    BY <1>1, <1>5 DEF ApprovalInv, Asker, q
  <2>2. made[q].run = run /\ ~Denied(made[q].call)
    BY <1>0 DEF ApprovalInv, Asker, q
  <2>3. ~Denied(made[agent.req].call)'
    BY <1>1, <1>2, <2>2 DEF Denied
  <2> QED BY <1>0, <1>1, <1>2, <1>4, <1>7, <2>1, <2>2, <2>3 DEF Asker
<1> QED BY <1>1, <1>6, <1>8, <1>9, <1>10, <1>11 DEF ApprovalInv

LEMMA DeliverKeeps == ASSUME ApprovalInv, Deliver PROVE ApprovalInv'
<1> DEFINE q == Head(queue)
<1>1. /\ queue # <<>> /\ window = NoAnswer /\ queue' = Tail(queue)
      /\ IF Automatic(made[q].call, mode)
         THEN window' = [req |-> q, yes |-> TRUE, put |-> FALSE] /\ UNCHANGED dialogs
         ELSE dialogs' = <<q>> \o dialogs /\ UNCHANGED window
      /\ UNCHANGED <<surface, contract, mode, run, stopped, agent, box, made, said, givenUp, ran>>
  BY DEF Deliver, hidden
<1>2. queue \in Seq(Nat) /\ dialogs \in Seq(Nat) /\ Distinct(queue) /\ Distinct(dialogs)
  BY DEF ApprovalInv, ApprovalTyped, Handed
<1>3. /\ queue' \in Seq(Nat) /\ q \in Nat /\ Distinct(queue') /\ Occurs(q, queue) /\ ~Occurs(q, queue')
      /\ \A x : Occurs(x, queue') <=> Occurs(x, queue) /\ x # q
  BY <1>1, <1>2, TailTokens
<1> HIDE DEF q
<1>4. q \in 1..Latest /\ q # 0 /\ ~Occurs(q, dialogs) /\ Live(q)
  BY <1>3, LatestTyped DEF ApprovalInv, Handed, Live
<1>5. CASE window' = [req |-> q, yes |-> TRUE, put |-> FALSE] /\ UNCHANGED dialogs
           /\ Automatic(made[q].call, mode)
  <2>1. ~Grave(made'[q].call)
    BY <1>1, <1>5, LetThrough
  <2>2. \A r : InWindow(r)' <=> r = q
    BY <1>5 DEF InWindow
  <2>3. ApprovalTyped'
    BY <1>1, <1>3, <1>5 DEF ApprovalInv, ApprovalTyped, Latest
  <2>4. Handed'
    BY <1>1, <1>3, <1>4, <1>5, <2>1, <2>2 DEF ApprovalInv, Handed, Permits, Latest
  <2>5. \A r : Live(r)' => Live(r)
    BY <1>3, <1>4, <1>5, <2>2 DEF Live
  <2> QED BY <1>1, <2>3, <2>4, <2>5, WindowKeeps
<1>6. CASE dialogs' = <<q>> \o dialogs /\ UNCHANGED window
  <2>1. dialogs' \in Seq(Nat) /\ Distinct(dialogs') /\ \A x : Occurs(x, dialogs') <=> Occurs(x, dialogs) \/ x = q
    BY <1>2, <1>3, <1>4, <1>6, PushToken
  <2>2. \A r : (InWindow(r)' <=> InWindow(r)) /\ (r # 0 => ~InWindow(r))
    BY <1>1, <1>6 DEF InWindow, NoAnswer
  <2>3. ApprovalTyped'
    BY <1>1, <1>3, <1>6, <2>1 DEF ApprovalInv, ApprovalTyped, Latest
  <2>4. Handed'
    BY <1>1, <1>3, <1>4, <1>6, <2>1, <2>2 DEF ApprovalInv, Handed, Permits, Latest
  <2>5. \A r : Live(r)' => Live(r)
    BY <1>3, <1>4, <2>1, <2>2 DEF Live
  <2> QED BY <1>1, <2>3, <2>4, <2>5, WindowKeeps
<1> QED BY <1>1, <1>5, <1>6

LEMMA UserAnswersKeeps == ASSUME ApprovalInv, UserAnswers PROVE ApprovalInv'
<1>0. PICK q : q = Head(dialogs)
  OBVIOUS
<1>1. PICK yes \in BOOLEAN, available \in BOOLEAN :
       /\ said' = [said EXCEPT ![q] = IF yes THEN "yes" ELSE "no"]
       /\ window' = [req |-> q, put |-> FALSE,
                     yes |-> yes /\ ("elevate" \in made[q].call => available)]
  BY <1>0 DEF UserAnswers
<1>2. /\ dialogs # <<>> /\ window = NoAnswer /\ dialogs' = Tail(dialogs)
      /\ UNCHANGED <<surface, contract, mode, run, stopped, agent, box, queue, made, givenUp, ran>>
  BY DEF UserAnswers, hidden
<1>3. queue \in Seq(Nat) /\ dialogs \in Seq(Nat) /\ Distinct(queue) /\ Distinct(dialogs)
  BY DEF ApprovalInv, ApprovalTyped, Handed
<1>4. /\ dialogs' \in Seq(Nat) /\ q \in Nat /\ Distinct(dialogs') /\ Occurs(q, dialogs)
      /\ ~Occurs(q, dialogs') /\ \A x : Occurs(x, dialogs') <=> Occurs(x, dialogs) /\ x # q
  BY <1>0, <1>2, <1>3, TailTokens
<1>5. q \in 1..Latest /\ q # 0 /\ ~Occurs(q, queue) /\ Live(q)
  BY <1>4, LatestTyped DEF ApprovalInv, Handed, Live
<1>6. said \in [Requests -> {"nothing", "yes", "no"}] /\ q \in Requests
  BY <1>5, LatestTyped DEF ApprovalInv, ApprovalTyped, Requests
<1>7. said' \in [Requests -> {"nothing", "yes", "no"}] /\ (\A r \in 1..Latest : r # q => said'[r] = said[r])
      /\ (yes => said'[q] = "yes")
  <2>1. (IF yes THEN "yes" ELSE "no") \in {"nothing", "yes", "no"}
    OBVIOUS
  <2> QED BY <1>1, <1>6, <2>1
<1>8. window'.req = q /\ ~window'.put /\ (window'.yes => yes)
      /\ window' \in [req : Nat, yes : BOOLEAN, put : BOOLEAN]
  BY <1>1, <1>4
<1>9. ApprovalTyped'
  BY <1>2, <1>4, <1>7, <1>8 DEF ApprovalInv, ApprovalTyped, Latest
<1>10. \A r : InWindow(r)' <=> r = q
  BY <1>8 DEF InWindow
<1>11. window'.yes => Permits(q)'
  BY <1>7, <1>8 DEF Permits
<1>12. Handed'
  BY <1>2, <1>4, <1>5, <1>8, <1>10, <1>11 DEF ApprovalInv, Handed, Latest, Permits
<1>13. \A r : Live(r)' => Live(r)
  BY <1>2, <1>4, <1>5, <1>10 DEF Live
<1> QED BY <1>2, <1>5, <1>7, <1>9, <1>12, <1>13, WindowKeeps

LEMMA SetResultKeeps == ASSUME ApprovalInv, SetResult PROVE ApprovalInv'
<1>0. PICK q, n : q = window.req /\ n = made[q].run
  OBVIOUS
<1>1. /\ q # 0 /\ ~window.put /\ window' = [window EXCEPT !.put = TRUE]
      /\ box' = [box EXCEPT ![n].yes = window.yes, ![n].by = q]
      /\ UNCHANGED <<surface, contract, mode, run, stopped, agent, queue, dialogs, made, said, givenUp, ran>>
  BY <1>0 DEF SetResult, hidden
<1>2. q \in 1..Latest /\ n \in 1..MaxRuns /\ q \in Nat
  BY <1>0, <1>1, LatestTyped DEF ApprovalInv, Handed
<1>3. Live(q) /\ ~Occurs(q, queue) /\ ~Occurs(q, dialogs) /\ (window.yes => Permits(q))
  BY <1>0, <1>1 DEF ApprovalInv, Handed, Live, InWindow
<1>4. window \in [req : Nat, yes : BOOLEAN, put : BOOLEAN]
  BY DEF ApprovalInv, ApprovalTyped
<1>5. window' \in [req : Nat, yes : BOOLEAN, put : BOOLEAN] /\ window'.req = q /\ window'.put
      /\ window'.yes = window.yes
  BY <1>0, <1>1, <1>4
<1>6. box' \in [1..MaxRuns -> AnswerBoxes] /\ box'[n].by = q /\ box'[n].yes = window.yes
      /\ \A m \in 1..MaxRuns \ {n} : box'[m] = box[m]
  <2>1. box \in [1..MaxRuns -> AnswerBoxes] /\ box[n] \in AnswerBoxes
    BY <1>2 DEF ApprovalInv, ApprovalTyped
  <2>2. [box[n] EXCEPT !.yes = window.yes, !.by = q] \in AnswerBoxes
    BY <1>2, <1>4, <2>1 DEF AnswerBoxes
  <2>3. box' = [box EXCEPT ![n] = [box[n] EXCEPT !.yes = window.yes, !.by = q]]
    BY <1>1, <1>2, <2>1
  <2> QED BY <1>2, <2>1, <2>2, <2>3 DEF AnswerBoxes
<1>7. \A r : ~InWindow(r)'
  BY <1>5 DEF InWindow
<1>8. ApprovalTyped'
  BY <1>1, <1>5, <1>6 DEF ApprovalInv, ApprovalTyped, Latest
<1>9. Handed'
  BY <1>0, <1>1, <1>2, <1>3, <1>5, <1>7 DEF ApprovalInv, Handed, Permits, Latest
<1>10. (\A r : Live(r)' => Live(r)) /\ ~Live(q)'
  <2>1. \A r : Live(r)' => r # 0 /\ (Occurs(r, queue) \/ Occurs(r, dialogs))
    BY <1>1, <1>7 DEF Live
  <2> QED BY <1>1, <1>3, <1>5, <2>1 DEF Live
<1>11. BoxFits(n)' /\ Live(box'[n].by)
  <2>1. Latest' = Latest /\ Latest \in Nat
    BY <1>1, LatestTyped DEF Latest
  <2>2. box'[n].by = q /\ q \in 0..Latest /\ q # 0 /\ made'[q].run = n /\ ~Live(q)'
        /\ (box'[n].yes => Permits(q)')
    <3>1. made' = made /\ said' = said /\ made[q].run = n
      BY <1>0, <1>1
    <3>2. Permits(q)' <=> Permits(q)
      BY <3>1 DEF Permits
    <3>3. q \in 0..Latest /\ q # 0
      BY <1>2, <2>1
    <3>4. box'[n].by = q /\ (box'[n].yes => Permits(q))
      BY <1>3, <1>6
    <3> QED BY <1>10, <3>1, <3>2, <3>3, <3>4
  <2> QED BY <1>3, <2>1, <2>2 DEF BoxFits
<1>12. \A m \in 1..MaxRuns : \/ box'[m].by = box[m].by /\ box'[m].yes = box[m].yes
                             \/ BoxFits(m)' /\ Live(box'[m].by)
  BY <1>6, <1>11
<1> QED BY <1>1, <1>8, <1>9, <1>10, <1>12, WindowKeeps

LEMMA SetEventKeeps == ASSUME ApprovalInv, SetEvent PROVE ApprovalInv'
<1>0. PICK n : n = made[window.req].run
  OBVIOUS
<1>1. /\ window.put /\ window' = NoAnswer /\ box' = [box EXCEPT ![n].set = TRUE]
      /\ UNCHANGED <<surface, contract, mode, run, stopped, agent, queue, dialogs, made, said, givenUp, ran>>
  BY <1>0 DEF SetEvent, hidden
<1>2. box' \in [1..MaxRuns -> AnswerBoxes]
      /\ \A m \in 1..MaxRuns : box'[m].by = box[m].by /\ box'[m].yes = box[m].yes
  <2>1. box \in [1..MaxRuns -> AnswerBoxes]
    BY DEF ApprovalInv, ApprovalTyped
  <2>2. \A m \in 1..MaxRuns : box[m] \in AnswerBoxes /\ [box[m] EXCEPT !.set = TRUE] \in AnswerBoxes
    BY <2>1 DEF AnswerBoxes
  <2>3. box' = [box EXCEPT ![n] = [box[n] EXCEPT !.set = TRUE]]
    BY <1>1
  <2>4. \A m \in 1..MaxRuns : box'[m] = IF m = n THEN [box[m] EXCEPT !.set = TRUE] ELSE box[m]
    BY <2>1, <2>3
  <2>5. box' \in [1..MaxRuns -> AnswerBoxes]
    BY <2>1, <2>2, <2>3
  <2> QED BY <2>1, <2>4, <2>5 DEF AnswerBoxes
<1>3. ApprovalTyped' /\ \A r : r # 0 => ~InWindow(r)'
  BY <1>1, <1>2 DEF ApprovalInv, ApprovalTyped, NoAnswer, InWindow, Latest
<1>4. \A r : Occurs(r, queue) \/ Occurs(r, dialogs) => r # 0 /\ ~InWindow(r)'
  BY <1>3, LatestTyped DEF ApprovalInv, Handed
<1>5. Handed'
  BY <1>1, <1>4 DEF ApprovalInv, Handed, NoAnswer, Latest
<1>6. \A r : Live(r)' => Live(r)
  BY <1>1, <1>3 DEF Live
<1> QED BY <1>1, <1>2, <1>3, <1>5, <1>6, WindowKeeps

LEMMA ApprovalAlways == ApprovalSpec => []ApprovalInv
<1>1. ASSUME ApprovalInit PROVE ApprovalInv
  <2>1. /\ agent.pc = "idle" /\ agent.req = 0 /\ queue = <<>> /\ dialogs = <<>> /\ made = <<>>
        /\ window.req = 0 /\ ~window.put /\ window.yes = FALSE /\ DOMAIN ran = {}
        /\ \A n \in 1..MaxRuns : box[n].by = 0 /\ box[n].yes = FALSE
    BY <1>1 DEF ApprovalInit, AgentRests, EmptyBox, NoAnswer
  <2>2. Latest = 0 /\ \A r : ~Occurs(r, queue) /\ ~Occurs(r, dialogs) /\ ~Live(r)
    BY <2>1 DEF Latest, Occurs, Live, InWindow
  <2>3. ApprovalTyped
    <3>1. box \in [1..MaxRuns -> AnswerBoxes] /\ run \in 1..MaxRuns
      BY <1>1, ApprovalAssumption DEF ApprovalInit, EmptyBox, AnswerBoxes
    <3>2. agent \in [pc : {"idle", "cleared", "waiting", "over"}, req : Nat, child : BOOLEAN]
          /\ window \in [req : Nat, yes : BOOLEAN, put : BOOLEAN]
      BY <1>1 DEF ApprovalInit, AgentRests, NoAnswer
    <3>3. said \in [Requests -> {"nothing", "yes", "no"}] /\ surface \in Surfaces
      BY <1>1 DEF ApprovalInit
    <3>4. Latest <= MaxApprovals
      BY <2>2, ApprovalAssumption
    <3> QED BY <2>1, <3>1, <3>2, <3>3, <3>4 DEF ApprovalTyped
  <2>4. Handed
    BY <2>1, <2>2 DEF Handed, Distinct
  <2>5. Asker /\ (\A n \in 1..MaxRuns : BoxFits(n)) /\ \A r \in DOMAIN ran : RanWell(r)
    BY <2>1, <2>2 DEF Asker, BoxFits
  <2> QED BY <2>3, <2>4, <2>5 DEF ApprovalInv
<1>2. ApprovalInv /\ [ApprovalNext]_approvalVars => ApprovalInv'
  <2> SUFFICES ASSUME ApprovalInv, [ApprovalNext]_approvalVars PROVE ApprovalInv'
    OBVIOUS
  <2>1. CASE UNCHANGED approvalVars
    <3>1. UNCHANGED <<surface, contract, run, agent, box, queue, dialogs, window, made, said, givenUp, ran>>
      BY <2>1 DEF approvalVars
    <3>2. run \in 1..MaxRuns
      BY DEF ApprovalInv, ApprovalTyped
    <3> QED BY <3>1, <3>2, RestKeeps
  <2>2. ASSUME NEW c \in Calls[surface],
               Blocked(c) \/ Unasked(c) \/ AskPolicy(c) \/ AskTerminal(c) \/ AskWindow(c)
        PROVE ApprovalInv'
    BY <2>2, BlockedKeeps, UnaskedKeeps, AskPolicyKeeps, AskTerminalKeeps, AskWindowKeeps
  <2> QED BY <2>1, <2>2, QuietKeeps, EmitKeeps, WakeKeeps, GiveUpKeeps, DeliverKeeps,
             UserAnswersKeeps, SetResultKeeps, SetEventKeeps DEF ApprovalNext
<1> QED BY <1>1, <1>2, PTL DEF ApprovalSpec

\* A call runs on the answer to its own request, or on one that came after its request was
\* given up, for any number of requests, runs, dialogs and changes of the mode.
THEOREM AnswersReachTheirCall == ApprovalSpec => []AnswersFit
<1>1. ApprovalInv => AnswersFit
  BY DEF ApprovalInv, RanWell, AnswersFit
<1> QED BY <1>1, ApprovalAlways, PTL

\* No surface runs a grave call without a yes to it, nor one its contract forbids.
THEOREM GraveCallsAsk == ApprovalSpec => []GraveIsConfirmed
<1>1. ApprovalInv => GraveIsConfirmed
  BY DEF ApprovalInv, RanWell, Permits, GraveIsConfirmed
<1> QED BY <1>1, ApprovalAlways, PTL

\* What waits for the window are requests that were made, and one that is made is not sent yet.
FewWait == Len(dialogs) + Len(queue) + (IF agent.pc = "cleared" THEN 1 ELSE 0) <= Latest

\* A request that is made waits once; it goes from the agent to the queue to a dialog.
LEMMA FewKeepWaiting ==
  ASSUME ApprovalInv, FewWait, [ApprovalNext]_approvalVars
  PROVE  FewWait'
<1> DEFINE one == IF agent.pc = "cleared" THEN 1 ELSE 0
<1>1. queue \in Seq(Nat) /\ dialogs \in Seq(Nat) /\ Latest \in Nat /\ Len(queue) \in Nat
      /\ Len(dialogs) \in Nat /\ one \in 0..1 /\ Len(dialogs) + Len(queue) + one <= Latest
  <2>1. queue \in Seq(Nat) /\ dialogs \in Seq(Nat)
    BY DEF ApprovalInv, ApprovalTyped
  <2>2. Latest \in Nat
    BY LatestTyped
  <2>3. Len(dialogs) + Len(queue) + one <= Latest
    BY DEF FewWait
  <2>4. one \in 0..1
    OBVIOUS
  <2> HIDE DEF one
  <2>5. Len(queue) \in Nat /\ Len(dialogs) \in Nat
    BY <2>1
  <2> QED BY <2>1, <2>2, <2>3, <2>4, <2>5
<1>2. ASSUME NEW c \in Calls[surface], Request(c) PROVE Latest' = Latest + 1
  BY <1>2 DEF Request, Latest, ApprovalInv, ApprovalTyped
<1>3. CASE \E c \in Calls[surface] : Blocked(c) \/ Unasked(c) \/ AskPolicy(c) \/ AskTerminal(c) \/ AskWindow(c)
  <2>1. PICK c \in Calls[surface] : Blocked(c) \/ Unasked(c) \/ AskPolicy(c) \/ AskTerminal(c) \/ AskWindow(c)
    BY <1>3
  <2>2. Request(c) /\ UNCHANGED <<queue, dialogs>>
    BY <2>1 DEF Blocked, Unasked, AskPolicy, AskTerminal, AskWindow, desktop
  <2>3. Latest' = Latest + 1 /\ Len(queue') = Len(queue) /\ Len(dialogs') = Len(dialogs)
    BY <1>2, <2>2
  <2> QED BY <1>1, <2>3 DEF FewWait
<1>4. CASE Emit
  <2>1. agent.pc = "cleared" /\ agent' = [agent EXCEPT !.pc = "waiting"]
        /\ queue' = Append(queue, agent.req) /\ UNCHANGED <<dialogs, made>>
    BY <1>4 DEF Emit
  <2>2. agent \in [pc : {"idle", "cleared", "waiting", "over"}, req : Nat, child : BOOLEAN]
    BY DEF ApprovalInv, ApprovalTyped
  <2>3. agent'.pc = "waiting" /\ agent.req \in Nat
    BY <2>1, <2>2
  <2>4. Len(queue') = Len(queue) + 1
    BY <1>1, <2>1, <2>3
  <2> QED BY <1>1, <2>1, <2>3, <2>4 DEF FewWait, Latest
<1>5. CASE Deliver
  <2>1. queue # <<>> /\ queue' = Tail(queue) /\ UNCHANGED <<agent, made>>
        /\ (UNCHANGED dialogs \/ dialogs' = <<Head(queue)>> \o dialogs)
    BY <1>5 DEF Deliver
  <2>2. Len(queue') = Len(queue) - 1 /\ Head(queue) \in Nat
    BY <1>1, <2>1
  <2>3. Len(<<Head(queue)>> \o dialogs) = 1 + Len(dialogs)
    BY <1>1, <2>2
  <2> QED BY <1>1, <2>1, <2>2, <2>3 DEF FewWait, Latest
<1>6. CASE UserAnswers
  <2>1. dialogs # <<>> /\ dialogs' = Tail(dialogs) /\ UNCHANGED <<queue, agent, made>>
    BY <1>6 DEF UserAnswers
  <2>2. Len(dialogs') = Len(dialogs) - 1
    BY <1>1, <2>1
  <2> QED BY <1>1, <2>1, <2>2 DEF FewWait, Latest
<1>7. CASE \/ Delegate \/ Delegated \/ Wake \/ GiveUp \/ SetResult \/ SetEvent \/ UserStops
           \/ ModeChanges \/ RunFinishes \/ SendMessage \/ UNCHANGED approvalVars
  <2>1. UNCHANGED <<queue, dialogs, made>>
    BY <1>7 DEF Delegate, Delegated, Wake, GiveUp, SetResult, SetEvent, UserStops, ModeChanges,
      RunFinishes, SendMessage, approvalVars, desktop, hidden
  <2>2. agent'.pc = "cleared" => agent.pc = "cleared"
    <3>1. agent \in [pc : {"idle", "cleared", "waiting", "over"}, req : Nat, child : BOOLEAN]
      BY DEF ApprovalInv, ApprovalTyped
    <3>2. AgentRests.pc # "cleared" /\ [AgentRests EXCEPT !.pc = "over"].pc # "cleared"
      BY DEF AgentRests
    <3>3. UNCHANGED agent \/ agent' \in {AgentRests, [AgentRests EXCEPT !.pc = "over"],
             [agent EXCEPT !.pc = "idle", !.req = 0], [agent EXCEPT !.child = TRUE]}
      BY <1>7 DEF Delegate, Delegated, Wake, GiveUp, SetResult, SetEvent, UserStops, ModeChanges,
        RunFinishes, SendMessage, approvalVars, desktop, hidden, Return, GoesOn, Rejected
    <3> QED BY <3>1, <3>2, <3>3
  <2> QED BY <1>1, <2>1, <2>2 DEF FewWait, Latest
<1> QED BY <1>3, <1>4, <1>5, <1>6, <1>7 DEF ApprovalNext

\* No more requests wait, in the queue and in dialogs, than were made, and every answer is
\* to one that was (aicoder/gui/chat_widget.py).
THEOREM ApprovalTypes == ApprovalSpec => []ApprovalTypeOK
<1>1. ASSUME ApprovalInit PROVE FewWait
  BY <1>1 DEF ApprovalInit, FewWait, Latest, AgentRests
<1>2. ApprovalInv /\ FewWait /\ [ApprovalNext]_approvalVars => FewWait'
  BY FewKeepWaiting
<1>3. ApprovalInv /\ FewWait => ApprovalTypeOK
  <2> SUFFICES ASSUME ApprovalInv, FewWait PROVE ApprovalTypeOK
    OBVIOUS
  <2>1. agent \in [pc : {"idle", "cleared", "waiting", "over"}, req : Nat, child : BOOLEAN]
        /\ run \in 1..MaxRuns /\ Latest <= MaxApprovals /\ Latest \in Nat /\ MaxApprovals \in Nat
    BY LatestTyped DEF ApprovalInv, ApprovalTyped
  <2>2. agent.pc \in {"idle", "cleared", "waiting", "over"} /\ agent.req \in 0..MaxApprovals
    BY <2>1 DEF ApprovalInv, Asker
  <2>3. \A n \in 1..MaxRuns : box[n].by \in 0..MaxApprovals
    BY <2>1 DEF ApprovalInv, BoxFits
  <2>4. DOMAIN ran \subseteq 1..Latest
    BY DEF ApprovalInv, RanWell
  <2>5. Len(dialogs) \in Nat /\ Len(queue) \in Nat
    BY DEF ApprovalInv, ApprovalTyped
  <2>6. Len(dialogs) + Len(queue) <= Latest
    BY <2>1, <2>5 DEF FewWait
  <2> QED BY <2>1, <2>2, <2>3, <2>4, <2>6 DEF ApprovalTypeOK
<1> QED BY <1>1, <1>2, <1>3, ApprovalAlways, PTL DEF ApprovalSpec

--------------------------------------------------------------------------------
(* Shared Notify.  A message leaves the mailbox in the hand of a thread that  *)
(* has taken it from there several steps earlier.  The invariant says of      *)
(* every thread that what it has in hand, and is about to acknowledge, was    *)
(* taken care of; other threads and processes never take that back.           *)

MailKinds == {"chat", "ai", "request", "result"}
Letter == [kind : MailKinds, call : Nat]
PollerState == [pc : PollerSteps, rows : SUBSET Nat, row : Nat, call : Nat]

NotifyTypeInv ==
  /\ mail \in Seq(Letter) /\ mailbox \subseteq Ids /\ calls \in Nat
  /\ received \in [Processes -> Seq(Nat)]
  /\ poller \in [Pollers -> PollerState] /\ \A t \in Pollers : poller[t].rows \subseteq Ids

\* What may leave the mailbox.
Handled(m) ==
  CASE Kind(m) = "chat" -> \/ m \in shown \cup dropped \cup gone
                           \/ \E p \in Processes : m \in Elements(received[p])
    [] Kind(m) = "ai" -> m \in runs
    [] Kind(m) = "request" -> m \in runs \cap (answered \cup unheard)
    [] OTHER -> TRUE

\* What a thread has in hand.
InHand(q) ==
  /\ q.pc \in Ready => q.row \in Ids /\ Handled(q.row)
  /\ q.pc \in {"running", "replying"} => q.row \in Ids /\ q.row \in runs /\ Kind(q.row) = "request"

NotifyInv == NotifyTypeInv /\ MailIsKept /\ \A t \in Pollers : InHand(poller[t])

Below == OpToRel(<, Nat)

(* A set of natural numbers that is not empty has a least element: the first row of an    *)
(* answer (fetch_messages()) is one of its rows.                                          *)
LEMMA LeastExists ==
  ASSUME NEW S \in SUBSET Nat, S # {}
  PROVE \E m \in S : \A x \in S : m <= x
<1>1. IsWellFoundedOn(Below, Nat)
  BY NatLessThanWellFounded DEF Below
<1>2. PICK m \in S : \A x \in S : <<x, m>> \notin Below
  BY <1>1, WFMin
<1>3. ASSUME NEW x \in S PROVE m <= x
  <2>1. <<x, m>> \in Nat \X Nat => (<<x, m>> \in Below <=> x < m)
    BY DEF Below, OpToRel
  <2>2. QED
    BY <1>2, <2>1
<1>4. QED
  BY <1>3

\* The elements of a queue that grows at its end, and of a full one that loses its oldest.
LEMMA QueueElements ==
  ASSUME NEW s \in Seq(Nat), NEW m \in Nat
  PROVE /\ Append(s, m) \in Seq(Nat) /\ Elements(Append(s, m)) = Elements(s) \cup {m}
        /\ s # <<>> => /\ Append(Tail(s), m) \in Seq(Nat)
                       /\ Elements(s) \cup {m} = Elements(Append(Tail(s), m)) \cup {Head(s)}
<1>1. Append(s, m) \in Seq(Nat) /\ Elements(Append(s, m)) = Elements(s) \cup {m}
  <2> DEFINE r == Append(s, m)
             n == Len(s)
  <2>1. n \in Nat /\ DOMAIN s = 1..n /\ r \in Seq(Nat) /\ DOMAIN r = 1..(n + 1)
        /\ r[n + 1] = m /\ \A i \in 1..n : r[i] = s[i]
    OBVIOUS
  <2> HIDE DEF r, n
  <2>2. 1..(n + 1) = (1..n) \cup {n + 1}
    BY <2>1
  <2>3. Elements(r) = Elements(s) \cup {m}
    <3>1. ASSUME NEW x \in Elements(r) PROVE x \in Elements(s) \cup {m}
      BY <2>1, <2>2 DEF Elements
    <3>2. ASSUME NEW x \in Elements(s) \cup {m} PROVE x \in Elements(r)
      BY <2>1, <2>2 DEF Elements
    <3>3. QED
      BY <3>1, <3>2
  <2>4. QED
    BY <2>1, <2>3 DEF r
<1>2. ASSUME s # <<>>
      PROVE /\ Append(Tail(s), m) \in Seq(Nat)
            /\ Elements(s) \cup {m} = Elements(Append(Tail(s), m)) \cup {Head(s)}
  <2> DEFINE r == Append(Tail(s), m)
             n == Len(s)
  <2>1. n \in Nat \ {0} /\ DOMAIN s = 1..n /\ Tail(s) \in Seq(Nat) /\ Len(Tail(s)) = n - 1
        /\ \A i \in 1..(n - 1) : Tail(s)[i] = s[i + 1]
    BY <1>2
  <2>2. r \in Seq(Nat) /\ DOMAIN r = 1..n /\ r[n] = m /\ \A i \in 1..(n - 1) : r[i] = s[i + 1]
    BY <2>1
  <2>3. Head(s) = s[1]
    BY <1>2
  <2> HIDE DEF r, n
  <2>4. ASSUME NEW x \in Elements(s) PROVE x \in Elements(r) \cup {Head(s)}
    <3>1. PICK i \in 1..n : x = s[i]
      BY <2>1 DEF Elements
    <3>2. CASE i = 1
      BY <2>3, <3>1, <3>2
    <3>3. CASE i # 1
      <4>1. i - 1 \in 1..(n - 1) /\ r[i - 1] = s[i] /\ i - 1 \in 1..n
        <5>1. i - 1 \in 1..(n - 1) /\ (i - 1) + 1 = i
          BY <2>1, <3>1, <3>3
        <5>2. QED
          BY <2>1, <2>2, <5>1
      <4>2. QED
        BY <2>2, <3>1, <4>1 DEF Elements
    <3>4. QED
      BY <3>2, <3>3
  <2>5. ASSUME NEW x \in Elements(r) PROVE x \in Elements(s) \cup {m}
    <3>1. PICK i \in 1..n : x = r[i]
      BY <2>2 DEF Elements
    <3>2. CASE i = n
      BY <2>2, <3>1, <3>2
    <3>3. CASE i # n
      <4>1. i \in 1..(n - 1) /\ i + 1 \in 1..n
        BY <2>1, <3>1, <3>3
      <4>2. QED
        BY <2>1, <2>2, <3>1, <4>1 DEF Elements
    <3>4. QED
      BY <3>2, <3>3
  <2>6. m \in Elements(r) /\ Head(s) \in Elements(s)
    <3>1. n \in 1..n /\ 1 \in 1..n
      BY <2>1
    <3>2. QED
      BY <2>1, <2>2, <2>3, <3>1 DEF Elements
  <2>7. QED
    BY <2>2, <2>4, <2>5, <2>6 DEF r
<1>3. QED
  BY <1>1, <1>2

\* Before anything is sent.
LEMMA NotifyInitInv == NotifyInit => NotifyInv
<1> SUFFICES ASSUME NotifyInit PROVE NotifyInv
  OBVIOUS
<1>1. mail \in Seq(Letter) /\ Ids = {} /\ mailbox = {}
  BY DEF NotifyInit, Ids
<1>2. Waiting \in PollerState /\ Waiting.rows = {} /\ Waiting.pc = "idle"
  BY DEF Waiting, PollerState, PollerSteps
<1>3. \A t \in Pollers : poller[t] = Waiting
  BY DEF NotifyInit
<1>4. NotifyTypeInv
  BY <1>1, <1>2, <1>3 DEF NotifyInit, NotifyTypeInv
<1>5. MailIsKept /\ \A t \in Pollers : InHand(poller[t])
  BY <1>1, <1>2, <1>3 DEF MailIsKept, InHand, Ready
<1>6. QED
  BY <1>4, <1>5 DEF NotifyInv

\* No step of anybody loses what was done.
NothingLost ==
  /\ Ids \subseteq Ids' /\ \A m \in Ids : mail'[m] = mail[m]
  /\ shown \subseteq shown' /\ dropped \subseteq dropped' /\ gone \subseteq gone'
  /\ runs \subseteq runs' /\ answered \subseteq answered' /\ unheard \subseteq unheard'
  /\ \A p \in Processes :
       Elements(received[p]) \subseteq Elements(received'[p]) \cup shown' \cup dropped' \cup gone'

\* What was taken care of stays so, ...
LEMMA HandledStays == ASSUME NothingLost, NEW m \in Ids, Handled(m) PROVE Handled(m)'
<1>1. Kind(m)' = Kind(m)
  BY DEF NothingLost, Kind
<1>2. CASE Kind(m) = "chat"
  BY <1>1, <1>2 DEF NothingLost, Handled
<1>3. CASE Kind(m) = "ai"
  BY <1>1, <1>3 DEF NothingLost, Handled
<1>4. CASE Kind(m) = "request"
  BY <1>1, <1>4 DEF NothingLost, Handled
<1>5. CASE Kind(m) \notin {"chat", "ai", "request"}
  BY <1>1, <1>5 DEF Handled
<1>6. QED
  BY <1>2, <1>3, <1>4, <1>5

\* ... and so does what a thread has in hand.
LEMMA InHandStays == ASSUME NothingLost, NEW q, InHand(q) PROVE InHand(q)'
<1>1. q.pc \in Ready => q.row \in Ids' /\ Handled(q.row)'
  <2>1. ASSUME q.pc \in Ready PROVE q.row \in Ids' /\ Handled(q.row)'
    <3>1. PICK m \in Ids : m = q.row
      BY <2>1 DEF InHand
    <3>2. Handled(m)'
      BY <2>1, <3>1, HandledStays DEF InHand
    <3>3. QED
      BY <3>1, <3>2 DEF NothingLost
  <2>2. QED
    BY <2>1
<1>2. q.pc \in {"running", "replying"} =>
        q.row \in Ids' /\ q.row \in runs' /\ Kind(q.row)' = "request"
  BY DEF InHand, NothingLost, Kind
<1>3. QED
  BY <1>1, <1>2 DEF InHand, Ready

\* A step that loses nothing, and after which what is in hand and what has left was handled.
LEMMA NotifyBecomes ==
  ASSUME NotifyInv, NotifyTypeInv', NothingLost,
         \A t \in Pollers : poller'[t] = poller[t] \/ InHand(poller[t])',
         \A m \in Ids' : m \in mailbox' \/ (m \in Ids /\ m \notin mailbox) \/ Handled(m)'
  PROVE NotifyInv'
<1>1. ASSUME NEW m \in Ids', m \notin mailbox' PROVE Handled(m)'
  <2>1. m \in Ids /\ m \notin mailbox => Handled(m)
    BY DEF NotifyInv, MailIsKept, Handled
  <2>2. QED
    BY <1>1, <2>1, HandledStays
<1>2. MailIsKept'
  BY <1>1 DEF MailIsKept, Handled
<1>3. ASSUME NEW t \in Pollers, poller'[t] = poller[t] PROVE InHand(poller[t])'
  <2>1. PICK q : q = poller[t] /\ q = poller'[t]
    BY <1>3
  <2>2. InHand(q)'
    <3>1. InHand(q)
      BY <2>1 DEF NotifyInv
    <3>2. QED
      BY <3>1, InHandStays
  <2>3. QED
    BY <2>1, <2>2
<1>4. QED
  BY <1>2, <1>3 DEF NotifyInv

--------------------------------------------------------------------------------
\* A thread goes on with what it has in hand then.
LEMMA PollerBecomes ==
  ASSUME NotifyInv, NEW t \in Pollers, NEW q \in PollerState, q.rows \subseteq Ids,
         poller' = [poller EXCEPT ![t] = q], UNCHANGED mail, calls' \in Nat,
         received' \in [Processes -> Seq(Nat)], NothingLost, InHand(q)',
         mailbox' \subseteq mailbox, \A m \in mailbox \ mailbox' : Handled(m)
  PROVE NotifyInv'
<1>1. Ids' = Ids /\ \A s \in Pollers : poller'[s] = IF s = t THEN q ELSE poller[s]
  BY DEF NotifyInv, NotifyTypeInv, Ids
<1>2. NotifyTypeInv'
  BY <1>1 DEF NotifyInv, NotifyTypeInv
<1>3. \A s \in Pollers : poller'[s] = poller[s] \/ InHand(poller[s])'
  <2>1. PICK w : w = q /\ w = poller'[t] /\ InHand(w)'
    BY <1>1
  <2>2. InHand(poller[t])'
    BY <2>1
  <2>3. QED
    BY <1>1, <2>2
<1>4. \A m \in Ids' : m \in mailbox' \/ (m \in Ids /\ m \notin mailbox) \/ Handled(m)'
  <2>1. ASSUME NEW m \in Ids', m \notin mailbox', m \in mailbox PROVE Handled(m)'
    BY <1>1, <2>1, HandledStays
  <2>2. QED
    BY <1>1, <2>1
<1>5. QED
  BY <1>2, <1>3, <1>4, NotifyBecomes

\* Nothing else was done.
LEMMA QuietBecomes ==
  ASSUME NotifyInv, NEW t \in Pollers, NEW q \in PollerState, q.rows \subseteq Ids,
         poller' = [poller EXCEPT ![t] = q], UNCHANGED <<mail, received, history>>, calls' \in Nat,
         InHand(q), mailbox' \subseteq mailbox, \A m \in mailbox \ mailbox' : Handled(m)
  PROVE NotifyInv'
<1>1. NothingLost
  BY DEF NothingLost, history, Ids
<1>2. InHand(q)'
  BY <1>1, InHandStays
<1>3. received' \in [Processes -> Seq(Nat)]
  BY DEF NotifyInv, NotifyTypeInv
<1>4. QED
  BY <1>1, <1>2, <1>3, PollerBecomes

\* A thread has messages of the mailbox in hand.
LEMMA PollerTyped ==
  ASSUME NotifyInv, NEW t \in Pollers
  PROVE poller[t] \in PollerState /\ poller[t].rows \subseteq Ids /\ InHand(poller[t])
BY DEF NotifyInv, NotifyTypeInv

\* A mailbox is read, or left.
LEMMA BoxKeeps ==
  ASSUME NotifyInv, NEW t \in Pollers, Poll(t) \/ NextBox(t) PROVE NotifyInv'
<1>1. PICK pc \in {"idle", "box1", "box2", "box3"}, rows \in SUBSET Ids :
        poller' = [poller EXCEPT ![t].pc = pc, ![t].rows = rows]
  <2>1. \A k : Rows(k) \in SUBSET Ids
    BY DEF Rows, NotifyInv, NotifyTypeInv
  <2>2. CASE Poll(t)
    BY <2>1, <2>2 DEF Poll
  <2>3. CASE NextBox(t)
    <3>1. BoxOf(t) \in 1..3
      BY DEF BoxOf
    <3>2. CASE poller' = [poller EXCEPT ![t].pc = "idle", ![t].rows = {}]
      BY <3>2
    <3>3. CASE /\ BoxOf(t) < 3
               /\ poller' = [poller EXCEPT ![t].pc = BoxName[BoxOf(t) + 1],
                                           ![t].rows = Rows(BoxOf(t) + 1)]
      <4>1. BoxName[BoxOf(t) + 1] \in {"idle", "box1", "box2", "box3"}
        <5>1. BoxOf(t) + 1 \in {2, 3}
          BY <3>1, <3>3
        <5>2. BoxName[2] = "box2" /\ BoxName[3] = "box3"
          BY DEF BoxName
        <5>3. QED
          BY <5>1, <5>2
      <4>2. QED
        BY <2>1, <3>3, <4>1
    <3>4. QED
      BY <2>3, <3>2, <3>3 DEF NextBox
  <2>4. QED
    BY <2>2, <2>3
<1> DEFINE q == [poller[t] EXCEPT !.pc = pc, !.rows = rows]
<1>2. poller' = [poller EXCEPT ![t] = q]
  BY <1>1
<1>3. Ids \subseteq Nat
  BY DEF NotifyInv, NotifyTypeInv, Ids
<1>4. q \in PollerState /\ q.rows = rows /\ q.pc = pc
  BY <1>1, <1>3, PollerTyped DEF PollerState, PollerSteps
<1> HIDE DEF q
<1>5. InHand(q)
  BY <1>1, <1>4 DEF InHand, Ready
<1>6. UNCHANGED <<mail, mailbox, received, calls, history>>
  BY DEF Poll, NextBox, taken
<1>7. calls' \in Nat
  BY <1>6 DEF NotifyInv, NotifyTypeInv
<1>8. QED
  BY <1>1, <1>2, <1>4, <1>5, <1>6, <1>7, QuietBecomes

\* The first row is a message.
LEMMA RowIsMail ==
  ASSUME NotifyInv, NEW t \in Pollers, NEW kind, AtRow(t, kind)
  PROVE FirstRow(t) \in Ids /\ FirstRow(t) \in Nat /\ Kind(FirstRow(t)) = kind
<1>1. poller[t].rows \in SUBSET Nat /\ poller[t].rows # {} /\ poller[t].rows \subseteq Ids
  BY PollerTyped DEF PollerState, AtRow
<1>2. \E m \in poller[t].rows : \A x \in poller[t].rows : m <= x
  BY <1>1, LeastExists
<1>3. FirstRow(t) \in poller[t].rows
  BY <1>2 DEF FirstRow
<1>4. QED
  BY <1>1, <1>3 DEF AtRow

\* What a thread is when it has taken a row.
LEMMA RowTaken ==
  ASSUME NotifyInv, NEW t \in Pollers, NEW m \in Nat, NEW pc \in PollerSteps, Take(t, m, pc)
  PROVE \E q \in PollerState :
          /\ poller' = [poller EXCEPT ![t] = q] /\ q.rows \subseteq Ids /\ q.pc = pc /\ q.row = m
<1> DEFINE q == [poller[t] EXCEPT !.pc = pc, !.rows = @ \ {m}, !.row = m]
<1>1. poller[t] \in PollerState /\ poller[t].rows \subseteq Ids
  BY PollerTyped
<1>2. q \in PollerState /\ q.rows \subseteq Ids /\ q.pc = pc /\ q.row = m
  BY <1>1 DEF PollerState
<1>3. poller' = [poller EXCEPT ![t] = q]
  BY DEF Take
<1>4. QED
  BY <1>2, <1>3

\* A row is left in the mailbox, as another thread has it, or as its model has failed.
LEMMA SkipKeeps ==
  ASSUME NotifyInv, NEW t \in Pollers, NEW m \in Nat, Skip(t, m),
         poller[t].pc \in {"box1", "box2", "box3"},
         UNCHANGED <<mail, mailbox, received, calls, history>>
  PROVE NotifyInv'
<1> DEFINE q == [poller[t] EXCEPT !.rows = @ \ {m}]
<1>1. poller[t] \in PollerState /\ poller[t].rows \subseteq Ids
  BY PollerTyped
<1>2. q \in PollerState /\ q.rows \subseteq Ids /\ q.pc = poller[t].pc
      /\ poller' = [poller EXCEPT ![t] = q]
  BY <1>1 DEF PollerState, Skip
<1> HIDE DEF q
<1>3. InHand(q)
  BY <1>2 DEF InHand, Ready
<1>4. calls' \in Nat
  BY DEF NotifyInv, NotifyTypeInv
<1>5. QED
  BY <1>2, <1>3, <1>4, QuietBecomes

\* A chat message is queued; a full queue loses its oldest.
LEMMA QueueKeeps == ASSUME NotifyInv, NEW t \in Pollers, Queue(t) PROVE NotifyInv'
<1> DEFINE p == ProcessOf[t]
<1>1. PICK m : m = FirstRow(t)
  OBVIOUS
<1>2. m \in Ids /\ m \in Nat /\ Kind(m) = "chat" /\ poller[t].pc \in {"box1", "box2", "box3"}
  BY <1>1, RowIsMail DEF Queue, AtRow
<1>3. p \in Processes /\ QueueLimit \in Nat \ {0}
  BY NotifyAssumption
<1>4. PICK s \in Seq(Nat) : s = received[p]
  BY <1>3 DEF NotifyInv, NotifyTypeInv
<1>5. UNCHANGED <<mail, mailbox, calls, shown, gone, runs, answered, unheard>>
  BY DEF Queue
<1>6. CASE m \in Elements(s)
  <2>1. Skip(t, m) /\ UNCHANGED <<received, dropped>>
    BY <1>1, <1>4, <1>6 DEF Queue
  <2>2. QED
    BY <1>2, <1>5, <2>1, SkipKeeps DEF history
<1>7. CASE m \notin Elements(s)
  <2> DEFINE full == Len(s) = QueueLimit
             next == IF full THEN Append(Tail(s), m) ELSE Append(s, m)
  <2>1. received' = [received EXCEPT ![p] = next] /\ Take(t, m, "queued")
        /\ dropped' = IF full THEN dropped \cup {Head(s)} ELSE dropped
    BY <1>1, <1>4, <1>7 DEF Queue
  <2>2. "queued" \in PollerSteps
    BY DEF PollerSteps
  <2>3. PICK q \in PollerState : q.rows \subseteq Ids /\ q.pc = "queued" /\ q.row = m
                                 /\ poller' = [poller EXCEPT ![t] = q]
    BY <1>2, <2>1, <2>2, RowTaken
  <2>4. full => s # <<>>
    BY <1>3
  <2>5. next \in Seq(Nat) /\ Elements(s) \cup {m} \subseteq Elements(next) \cup dropped'
    BY <1>2, <2>1, <2>4, QueueElements
  <2> HIDE DEF next, full, p
  <2>6. received' \in [Processes -> Seq(Nat)]
        /\ \A o \in Processes : received'[o] = IF o = p THEN next ELSE received[o]
    BY <1>3, <2>1, <2>5 DEF NotifyInv, NotifyTypeInv
  <2>7. NothingLost
    <3>1. dropped \subseteq dropped'
      BY <2>1
    <3>2. \A o \in Processes : Elements(received[o]) \subseteq Elements(received'[o]) \cup dropped'
      BY <1>4, <2>5, <2>6
    <3>3. QED
      BY <1>5, <3>1, <3>2 DEF NothingLost, Ids
  <2>8. InHand(q)'
    <3>1. m \in dropped' \/ m \in Elements(received'[p])
      BY <1>3, <2>5, <2>6
    <3>2. Kind(m)' = "chat" /\ m \in Ids'
      BY <1>2, <1>5 DEF Kind, Ids
    <3>3. Handled(m)'
      BY <1>3, <3>1, <3>2 DEF Handled
    <3>4. QED
      BY <2>3, <3>2, <3>3 DEF InHand, Ready
  <2>9. calls' \in Nat
    BY <1>5 DEF NotifyInv, NotifyTypeInv
  <2>10. QED
    BY <1>5, <2>3, <2>6, <2>7, <2>8, <2>9, PollerBecomes
<1>8. QED
  BY <1>6, <1>7

\* An answer to a call of this machine is stored.
LEMMA StoreKeeps == ASSUME NotifyInv, NEW t \in Pollers, Store(t) PROVE NotifyInv'
<1>1. PICK m : m = FirstRow(t)
  OBVIOUS
<1>2. m \in Ids /\ m \in Nat /\ Kind(m) = "result" /\ Take(t, m, "stored")
  BY <1>1, RowIsMail DEF Store
<1>3. "stored" \in PollerSteps
  BY DEF PollerSteps
<1>4. PICK q \in PollerState : q.rows \subseteq Ids /\ q.pc = "stored" /\ q.row = m
                               /\ poller' = [poller EXCEPT ![t] = q]
  BY <1>2, <1>3, RowTaken
<1>5. InHand(q)
  BY <1>2, <1>4 DEF InHand, Handled
<1>6. UNCHANGED <<mail, mailbox, received, calls, history>> /\ calls' \in Nat
  BY DEF Store, NotifyInv, NotifyTypeInv
<1>7. QED
  BY <1>4, <1>5, <1>6, QuietBecomes

\* A model or a tool was asked: that it ran is on record before anything else happens.
LEMMA RunKeeps ==
  ASSUME NotifyInv, NEW t \in Pollers, Think(t) \/ RunTool(t) PROVE NotifyInv'
<1>1. PICK m : m = FirstRow(t)
  OBVIOUS
<1>2. PICK kind \in {"ai", "request"} : m \in Ids /\ m \in Nat /\ Kind(m) = kind /\ AtRow(t, kind)
  BY <1>1, RowIsMail DEF Think, RunTool
<1>3. UNCHANGED <<mail, mailbox, received, calls, shown, dropped, gone, answered, unheard>> /\ calls' \in Nat
  BY DEF Think, RunTool, taken, NotifyInv, NotifyTypeInv
<1>4. CASE Skip(t, m) /\ UNCHANGED runs
  BY <1>2, <1>3, <1>4, SkipKeeps DEF history, AtRow
<1>5. ASSUME NEW pc \in {"thinking", "running"}, Take(t, m, pc), runs' = runs \cup {m},
             pc = "thinking" <=> Kind(m) = "ai"
      PROVE NotifyInv'
  <2>1. pc \in PollerSteps
    BY DEF PollerSteps
  <2>2. PICK q \in PollerState : q.rows \subseteq Ids /\ q.pc = pc /\ q.row = m
                                 /\ poller' = [poller EXCEPT ![t] = q]
    BY <1>2, <1>5, <2>1, RowTaken
  <2>3. NothingLost
    BY <1>3, <1>5 DEF NothingLost, Ids
  <2>4. Kind(m)' = Kind(m) /\ m \in Ids' /\ m \in runs'
    BY <1>2, <1>3, <1>5 DEF Kind, Ids
  <2>5. InHand(q)'
    BY <1>2, <1>5, <2>2, <2>4 DEF InHand, Ready, Handled
  <2>6. received' \in [Processes -> Seq(Nat)]
    BY <1>3 DEF NotifyInv, NotifyTypeInv
  <2>7. QED
    BY <1>3, <2>2, <2>3, <2>5, <2>6, PollerBecomes
<1>6. \/ Skip(t, m) /\ UNCHANGED runs
      \/ \E pc \in {"thinking", "running"} :
           Take(t, m, pc) /\ runs' = runs \cup {m} /\ (pc = "thinking" <=> Kind(m) = "ai")
  <2>1. CASE Think(t)
    BY <1>1, <1>2, <2>1 DEF Think, AtRow
  <2>2. CASE RunTool(t)
    BY <1>1, <1>2, <2>2 DEF RunTool, AtRow
  <2>3. QED
    BY <2>1, <2>2
<1>7. QED
  BY <1>4, <1>5, <1>6

\* What a thread is when it goes on with the row it has.
LEMMA RowKept ==
  ASSUME NotifyInv, NEW t \in Pollers, NEW pc \in PollerSteps, Goes(t, pc)
  PROVE \E q \in PollerState :
          /\ poller' = [poller EXCEPT ![t] = q] /\ q.rows \subseteq Ids
          /\ q.pc = pc /\ q.row = poller[t].row
<1> DEFINE q == [poller[t] EXCEPT !.pc = pc]
<1>1. poller[t] \in PollerState /\ poller[t].rows \subseteq Ids
  BY PollerTyped
<1>2. q \in PollerState /\ q.rows \subseteq Ids /\ q.pc = pc /\ q.row = poller[t].row
  BY <1>1 DEF PollerState
<1>3. QED
  BY <1>2 DEF Goes

\* A request is answered, or stays.
LEMMA ReplyKeeps == ASSUME NotifyInv, NEW t \in Pollers, Reply(t) PROVE NotifyInv'
<1>1. PICK m : m = poller[t].row
  OBVIOUS
<1>2. m \in Ids /\ m \in runs /\ Kind(m) = "request"
  BY <1>1, PollerTyped DEF Reply, InHand
<1>3. PICK pc \in {"replied", "replying", "box3"} :
        /\ Goes(t, pc) /\ answered \subseteq answered' /\ unheard \subseteq unheard'
        /\ pc = "replied" => m \in answered' \cup unheard'
        /\ UNCHANGED <<mail, mailbox, received, calls, shown, dropped, gone, runs>>
  BY <1>1 DEF Reply, taken
<1>4. pc \in PollerSteps
  BY DEF PollerSteps
<1>5. PICK q \in PollerState : q.rows \subseteq Ids /\ q.pc = pc /\ q.row = m
                               /\ poller' = [poller EXCEPT ![t] = q]
  BY <1>1, <1>3, <1>4, RowKept
<1>6. NothingLost
  BY <1>3 DEF NothingLost, Ids
<1>7. Kind(m)' = "request" /\ m \in Ids' /\ m \in runs'
  BY <1>2, <1>3 DEF Kind, Ids
<1>8. InHand(q)'
  BY <1>3, <1>5, <1>7 DEF InHand, Ready, Handled
<1>9. received' \in [Processes -> Seq(Nat)] /\ calls' \in Nat
  BY <1>3 DEF NotifyInv, NotifyTypeInv
<1>10. QED
  BY <1>3, <1>5, <1>6, <1>8, <1>9, PollerBecomes

\* A message is acknowledged, when it was taken care of.
LEMMA AcknowledgeKeeps == ASSUME NotifyInv, NEW t \in Pollers, Acknowledge(t) PROVE NotifyInv'
<1>1. PICK m : m = poller[t].row
  OBVIOUS
<1>2. m \in Ids /\ Handled(m)
  BY <1>1, PollerTyped DEF Acknowledge, InHand
<1>3. PICK pc \in {"box1", "acked", "box2", "box3"} : Goes(t, pc)
  BY DEF Acknowledge, Back
<1>4. pc \in PollerSteps
  BY DEF PollerSteps
<1>5. PICK q \in PollerState : q.rows \subseteq Ids /\ q.pc = pc /\ q.row = m
                               /\ poller' = [poller EXCEPT ![t] = q]
  BY <1>1, <1>3, <1>4, RowKept
<1>6. InHand(q)
  BY <1>5 DEF InHand, Ready
<1>7. /\ UNCHANGED <<mail, received, calls, history>> /\ calls' \in Nat
      /\ mailbox' \subseteq mailbox /\ \A x \in mailbox \ mailbox' : x = m
  BY <1>1 DEF Acknowledge, taken, NotifyInv, NotifyTypeInv
<1>8. QED
  BY <1>2, <1>5, <1>6, <1>7, QuietBecomes

\* The model's answer goes out, or is lost.
LEMMA AnswerKeeps == ASSUME NotifyInv, NEW t \in Pollers, Answer(t) PROVE NotifyInv'
<1>1. "box2" \in PollerSteps
  BY DEF PollerSteps
<1>2. PICK q \in PollerState : q.rows \subseteq Ids /\ q.pc = "box2"
                               /\ poller' = [poller EXCEPT ![t] = q]
  BY <1>1, RowKept DEF Answer
<1>3. NothingLost
  BY DEF Answer, taken, NothingLost, Ids
<1>4. InHand(q)'
  BY <1>2 DEF InHand, Ready
<1>5. UNCHANGED <<mail, mailbox>> /\ received' \in [Processes -> Seq(Nat)] /\ calls' \in Nat
  BY DEF Answer, taken, NotifyInv, NotifyTypeInv
<1>6. QED
  BY <1>2, <1>3, <1>4, <1>5, PollerBecomes

--------------------------------------------------------------------------------
\* A thread that waits has none.
LEMMA WaitingHolds == Waiting \in PollerState /\ Waiting.rows = {} /\ InHand(Waiting)
BY DEF Waiting, PollerState, PollerSteps, InHand, Ready

\* A thread calls a shared server, and has its answer or waits no longer.
LEMMA CallKeeps ==
  ASSUME NotifyInv, NEW t \in Pollers, Call(t) \/ GetAnswer(t) \/ StopWaiting(t)
  PROVE NotifyInv'
<1>1. UNCHANGED <<mail, mailbox, received, history>> /\ calls' \in Nat
  BY DEF Call, GetAnswer, StopWaiting, taken, NotifyInv, NotifyTypeInv
<1>2. CASE Call(t)
  <2> DEFINE q == [poller[t] EXCEPT !.call = calls + 1]
  <2>1. poller[t] \in PollerState /\ poller[t].rows \subseteq Ids /\ calls + 1 \in Nat
    BY PollerTyped DEF NotifyInv, NotifyTypeInv
  <2>2. q \in PollerState /\ q.rows \subseteq Ids /\ q.pc = "idle"
        /\ poller' = [poller EXCEPT ![t] = q]
    BY <1>2, <2>1 DEF Call, PollerState
  <2> HIDE DEF q
  <2>3. InHand(q)
    BY <2>2 DEF InHand, Ready
  <2>4. QED
    BY <1>1, <2>2, <2>3, QuietBecomes
<1>3. CASE GetAnswer(t) \/ StopWaiting(t)
  <2>1. poller' = [poller EXCEPT ![t] = Waiting]
    BY <1>3 DEF GetAnswer, StopWaiting
  <2>2. QED
    BY <1>1, <2>1, WaitingHolds, QuietBecomes
<1>4. QED
  BY <1>2, <1>3

\* The window shows what came in.
LEMMA DrainKeeps == ASSUME NotifyInv, NEW p \in Processes, Drain(p) PROVE NotifyInv'
<1>1. UNCHANGED <<mail, mailbox, poller, calls, dropped, gone, runs, answered, unheard>>
      /\ shown' = shown \cup Elements(received[p]) /\ received' = [received EXCEPT ![p] = <<>>]
  BY DEF Drain
<1>2. \A o \in Processes : received'[o] = IF o = p THEN <<>> ELSE received[o]
  BY <1>1 DEF NotifyInv, NotifyTypeInv
<1>3. NothingLost
  BY <1>1, <1>2 DEF NothingLost, Ids
<1>4. NotifyTypeInv'
  BY <1>1 DEF NotifyInv, NotifyTypeInv, Ids
<1>5. QED
  BY <1>1, <1>3, <1>4, NotifyBecomes DEF Ids

\* A process goes down with its queue and what its threads have in hand.
LEMMA ExitKeeps == ASSUME NotifyInv, NEW p \in Processes, Exit(p) PROVE NotifyInv'
<1> DEFINE off == [Waiting EXCEPT !.pc = "off"]
<1>1. UNCHANGED <<mail, mailbox, calls, shown, dropped, runs, answered, unheard>>
      /\ gone' = gone \cup Elements(received[p]) /\ received' = [received EXCEPT ![p] = <<>>]
      /\ poller' = [t \in Pollers |-> IF ProcessOf[t] = p THEN off ELSE poller[t]]
  BY DEF Exit
<1>2. \A o \in Processes : received'[o] = IF o = p THEN <<>> ELSE received[o]
  BY <1>1 DEF NotifyInv, NotifyTypeInv
<1>3. NothingLost
  BY <1>1, <1>2 DEF NothingLost, Ids
<1>4. off \in PollerState /\ off.rows = {} /\ off.pc = "off"
  BY DEF Waiting, PollerState, PollerSteps
<1> HIDE DEF off
<1>5. NotifyTypeInv'
  BY <1>1, <1>4 DEF NotifyInv, NotifyTypeInv, Ids
<1>6. \A t \in Pollers : poller'[t] = poller[t] \/ InHand(poller[t])'
  BY <1>1, <1>4 DEF InHand, Ready
<1>7. QED
  BY <1>1, <1>3, <1>5, <1>6, NotifyBecomes DEF Ids

\* A message is sent: it is in the mailbox.
LEMMA PostKeeps ==
  ASSUME NotifyInv, NEW kind \in MailKinds, NEW call \in Nat, Post(kind, call) PROVE NotifyInv'
<1> DEFINE n == Len(mail) + 1
           l == [kind |-> kind, call |-> call]
<1>1. mail \in Seq(Letter) /\ Len(mail) \in Nat /\ l \in Letter
  BY DEF NotifyInv, NotifyTypeInv, Letter
<1>2. mail' = Append(mail, l) /\ mailbox' = mailbox \cup {n}
      /\ UNCHANGED <<received, poller, calls, history>>
  BY DEF Post, taken
<1> HIDE DEF l
<1>3. mail' \in Seq(Letter) /\ Ids' = Ids \cup {n} /\ \A m \in Ids : mail'[m] = mail[m]
  BY <1>1, <1>2 DEF Ids
<1>4. NotifyTypeInv'
  BY <1>2, <1>3 DEF NotifyInv, NotifyTypeInv
<1>5. NothingLost
  BY <1>2, <1>3 DEF NothingLost, history
<1>6. \A m \in Ids' : m \in mailbox' \/ (m \in Ids /\ m \notin mailbox) \/ Handled(m)'
  BY <1>2, <1>3
<1>7. QED
  BY <1>2, <1>4, <1>5, <1>6, NotifyBecomes

\* Whatever the threads, the processes and the server do next, nothing is lost.
LEMMA NotifyInvariant == NotifySpec => []NotifyInv
<1>1. NotifyInv /\ [NotifyNext]_notifyVars => NotifyInv'
  <2> SUFFICES ASSUME NotifyInv, [NotifyNext]_notifyVars PROVE NotifyInv'
    OBVIOUS
  <2>1. ASSUME NEW t \in Pollers, PollerStep(t) PROVE NotifyInv'
    BY <2>1, BoxKeeps, QueueKeeps, StoreKeeps, RunKeeps, ReplyKeeps, AcknowledgeKeeps,
       AnswerKeeps, CallKeeps DEF PollerStep
  <2>2. ASSUME Message \/ RemoteAnswers PROVE NotifyInv'
    <3>1. PICK kind \in MailKinds, call \in Nat : Post(kind, call)
      <4>1. calls \in Nat
        BY DEF NotifyInv, NotifyTypeInv
      <4>2. CASE Message
        BY <4>2, NotifyAssumption DEF Message, MailKinds
      <4>3. CASE RemoteAnswers
        BY <4>1, <4>3 DEF RemoteAnswers, MailKinds
      <4>4. QED
        BY <2>2, <4>2, <4>3
    <3>2. QED
      BY <3>1, PostKeeps
  <2>3. CASE UNCHANGED notifyVars
    <3>1. NothingLost
      BY <2>3 DEF NothingLost, notifyVars, Ids
    <3>2. NotifyTypeInv'
      BY <2>3 DEF NotifyInv, NotifyTypeInv, notifyVars, Ids
    <3>3. QED
      BY <2>3, <3>1, <3>2, NotifyBecomes DEF notifyVars, Ids
  <2>4. QED
    BY <2>1, <2>2, <2>3, DrainKeeps, ExitKeeps DEF NotifyNext
<1>2. QED
  BY NotifyInitInv, <1>1, PTL DEF NotifySpec

(* Whichever processes poll at a time, whatever is lost on the way or goes down: a        *)
(* message that the server has dropped was queued, shown, pushed out or gone with its     *)
(* process, its model was asked, or its request run, and answered but for one whose       *)
(* sender was not in the directory when the answer was to go out                          *)
(* (aicoder/shared_notify.py, poll_once()).                                               *)
THEOREM MailIsNotLost == NotifySpec => []MailIsKept
<1>1. NotifyInv => MailIsKept
  BY DEF NotifyInv
<1>2. QED
  BY <1>1, NotifyInvariant, PTL

\* No process keeps more messages than its queue has room for.
QueuesFit == \A p \in Processes : Len(received[p]) <= QueueLimit

\* A full queue loses its oldest message for a new one.
LEMMA QueuesStayShort ==
  ASSUME NotifyInv, QueuesFit, [NotifyNext]_notifyVars
  PROVE  QueuesFit'
<1>1. received \in [Processes -> Seq(Nat)] /\ QueueLimit \in Nat \ {0}
  BY NotifyAssumption DEF NotifyInv, NotifyTypeInv
<1>2. ASSUME NEW t \in Pollers, Queue(t) PROVE QueuesFit'
  <2> DEFINE p == ProcessOf[t]
             m == FirstRow(t)
             q == received[p]
  <2>1. p \in Processes /\ q \in Seq(Nat) /\ Len(q) \in Nat /\ Len(q) <= QueueLimit
    BY <1>1, NotifyAssumption DEF QueuesFit
  <2>2. UNCHANGED received
        \/ received' = [received EXCEPT ![p] = IF Len(q) = QueueLimit THEN Append(Tail(q), m) ELSE Append(q, m)]
    BY <1>2 DEF Queue
  <2> HIDE DEF m
  <2>3. Len(q) = QueueLimit => Tail(q) \in Seq(Nat) /\ Len(Tail(q)) = Len(q) - 1
    BY <1>1, <2>1
  <2>4. Len(q) = QueueLimit => Len(Append(Tail(q), m)) = Len(q)
    BY <2>1, <2>3
  <2>5. Len(Append(q, m)) = Len(q) + 1
    BY <2>1
  <2>6. CASE received' = [received EXCEPT ![p] = IF Len(q) = QueueLimit THEN Append(Tail(q), m) ELSE Append(q, m)]
    BY <1>1, <2>1, <2>4, <2>5, <2>6 DEF QueuesFit
  <2> QED BY <2>2, <2>6 DEF QueuesFit
<1>3. ASSUME NEW p \in Processes, Drain(p) \/ Exit(p) PROVE QueuesFit'
  <2>1. received' = [received EXCEPT ![p] = <<>>]
    BY <1>3 DEF Drain, Exit
  <2> QED BY <1>1, <2>1 DEF QueuesFit
<1>4. ASSUME NEW t \in Pollers, PollerStep(t), ~Queue(t) PROVE UNCHANGED received
  BY <1>4 DEF PollerStep, Poll, NextBox, Store, Think, RunTool, Reply, Acknowledge, Answer, Call,
    GetAnswer, StopWaiting, taken
<1>5. CASE Message \/ RemoteAnswers \/ UNCHANGED notifyVars
  BY <1>5 DEF Message, RemoteAnswers, Post, notifyVars, taken, QueuesFit
<1> QED BY <1>2, <1>3, <1>4, <1>5 DEF NotifyNext, QueuesFit

\* No process keeps more messages than its queue has room for, and a thread reads rows of
\* the mailbox (SharedNotify's poll() and its queue in aicoder/shared_notify.py).
THEOREM NotifyTypes == NotifySpec => []NotifyTypeOK
<1>1. NotifyInit => QueuesFit
  BY NotifyAssumption DEF NotifyInit, QueuesFit
<1>2. NotifyInv /\ QueuesFit /\ [NotifyNext]_notifyVars => QueuesFit'
  BY QueuesStayShort
<1>3. NotifyInv /\ QueuesFit => NotifyTypeOK
  BY DEF NotifyInv, NotifyTypeInv, PollerState, QueuesFit, NotifyTypeOK
<1> QED BY <1>1, <1>2, <1>3, NotifyInvariant, PTL DEF NotifySpec

--------------------------------------------------------------------------------
(* Requests to models.  What a request has opened and whether its agent still *)
(* waits for it are kept in different places, by different threads. The       *)
(* invariant ties them: a request that is on its way to be opened has nothing *)
(* open, and no two agents wait for one request.                              *)

AskSteps == {"route", "make", "open", "handshake", "list", "read", "finish", "restore", "over"}
Asking == [to : Providers, at : AskSteps, via : Nat, before : Nat,
           open : BOOLEAN, listed : BOOLEAN, cut : BOOLEAN, alone : BOOLEAN]
WaitHows == {"idle", "waits", "accounts", "walked"}

\* A request before its opening, or after its end, has nothing open.
ClosedOutside(q) ==
  q.at \in {"route", "make", "open"} \/ (q.at \in {"restore", "over"} /\ ~q.alone) => ~q.open

RequestsTypeInv ==
  /\ asks \in Seq(Asking) /\ timeout \in Nat /\ routes \in [Providers -> Nat]
  /\ waits \in [Askers -> [ask : Nat, how : WaitHows, seen : SUBSET Providers]]

\* An agent waits for a request of its own, or for none.
OwnRequest ==
  /\ \A a \in Askers : IF waits[a].how = "idle" THEN waits[a].ask = 0 ELSE waits[a].ask \in AskIds
  /\ \A a, b \in Askers : waits[a].ask = waits[b].ask /\ waits[a].ask # 0 => a = b

RequestsInv ==
  RequestsTypeInv /\ OwnRequest /\ OnlyTheStopped /\ \A r \in AskIds : ClosedOutside(asks[r])

\* Before anything is asked.
LEMMA RequestsInitInv == RequestsInit => RequestsInv
<1> SUFFICES ASSUME RequestsInit PROVE RequestsInv
  OBVIOUS
<1>1. asks \in Seq(Asking) /\ AskIds = {}
  BY DEF RequestsInit, AskIds
<1>2. waits = [a \in Askers |-> NotWaiting]
  BY DEF RequestsInit
<1>3. NotWaiting = [ask |-> 0, how |-> "idle", seen |-> {}]
  BY DEF NotWaiting, WaitingFor
<1>4. RequestsTypeInv
  BY <1>1, <1>2, <1>3 DEF RequestsInit, RequestsTypeInv, WaitHows
<1>5. OwnRequest /\ OnlyTheStopped
  BY <1>1, <1>2, <1>3 DEF OwnRequest, OnlyTheStopped
<1>6. QED
  BY <1>1, <1>4, <1>5 DEF RequestsInv

\* One request is replaced by what becomes of it; it is cut only when its agent does not
\* wait for it any more.
LEMMA RequestBecomes ==
  ASSUME RequestsInv, NEW r \in AskIds, NEW q \in Asking, ClosedOutside(q),
         asks' = [asks EXCEPT ![r] = q], q.cut => asks[r].cut \/ ~Waited(r),
         UNCHANGED waits, timeout' \in Nat, routes' \in [Providers -> Nat]
  PROVE RequestsInv'
<1>1. asks' \in Seq(Asking) /\ AskIds' = AskIds
  BY DEF RequestsInv, RequestsTypeInv, AskIds
<1>2. RequestsTypeInv' /\ OwnRequest'
  BY <1>1 DEF RequestsInv, RequestsTypeInv, OwnRequest
<1>3. \A s \in AskIds : asks'[s] = IF s = r THEN q ELSE asks[s]
  BY DEF RequestsInv, RequestsTypeInv, AskIds
<1>4. \A s : Waited(s)' = Waited(s)
  BY DEF Waited
<1>5. OnlyTheStopped'
  <2>1. ASSUME NEW s \in AskIds, asks'[s].cut PROVE ~Waited(s)
    BY <1>3, <2>1 DEF RequestsInv, OnlyTheStopped
  <2>2. QED
    BY <1>1, <1>4, <2>1 DEF OnlyTheStopped
<1>6. \A s \in AskIds : ClosedOutside(asks'[s])
  BY <1>3 DEF RequestsInv
<1>7. QED
  BY <1>1, <1>2, <1>5, <1>6 DEF RequestsInv

\* The steps of a request in its own thread.
LEMMA AskStepKeeps == ASSUME RequestsInv, NEW r \in AskIds, AskStep(r) PROVE RequestsInv'
<1> DEFINE was == asks[r]
<1>1. was \in Asking /\ ClosedOutside(was) /\ UNCHANGED waits
  BY DEF RequestsInv, RequestsTypeInv, AskIds, AskStep, Route, MakeTransport, AccountRefused,
         HttpRefused, OpenHttp, StartProgram, StartServer, Handshake, HandshakeFails, List,
         ProgramTimesOut, ReadProgram, ReadHttp, ReadServer, FinishRequest, RestoreTimeout, routing
<1>2. \A p \in Providers : routes[p] \in Nat
  BY DEF RequestsInv, RequestsTypeInv
<1>3. r \in Nat /\ timeout \in Nat
  BY DEF RequestsInv, RequestsTypeInv, AskIds
<1>4. timeout' \in Nat /\ routes' \in [Providers -> Nat]
  <2>1. CASE MakeTransport(r)
    BY <2>1, <1>1, <1>3 DEF MakeTransport, RequestsInv, RequestsTypeInv
  <2>2. CASE RestoreTimeout(r)
    BY <2>2, <1>1 DEF RestoreTimeout, RequestsInv, RequestsTypeInv, Asking, routing
  <2>3. CASE ~MakeTransport(r) /\ ~RestoreTimeout(r)
    BY <2>3 DEF RequestsInv, RequestsTypeInv, AskStep, Route, AccountRefused,
         HttpRefused, OpenHttp, StartProgram, StartServer, Handshake, HandshakeFails, List,
         ProgramTimesOut, ReadProgram, ReadHttp, ReadServer, FinishRequest, routing
  <2>4. QED
    BY <2>1, <2>2, <2>3
<1>5. \E q \in Asking : asks' = [asks EXCEPT ![r] = q] /\ q.cut = was.cut /\ ClosedOutside(q)
  <2>1. CASE Route(r)
    <3>1. Kept(was.to) \in Nat
      BY <1>1, <1>2 DEF Kept, Asking
    <3> DEFINE q == IF Kept(was.to) = 0 THEN [was EXCEPT !.at = "make"]
                    ELSE [was EXCEPT !.at = "open", !.via = Kept(was.to)]
    <3>2. asks' = [asks EXCEPT ![r] = q]
      BY <2>1 DEF Route, AskGoes, ProviderOf
    <3>3. q \in Asking /\ q.cut = was.cut /\ ClosedOutside(q)
      BY <1>1, <2>1, <3>1 DEF Route, Asking, AskSteps, ClosedOutside
    <3>4. QED
      BY <3>2, <3>3
  <2>2. CASE MakeTransport(r)
    <3> DEFINE q == [was EXCEPT !.at = "open", !.via = r]
    <3>1. asks' = [asks EXCEPT ![r] = q]
      BY <2>2 DEF MakeTransport
    <3>2. q \in Asking /\ q.cut = was.cut /\ ClosedOutside(q)
      BY <1>1, <1>3, <2>2 DEF MakeTransport, Asking, AskSteps, ClosedOutside
    <3>3. QED
      BY <3>1, <3>2
  <2>3. CASE AccountRefused(r) \/ HttpRefused(r)
    <3> DEFINE q == [was EXCEPT !.at = "restore"]
    <3>1. asks' = [asks EXCEPT ![r] = q]
      BY <2>3 DEF AccountRefused, HttpRefused, AskGoes
    <3>2. q \in Asking /\ q.cut = was.cut /\ ClosedOutside(q)
      BY <1>1, <2>3 DEF AccountRefused, HttpRefused, Asking, AskSteps, ClosedOutside
    <3>3. QED
      BY <3>1, <3>2
  <2>4. CASE OpenHttp(r) \/ StartProgram(r)
    <3> DEFINE q == [was EXCEPT !.at = "list", !.open = TRUE]
    <3>1. asks' = [asks EXCEPT ![r] = q]
      BY <2>4 DEF OpenHttp, StartProgram
    <3>2. q \in Asking /\ q.cut = was.cut /\ ClosedOutside(q)
      BY <1>1 DEF Asking, AskSteps, ClosedOutside
    <3>3. QED
      BY <3>1, <3>2
  <2>5. CASE StartServer(r)
    <3> DEFINE q == [was EXCEPT !.at = "handshake", !.open = TRUE]
    <3>1. asks' = [asks EXCEPT ![r] = q]
      BY <2>5 DEF StartServer
    <3>2. q \in Asking /\ q.cut = was.cut /\ ClosedOutside(q)
      BY <1>1 DEF Asking, AskSteps, ClosedOutside
    <3>3. QED
      BY <3>1, <3>2
  <2>6. CASE Handshake(r) \/ ReadHttp(r) \/ ReadServer(r)
    <3> DEFINE q == [was EXCEPT !.at = IF Handshake(r) THEN "list" ELSE "finish"]
    <3>1. asks' = [asks EXCEPT ![r] = q]
      BY <2>6 DEF Handshake, ReadHttp, ReadServer, AskGoes
    <3>2. q \in Asking /\ q.cut = was.cut /\ ClosedOutside(q)
      BY <1>1 DEF Asking, AskSteps, ClosedOutside
    <3>3. QED
      BY <3>1, <3>2
  <2>7. CASE HandshakeFails(r)
    <3> DEFINE q == [was EXCEPT !.at = "restore", !.alone = TRUE]
    <3>1. asks' = [asks EXCEPT ![r] = q]
      BY <2>7 DEF HandshakeFails
    <3>2. q \in Asking /\ q.cut = was.cut /\ ClosedOutside(q)
      BY <1>1 DEF Asking, AskSteps, ClosedOutside
    <3>3. QED
      BY <3>1, <3>2
  <2>8. CASE List(r)
    <3> DEFINE q == [was EXCEPT !.at = "read", !.listed = TRUE]
    <3>1. asks' = [asks EXCEPT ![r] = q]
      BY <2>8 DEF List
    <3>2. q \in Asking /\ q.cut = was.cut /\ ClosedOutside(q)
      BY <1>1 DEF Asking, AskSteps, ClosedOutside
    <3>3. QED
      BY <3>1, <3>2
  <2>9. CASE ProgramTimesOut(r) \/ ReadProgram(r)
    <3> DEFINE q == [was EXCEPT !.at = "finish", !.open = FALSE]
    <3>1. asks' = [asks EXCEPT ![r] = q]
      BY <2>9 DEF ProgramTimesOut, ReadProgram
    <3>2. q \in Asking /\ q.cut = was.cut /\ ClosedOutside(q)
      BY <1>1 DEF Asking, AskSteps, ClosedOutside
    <3>3. QED
      BY <3>1, <3>2
  <2>10. CASE FinishRequest(r)
    <3> DEFINE q == [was EXCEPT !.at = "restore", !.listed = FALSE, !.open = FALSE]
    <3>1. asks' = [asks EXCEPT ![r] = q]
      BY <2>10 DEF FinishRequest
    <3>2. q \in Asking /\ q.cut = was.cut /\ ClosedOutside(q)
      BY <1>1 DEF Asking, AskSteps, ClosedOutside
    <3>3. QED
      BY <3>1, <3>2
  <2>11. CASE RestoreTimeout(r)
    <3> DEFINE q == [was EXCEPT !.at = "over", !.before = 0]
    <3>1. asks' = [asks EXCEPT ![r] = q]
      BY <2>11 DEF RestoreTimeout
    <3>2. q \in Asking /\ q.cut = was.cut /\ ClosedOutside(q)
      BY <1>1, <2>11 DEF RestoreTimeout, Asking, AskSteps, ClosedOutside
    <3>3. QED
      BY <3>1, <3>2
  <2>12. QED
    BY <2>1, <2>2, <2>3, <2>4, <2>5, <2>6, <2>7, <2>8, <2>9, <2>10, <2>11 DEF AskStep
<1>6. QED
  BY <1>1, <1>4, <1>5, RequestBecomes

\* An agent goes on, or is on its way out, with the request it had or with none.
LEMMA WaitingBecomes ==
  ASSUME RequestsInv, NEW a \in Askers,
         NEW w \in [ask : Nat, how : WaitHows \ {"waits"}, seen : SUBSET Providers],
         waits' = [waits EXCEPT ![a] = w], UNCHANGED <<asks, timeout, routes>>,
         \/ w.how = "idle" /\ w.ask = 0
         \/ waits[a].how # "idle" /\ w.how # "idle" /\ w.ask = waits[a].ask
  PROVE RequestsInv' /\ w.ask \in AskIds \cup {0} /\ ~Waited(w.ask)'
<1>1. RequestsTypeInv' /\ AskIds' = AskIds /\ AskIds \subseteq Nat \ {0}
  BY DEF RequestsInv, RequestsTypeInv, AskIds, WaitHows
<1>2. \A b \in Askers : waits'[b] = IF b = a THEN w ELSE waits[b]
  BY DEF RequestsInv, RequestsTypeInv
<1>3. OwnRequest'
  BY <1>1, <1>2 DEF RequestsInv, OwnRequest
<1>4. \A r \in AskIds : Waited(r)' => Waited(r)
  BY <1>2, <1>1 DEF Waited
<1>5. OnlyTheStopped'
  BY <1>1, <1>4 DEF RequestsInv, OnlyTheStopped
<1>6. ~Waited(w.ask)'
  <2>1. ASSUME NEW b \in Askers, waits'[b].ask = w.ask, waits'[b].how = "waits" PROVE FALSE
    BY <1>2, <2>1, <1>1 DEF RequestsInv, OwnRequest
  <2>2. QED
    BY <2>1 DEF Waited
<1>7. QED
  BY <1>1, <1>3, <1>5, <1>6 DEF RequestsInv, OwnRequest

\* What an agent does: it asks, takes its result, is stopped and cancels.
LEMMA AskerStepKeeps == ASSUME RequestsInv, NEW a \in Askers, AskerStep(a) PROVE RequestsInv'
<1> DEFINE Wait == [ask : Nat, how : WaitHows \ {"waits"}, seen : SUBSET Providers]
<1>1. waits[a] \in [ask : Nat, how : WaitHows, seen : SUBSET Providers]
  BY DEF RequestsInv, RequestsTypeInv
<1>2. CASE \E p \in Providers : AskModel(a, p)
  <2>1. PICK p \in Providers : AskModel(a, p)
    BY <1>2
  <2> DEFINE n == Len(asks) + 1
             q == [to |-> p, at |-> "route", via |-> 0, before |-> timeout,
                   open |-> FALSE, listed |-> FALSE, cut |-> FALSE, alone |-> FALSE]
             w == [ask |-> n, how |-> "waits", seen |-> {}]
  <2>2. asks \in Seq(Asking) /\ Len(asks) \in Nat /\ n \in Nat \ {0} /\ AskIds = 1..Len(asks)
    BY DEF RequestsInv, RequestsTypeInv, AskIds
  <2>3. asks' = Append(asks, q) /\ waits' = [waits EXCEPT ![a] = w] /\ timeout' = n
        /\ routes' = routes /\ waits[a] = [ask |-> 0, how |-> "idle", seen |-> {}]
    BY <2>1 DEF AskModel, WaitingFor, routing, NotWaiting
  <2>4. q \in Asking /\ ClosedOutside(q) /\ ~q.cut
    BY DEF RequestsInv, RequestsTypeInv, Asking, AskSteps, ClosedOutside
  <2>5. w \in [ask : Nat, how : WaitHows, seen : SUBSET Providers] /\ w.ask = n /\ w.how = "waits"
    BY <2>2 DEF WaitHows
  <2> HIDE DEF q, w
  <2>6. asks' \in Seq(Asking) /\ AskIds' = AskIds \cup {n} /\ n \notin AskIds
        /\ \A r \in AskIds' : asks'[r] = IF r = n THEN q ELSE asks[r]
    BY <2>2, <2>3, <2>4 DEF AskIds
  <2>7. \A b \in Askers : waits'[b] = IF b = a THEN w ELSE waits[b]
    BY <2>3 DEF RequestsInv, RequestsTypeInv
  <2>8. RequestsTypeInv'
    BY <2>2, <2>3, <2>5, <2>6 DEF RequestsInv, RequestsTypeInv
  <2> HIDE DEF n
  <2>9. \A b \in Askers : waits[b].ask = 0 \/ waits[b].ask \in AskIds
    BY DEF RequestsInv, OwnRequest
  <2>10. 0 \notin AskIds /\ n # 0
    BY <2>2
  <2>11. OwnRequest'
    BY <2>3, <2>5, <2>6, <2>7, <2>9, <2>10 DEF RequestsInv, OwnRequest
  <2>12. \A r \in AskIds : Waited(r)' => Waited(r)
    BY <2>5, <2>6, <2>7 DEF Waited
  <2>13. OnlyTheStopped'
    <3>1. ASSUME NEW r \in AskIds', asks'[r].cut PROVE ~Waited(r)'
      BY <3>1, <2>4, <2>6, <2>12 DEF RequestsInv, OnlyTheStopped
    <3>2. QED
      BY <3>1 DEF OnlyTheStopped
  <2>14. \A r \in AskIds' : ClosedOutside(asks'[r])
    BY <2>4, <2>6 DEF RequestsInv
  <2>15. QED
    BY <2>8, <2>11, <2>13, <2>14 DEF RequestsInv
<1>3. CASE TakeResult(a) \/ WalkBreaks(a)
  <2>1. NotWaiting \in Wait /\ NotWaiting.how = "idle" /\ NotWaiting.ask = 0
    BY DEF NotWaiting, WaitingFor, WaitHows
  <2>2. waits' = [waits EXCEPT ![a] = NotWaiting] /\ UNCHANGED <<asks, timeout, routes>>
    BY <1>3 DEF TakeResult, WalkBreaks, AskerLeaves, routing
  <2>3. QED
    BY <2>1, <2>2, WaitingBecomes
<1>4. CASE StopAsker(a)
  <2> DEFINE w == [waits[a] EXCEPT !.how = "accounts", !.seen = RoutedAccounts]
  <2>1. w \in Wait /\ w.how = "accounts" /\ w.ask = waits[a].ask
    BY <1>1 DEF WaitHows, RoutedAccounts, AccountProviders
  <2>2. waits' = [waits EXCEPT ![a] = w] /\ UNCHANGED <<asks, timeout, routes>>
        /\ waits[a].how = "waits"
    BY <1>4 DEF StopAsker, routing
  <2> HIDE DEF w
  <2>3. QED
    BY <2>1, <2>2, WaitingBecomes
<1>5. CASE CancelAccount(a) \/ CancelDirect(a)
  <2> DEFINE r == waits[a].ask
             w == IF CancelAccount(a) THEN [waits[a] EXCEPT !.how = "walked"] ELSE NotWaiting
  <2>1. waits[a].how \in {"accounts", "walked"}
    BY <1>5 DEF CancelAccount, CancelDirect
  <2>2. r \in AskIds /\ ~Waited(r)
    <3>1. r \in AskIds /\ AskIds \subseteq Nat \ {0}
      BY <2>1 DEF RequestsInv, RequestsTypeInv, OwnRequest, AskIds
    <3>2. \A b \in Askers : waits[b].ask = r => b = a
      BY <3>1 DEF RequestsInv, OwnRequest
    <3>3. QED
      BY <2>1, <3>1, <3>2 DEF Waited
  <2>3. Cut(r) \/ UNCHANGED asks
    BY <1>5 DEF CancelAccount, CancelDirect
  <2>4. waits' = [waits EXCEPT ![a] = w] /\ UNCHANGED <<timeout, routes>>
    BY <1>5 DEF CancelAccount, CancelDirect, AskerLeaves, routing
  <2>5. AskIds' = AskIds
    BY <2>2, <2>3 DEF Cut, AskIds, RequestsInv, RequestsTypeInv
  <2>6. w \in Wait /\ ((w.how = "idle" /\ w.ask = 0) \/ (w.how = "walked" /\ w.ask = r))
    <3>1. CASE CancelAccount(a)
      BY <1>1, <3>1 DEF WaitHows
    <3>2. CASE ~CancelAccount(a)
      BY <3>2 DEF WaitHows, NotWaiting, WaitingFor
    <3>3. QED
      BY <3>1, <3>2
  <2> HIDE DEF w
  <2>7. /\ asks' \in Seq(Asking)
        /\ \A s \in AskIds : /\ ClosedOutside(asks'[s])
                             /\ s # r => asks'[s] = asks[s]
    <3>1. asks[r] \in Asking /\ asks \in Seq(Asking) /\ ClosedOutside(asks[r])
      BY <2>2 DEF RequestsInv, RequestsTypeInv, AskIds
    <3> DEFINE q == [asks[r] EXCEPT !.listed = FALSE, !.open = FALSE, !.cut = TRUE]
    <3>2. q \in Asking /\ ClosedOutside(q)
      BY <3>1 DEF Asking, ClosedOutside
    <3>3. asks' = asks \/ asks' = [asks EXCEPT ![r] = q]
      BY <2>3 DEF Cut
    <3> HIDE DEF q
    <3>4. QED
      BY <2>2, <3>1, <3>2, <3>3 DEF RequestsInv, AskIds
  <2>8. \A b \in Askers : waits'[b] = IF b = a THEN w ELSE waits[b]
    BY <2>4 DEF RequestsInv, RequestsTypeInv
  <2>9. RequestsTypeInv'
    BY <2>4, <2>6, <2>7 DEF RequestsInv, RequestsTypeInv
  <2>10. OwnRequest'
    <3>1. 0 \notin AskIds
      BY DEF RequestsInv, RequestsTypeInv, AskIds
    <3>2. QED
      BY <2>2, <2>5, <2>6, <2>8, <3>1 DEF RequestsInv, OwnRequest
  <2>11. \A s \in AskIds : Waited(s)' => Waited(s)
    BY <2>6, <2>8 DEF Waited
  <2>12. OnlyTheStopped'
    BY <2>2, <2>5, <2>7, <2>11 DEF RequestsInv, OnlyTheStopped
  <2>13. QED
    BY <2>5, <2>7, <2>9, <2>10, <2>12 DEF RequestsInv
<1>6. QED
  BY <1>2, <1>3, <1>4, <1>5 DEF AskerStep

\* The invariant of the requests: of every thread, in every order.
LEMMA RequestsInvariant == RequestsSpec => []RequestsInv
<1>1. RequestsInv /\ [RequestsNext]_requestVars => RequestsInv'
  <2>1. RequestsInv /\ UNCHANGED <<asks, waits, routes, timeout>> => RequestsInv'
    BY DEF RequestsInv, RequestsTypeInv, OwnRequest, OnlyTheStopped, Waited, AskIds
  <2>2. RequestsInv /\ (EnterKey \/ UNCHANGED requestVars) => RequestsInv'
    BY <2>1 DEF EnterKey, requestVars
  <2>3. QED
    BY <2>2, AskStepKeeps, AskerStepKeeps DEF RequestsNext
<1>2. QED
  BY RequestsInitInv, <1>1, PTL DEF RequestsSpec

(* Whichever agents are stopped at whatever moment, a cancel never ends the request of an *)
(* agent that still waits, on whatever transport they share                               *)
(* (aicoder/account_providers.py, cancel_current_request()).                              *)
THEOREM CancelsAreOwn == RequestsSpec => []OnlyTheStopped
<1>1. RequestsInv => OnlyTheStopped
  BY DEF RequestsInv
<1>2. QED
  BY RequestsInvariant, <1>1, PTL

(* However a request ends, the response, program or server it opened is closed by then,   *)
(* but for a server that never shook hands (aicoder/account_providers.py,                 *)
(* aicoder/model_transport.py).                                                           *)
THEOREM RequestsClose == RequestsSpec => []NothingStaysOpen
<1>1. RequestsInv => NothingStaysOpen
  BY DEF RequestsInv, NothingStaysOpen, ClosedOutside
<1>2. QED
  BY RequestsInvariant, <1>1, PTL

================================================================================
