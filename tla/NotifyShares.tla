------------------------------- MODULE NotifyShares -------------------------------
(***************************************************************************)
(* What this machine publishes over Shared Notify: shared_notify.json, the *)
(* endpoints of the server, and the MCP servers configured here.  Every    *)
(* operation reads the file, asks the backend, and writes back what it has *)
(* read with its own change; there is no lock between the commands, the    *)
(* window and the background worker, which retires the shares of servers   *)
(* that are gone on every poll.                                            *)
(***************************************************************************)
EXTENDS Naturals, FiniteSets

CONSTANTS
  Actors,     \* threads and processes that work on the file
  Servers,    \* local MCP servers; a share and its endpoint go by the server's name
  MaxChanges, \* bound: operations of the user
  MaxRetires  \* bound: polls of the background worker

ASSUME SharesAssumption == MaxChanges \in Nat /\ MaxRetires \in Nat

VARIABLES
  shares,     \* the file: [on, published]
  configured, \* the servers that exist and are enabled
  online,     \* the endpoints the backend shows
  actor,      \* of every actor its operation, and what it has read
  changes, retires,
  \* History: what the user has chosen to share; an operation has worked while another
  \* one was between its read and its write.
  chosen, crossed

sharesVars == <<shares, configured, online, actor, changes, retires, chosen, crossed>>

AtRest == [op |-> "none", server |-> "none", read |-> [on |-> FALSE, published |-> {}],
           left |-> {}, pc |-> "idle"]

SharesInit ==
  /\ shares = [on |-> TRUE, published |-> {}] /\ online = {} /\ configured = Servers
  /\ actor = [a \in Actors |-> AtRest] /\ changes = 0 /\ retires = 0
  /\ chosen = {} /\ crossed = FALSE

--------------------------------------------------------------------------------
Working == {a \in Actors : actor[a].pc # "idle"}
Ends(a) == actor' = [actor EXCEPT ![a] = AtRest]
counters == <<changes, retires>>

OpStarts(a, op, s, left) ==
  /\ actor' = [actor EXCEPT ![a] = [op |-> op, server |-> s, read |-> shares, left |-> left,
                                    pc |-> IF op = "presence" THEN "save" ELSE "server"]]
  /\ crossed' = (crossed \/ Working # {})
  /\ UNCHANGED <<shares, configured, online, chosen>>

UserStarts(a, op, s) ==
  /\ actor[a].pc = "idle" /\ changes < MaxChanges /\ changes' = changes + 1
  /\ UNCHANGED retires /\ OpStarts(a, op, s, {})

\* publish_mcp(): only with Shared Notify on, and of a server that is enabled.
PublishStarts(a) ==
  \E s \in configured : shares.on /\ UserStarts(a, "publish", s)

\* unpublish_mcp() of a share in the file.
UnpublishStarts(a) == \E s \in shares.published : UserStarts(a, "unpublish", s)

EnableStarts(a) == ~shares.on /\ UserStarts(a, "enable", "none")
DisableStarts(a) == shares.on /\ UserStarts(a, "disable", "none")

\* set_presence() saves the file before it tells the backend.
PresenceStarts(a) == shares.on /\ UserStarts(a, "presence", "none")

\* reconcile_published_mcp() of the background worker.
RetireStarts(a) ==
  /\ actor[a].pc = "idle" /\ retires < MaxRetires /\ shares.on /\ shares.published # {}
  /\ retires' = retires + 1 /\ UNCHANGED changes
  /\ OpStarts(a, "retire", "none", shares.published)

\* The backend registers or removes the endpoint.  When it cannot be reached, publish_mcp()
\* and enable fail; unpublish_mcp() forgets the share all the same; disable goes on.
Ask(a) ==
  LET s == actor[a].server
      op == actor[a].op
      to(pc) == actor' = [actor EXCEPT ![a].pc = pc]
  IN /\ actor[a].pc = "server" /\ op # "retire"
     /\ \/ /\ op = "publish" /\ online' = online \cup {s} /\ to("save")
        \/ /\ op = "unpublish" /\ online' \in {online, online \ {s}} /\ to("save")
        \/ /\ op \in {"enable", "disable"} /\ UNCHANGED online /\ to("save")
        \/ /\ op \in {"publish", "enable"} /\ online' \in {online, online \cup ({s} \cap Servers)}
           /\ Ends(a)
     /\ UNCHANGED <<shares, configured, counters, chosen, crossed>>

\* Mutant: every share is retired, of the servers that are there too.
Retire_All(a) ==
  /\ actor[a].pc = "server" /\ actor[a].op = "retire"
  /\ \E s \in actor[a].left :
       /\ online' = online \ {s}
       /\ actor' = [actor EXCEPT ![a].left = @ \ {s}, ![a].read.published = @ \ {s},
                                     ![a].server = s]
  /\ UNCHANGED <<shares, configured, counters, chosen, crossed>>

\* Share by share: that of a server which is there stays; one that cannot be retired now is
\* kept, for the next poll.
Retire(a) ==
  /\ actor[a].pc = "server" /\ actor[a].op = "retire"
  /\ \E s \in actor[a].left :
       \/ /\ s \notin configured /\ online' = online \ {s}
          /\ actor' = [actor EXCEPT ![a].left = @ \ {s}, ![a].read.published = @ \ {s},
                                     ![a].server = s]
       \/ /\ actor' = [actor EXCEPT ![a].left = @ \ {s}] /\ UNCHANGED online
  /\ UNCHANGED <<shares, configured, counters, chosen, crossed>>

\* The file is written only when something was retired.
RetireEnds(a) ==
  /\ actor[a].pc = "server" /\ actor[a].op = "retire" /\ actor[a].left = {}
  /\ actor' = [actor EXCEPT ![a].pc = "save"]
  /\ UNCHANGED <<shares, configured, online, counters, chosen, crossed>>

Outcome(op, s, old) ==
  CASE op = "publish" -> [old EXCEPT !.published = @ \cup {s}]
    [] op = "unpublish" -> [old EXCEPT !.published = @ \ {s}]
    [] op = "enable" -> [old EXCEPT !.on = TRUE]
    [] op = "disable" -> [old EXCEPT !.on = FALSE]
    [] OTHER -> old

\* save_shared_notify_state(): the whole file, as it was read and changed.
Save(a) ==
  LET op == actor[a].op
      s == actor[a].server
  IN /\ actor[a].pc = "save"
     /\ shares' = IF op = "retire" /\ s = "none" THEN shares ELSE Outcome(op, s, actor[a].read)
     /\ chosen' = CASE op = "publish" -> chosen \cup {s}
                    [] op = "unpublish" -> chosen \ {s}
                    [] OTHER -> chosen
     /\ Ends(a)
     /\ UNCHANGED <<configured, online, counters, crossed>>

\* The user removes or disables a server, which is as good as taking its share back; or
\* enables one.
Reconfigure(s) ==
  /\ changes < MaxChanges /\ changes' = changes + 1
  /\ \/ s \in configured /\ configured' = configured \ {s} /\ chosen' = chosen \ {s}
     \/ s \notin configured /\ configured' = configured \cup {s} /\ UNCHANGED chosen
  /\ crossed' = (crossed \/ Working # {})
  /\ UNCHANGED <<shares, online, actor, retires>>

ActorStep(a) ==
  \/ PublishStarts(a) \/ UnpublishStarts(a) \/ EnableStarts(a) \/ DisableStarts(a)
  \/ PresenceStarts(a)
  \/ RetireStarts(a) \/ Ask(a) \/ Retire(a) \/ RetireEnds(a) \/ Save(a)

SharesNext == (\E a \in Actors : ActorStep(a)) \/ \E s \in Servers : Reconfigure(s)

SharesSpec == SharesInit /\ [][SharesNext]_sharesVars

--------------------------------------------------------------------------------
SharesTypeOK ==
  /\ shares \in [on : BOOLEAN, published : SUBSET Servers]
  /\ online \subseteq Servers /\ configured \subseteq Servers /\ chosen \subseteq Servers

\* A share is a lasting choice of the user: what was published, and not taken back, is in
\* the file as long as the operations came one after the other.
ChosenAreShared == ~crossed => chosen \subseteq shares.published
=================================================================================
