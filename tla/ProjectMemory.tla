----------------------------- MODULE ProjectMemory -----------------------------
(***************************************************************************)
(* Local-first Project Memory of aicoder/project_memory.py: one SQLite     *)
(* database per device, shared by every aicoder process on it, and its     *)
(* push/pull synchronisation with the TriForce server.  A session is one   *)
(* such process, or one agent thread of a team run.  sync() holds no lock  *)
(* across its three connections and the network call between them,        *)
(* and update() reads on one connection and writes on another, so the      *)
(* sessions of a device interleave there.  A request or its answer may be  *)
(* lost; sync() is called fail-open, so the session just goes on.          *)
(*                                                                         *)
(* The content of an entry is, per field, the number of the write that set *)
(* it.  The server is not part of the repository: it accepts a change iff  *)
(* its base version is the current one, as the client's code supposes.     *)
(***************************************************************************)
EXTENDS Naturals, Sequences, FiniteSets

CONSTANTS
  Device,      \* databases
  Session,     \* processes that use them
  Home,        \* Home[s]: the device of a session
  Entity,      \* entry ids
  Field,       \* the fields an update may change one at a time
  MaxEdits,    \* bound: local writes
  MaxLosses,   \* bound: requests and answers lost
  MaxForeign   \* bound: revisions some other client pushes

ASSUME MemoryAssumption ==
  /\ Home \in [Session -> Device]
  /\ IsFiniteSet(Entity)
  /\ MaxEdits \in Nat /\ MaxLosses \in Nat /\ MaxForeign \in Nat

Blank == 0
Unreadable == MaxEdits + 1   \* what _validate of this client rejects
Data == [Field -> 0..MaxEdits + 1]

SyncStates == {"none", "dirty", "clean", "conflict"}
NoRow == [data |-> [f \in Field |-> Blank], version |-> 0, base |-> 0, seq |-> 0,
          state |-> "none"]

VARIABLES
  rows,       \* table project_memory, by device and entry
  cursor,     \* table project_memory_sync_state, by device
  conflicts,  \* table project_memory_conflicts, by device
  session,    \* what each process holds in its local variables
  log,        \* external: the revisions the server accepted, by server_seq
  edits,      \* local writes so far; also the content of the last one
  losses,     \* requests and answers lost so far
  latest,     \* history: the last write of a device to a field
  raced,      \* history: entries written while a session held a copy of them
  late        \* history: devices that applied an answer older than their cursor

vars == <<rows, cursor, conflicts, session, log, edits, losses, latest, raced, late>>

Idle == [phase |-> "idle"]

Init ==
  /\ rows = [d \in Device |-> [e \in Entity |-> NoRow]]
  /\ cursor = [d \in Device |-> 0]
  /\ conflicts = [d \in Device |-> {}]
  /\ session = [s \in Session |-> Idle]
  /\ log = <<>>
  /\ edits = 0 /\ losses = 0
  /\ latest = [d \in Device |-> [e \in Entity |-> [f \in Field |-> Blank]]]
  /\ raced = {} /\ late = {}

Row(s, e) == rows[Home[s]][e]
SeqsOf(e) == {n \in 1..Len(log) : log[n].entity = e}
CurrentSeq(e) == IF SeqsOf(e) = {} THEN 0
                 ELSE CHOOSE n \in SeqsOf(e) : \A m \in SeqsOf(e) : m <= n
CurrentVersion(e) == IF SeqsOf(e) = {} THEN 0 ELSE log[CurrentSeq(e)].version

--------------------------------------------------------------------------------
(* Local writes.                                                              *)

\* A session of the device has put the entry into a request it waits on, or
\* has read it in order to update it.
HeldElsewhere(s, e) ==
  \E r \in Session \ {s} :
    /\ Home[r] = Home[s]
    /\ \/ session[r].phase \in {"sending", "answered"} /\ e \in DOMAIN session[r].changes
       \/ session[r].phase = "updating" /\ session[r].entity = e

\* History: write n has set the fields fs of an entry.
Wrote(s, e, fs, n) ==
  /\ latest' = [latest EXCEPT ![Home[s]][e] = [f \in Field |-> IF f \in fs THEN n ELSE @[f]]]
  /\ raced' = IF HeldElsewhere(s, e) THEN raced \cup {<<Home[s], e>>} ELSE raced

\* store(): insert, or overwrite every field of an entry that exists.
Store(s, e) ==
  /\ session[s].phase = "idle" /\ edits < MaxEdits
  /\ edits' = edits + 1
  /\ Wrote(s, e, Field, edits + 1)
  /\ rows' = [rows EXCEPT ![Home[s]][e] =
       [data |-> [f \in Field |-> edits + 1], version |-> @.version, base |-> @.version,
        seq |-> @.seq, state |-> "dirty"]]
  /\ UNCHANGED <<cursor, conflicts, session, log, losses, late>>

\* update(), first connection: get() of an entry that exists ...
UpdateReads(s, e) ==
  /\ session[s].phase = "idle" /\ edits < MaxEdits
  /\ Row(s, e).state # "none"
  /\ edits' = edits + 1
  /\ session' = [session EXCEPT ![s] =
       [phase |-> "updating", entity |-> e, read |-> Row(s, e).data, write |-> edits + 1]]
  /\ UNCHANGED <<rows, cursor, conflicts, log, losses, latest, raced, late>>

\* ... second connection: the changed field, and the others as they were read.
UpdateWrites(s, f) ==
  LET e == session[s].entity
      n == session[s].write
  IN /\ session[s].phase = "updating"
     /\ Wrote(s, e, {f}, n)
     /\ rows' = [rows EXCEPT ![Home[s]][e] =
          [data |-> [session[s].read EXCEPT ![f] = n], version |-> @.version,
           base |-> @.version, seq |-> @.seq, state |-> "dirty"]]
     /\ session' = [session EXCEPT ![s] = Idle]
     /\ UNCHANGED <<cursor, conflicts, log, edits, losses, late>>

--------------------------------------------------------------------------------
(* sync().                                                                    *)

ReadCursor(s) ==
  /\ session[s].phase = "idle"
  /\ session' = [session EXCEPT ![s] = [phase |-> "syncing", cursor |-> cursor[Home[s]]]]
  /\ UNCHANGED <<rows, cursor, conflicts, log, edits, losses, latest, raced, late>>

DirtyAt(d) == {e \in Entity : rows[d][e].state = "dirty"}

ReadDirty(s) ==
  /\ session[s].phase = "syncing"
  /\ session' = [session EXCEPT ![s] =
       [phase |-> "sending", cursor |-> @.cursor,
        changes |-> [e \in DirtyAt(Home[s]) |->
                       [data |-> Row(s, e).data, base |-> Row(s, e).base]]]]
  /\ UNCHANGED <<rows, cursor, conflicts, log, edits, losses, latest, raced, late>>

\* client.project_memory_sync raises: nothing was applied.
NetworkFails(s) ==
  /\ session[s].phase \in {"sending", "answered"} /\ losses < MaxLosses
  /\ losses' = losses + 1
  /\ session' = [session EXCEPT ![s] = Idle]
  /\ UNCHANGED <<rows, cursor, conflicts, log, edits, latest, raced, late>>

Item(n, l) == [entity |-> l[n].entity, data |-> l[n].data, version |-> l[n].version, seq |-> n]

\* External: the server answers with what it accepted, what it refused, and the
\* newest revision of every entry that is behind the cursor.
Serve(s) ==
  LET changes == session[s].changes
      good == {e \in DOMAIN changes : changes[e].base = CurrentVersion(e)}
      n == Cardinality(good)
  IN /\ session[s].phase = "sending"
     /\ \E order \in [1..n -> good] :
          /\ {order[i] : i \in 1..n} = good
          /\ log' = log \o [i \in 1..n |-> [entity |-> order[i], data |-> changes[order[i]].data,
                                            version |-> CurrentVersion(order[i]) + 1]]
     /\ session' = [session EXCEPT ![s] =
          [phase |-> "answered", changes |-> changes, cursor |-> Len(log'),
           accepted |-> {Item(CurrentSeq(e)', log') : e \in good},
           refused |-> {Item(CurrentSeq(e)', log') :
                          e \in {x \in DOMAIN changes \ good : CurrentSeq(x) # 0}},
           remote |-> {Item(CurrentSeq(e)', log') :
                          e \in {x \in Entity : CurrentSeq(x)' > session[s].cursor}}]]
     /\ UNCHANGED <<rows, cursor, conflicts, edits, losses, latest, raced, late>>

\* External: another client of the same project pushes a revision, possibly of
\* a kind or size this version does not accept.
ForeignPush(e, value) ==
  /\ Len(SelectSeq(log, LAMBDA r : r.data \in {[f \in Field |-> Blank],
                                               [f \in Field |-> Unreadable]})) < MaxForeign
  /\ log' = Append(log, [entity |-> e, data |-> [f \in Field |-> value],
                         version |-> CurrentVersion(e) + 1])
  /\ UNCHANGED <<rows, cursor, conflicts, session, edits, losses, latest, raced, late>>

Clean(item) == [data |-> item.data, version |-> item.version, base |-> item.version,
                seq |-> item.seq, state |-> "clean"]

Readable(items) == \A i \in items : \A f \in Field : i.data[f] # Unreadable

\* Mutant: pulled revisions replace rows that wait to be pushed.
Pulled_OverDirty(row, item) == IF row.seq > item.seq THEN row ELSE Clean(item)

\* Mutant: only entries already known are pulled.
Pulled_KnownOnly(row, item) ==
  IF row.state # "clean" \/ row.seq > item.seq THEN row ELSE Clean(item)

\* A pulled revision is passed over, and not even looked at, when the row waits to be
\* pushed or has a newer one.
Skips(row, item) == row.state = "dirty" \/ row.seq > item.seq

\* A pulled revision, applied to the row as the accepted items left it.
Pulled(row, item) == IF Skips(row, item) THEN row ELSE Clean(item)

\* Mutant: the row does not learn which revision it conflicts with.
Refused_KeepsSeq(row, item) ==
  [row EXCEPT !.state = "conflict", !.version = item.version, !.base = item.version]

\* A refused change keeps its content and takes over the server's numbers.
Refused(row, item) ==
  [row EXCEPT !.state = "conflict", !.version = item.version, !.base = item.version,
              !.seq = item.seq]

Named(items, e) == {i \in items : i.entity = e}
The(items, e) == CHOOSE i \in items : i.entity = e

\* The rows once the accepted items are in: an accepted entry is clean when the pulled
\* items are looked at.
Pushed(s) ==
  [e \in Entity |-> IF Named(session[s].accepted, e) = {} THEN Row(s, e)
                    ELSE Clean(The(session[s].accepted, e))]

\* What of an answer reaches _upsert_server(), which validates what it is given.
Upserted(s) ==
  session[s].accepted \cup {i \in session[s].remote : ~Skips(Pushed(s)[i.entity], i)}

\* apply_sync(): one transaction; the accepted items, then the pulled ones, then
\* the conflicts, which nothing validates.
Apply(s) ==
  LET r == session[s]
      d == Home[s]
      pushed == Pushed(s)
      pulled == [e \in Entity |->
        IF Named(r.remote, e) = {} THEN pushed[e] ELSE Pulled(pushed[e], The(r.remote, e))]
      settled == [e \in Entity |->
        IF Named(r.refused, e) = {} THEN pulled[e] ELSE Refused(pulled[e], The(r.refused, e))]
  IN /\ r.phase = "answered"
     /\ Readable(Upserted(s))
     /\ rows' = [rows EXCEPT ![d] = settled]
     /\ conflicts' = [conflicts EXCEPT ![d] =
          @ \cup {[entity |-> i.entity, local |-> pulled[i.entity].data, remote |-> i.data] :
                    i \in r.refused}]
     /\ cursor' = [cursor EXCEPT ![d] = r.cursor]
     /\ late' = IF r.cursor < cursor[d] THEN late \cup {d} ELSE late
     /\ session' = [session EXCEPT ![s] = Idle]
     /\ UNCHANGED <<log, edits, losses, latest, raced>>

\* One item _upsert_server() rejects rolls the whole answer back, the cursor included.
ApplyRefused(s) ==
  /\ session[s].phase = "answered"
  /\ ~Readable(Upserted(s))
  /\ session' = [session EXCEPT ![s] = Idle]
  /\ UNCHANGED <<rows, cursor, conflicts, log, edits, losses, latest, raced, late>>

Sync(s) == ReadCursor(s) \/ ReadDirty(s) \/ Serve(s) \/ Apply(s) \/ ApplyRefused(s)

Next ==
  \/ \E s \in Session : Sync(s) \/ NetworkFails(s)
  \/ \E s \in Session, e \in Entity : Store(s, e) \/ UpdateReads(s, e)
  \/ \E s \in Session, f \in Field : UpdateWrites(s, f)
  \/ \E e \in Entity, v \in {Blank, Unreadable} : ForeignPush(e, v)

Spec == Init /\ [][Next]_vars

\* Every process goes on syncing (each agent run and each team stage starts one)
\* and ends the update it began.
FairSpec ==
  /\ Spec
  /\ \A s \in Session : WF_vars(Sync(s))
  /\ \A s \in Session : WF_vars(\E f \in Field : UpdateWrites(s, f))
--------------------------------------------------------------------------------
(* Properties.                                                                *)

\* Where a write survives: in the row, in a conflict record, or on the server.
Remembered(d, e, f) ==
  {rows[d][e].data[f]} \cup {c.local[f] : c \in {x \in conflicts[d] : x.entity = e}}
    \cup {log[n].data[f] : n \in SeqsOf(e)}

\* No write of the user or an agent is lost to lost messages, refused changes,
\* other devices or concurrent syncs, unless it was made while another process
\* of the device held an older copy of the same entry.
LocalEditKept ==
  \A d \in Device, e \in Entity, f \in Field :
    <<d, e>> \notin raced => latest[d][e][f] \in Remembered(d, e, f) \cup {Blank}

\* As long as a device applies answers in the order they were given, its cursor
\* never skips a revision: what the server orders before it is in the row, or the
\* row holds a change the server has yet to judge.
CursorSound ==
  \A d \in Device \ late, e \in Entity :
    CurrentSeq(e) \in 1..cursor[d] =>
      rows[d][e].state = "dirty" \/ rows[d][e].seq = CurrentSeq(e)

\* When no server revision is unreadable and no answer came late, every device
\* ends with the server's newest revision of each entry, or with a recorded
\* conflict.
Agreed ==
  \A d \in Device, e \in Entity :
    CurrentSeq(e) # 0 =>
      \/ rows[d][e].state = "conflict"
      \/ rows[d][e].state = "clean" /\ rows[d][e].data = log[CurrentSeq(e)].data
Poisoned == \E n \in 1..Len(log) : \E f \in Field : log[n].data[f] = Unreadable
Converges == <>(Poisoned \/ late # {}) \/ <>[]Agreed
================================================================================
