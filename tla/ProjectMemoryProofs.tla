--------------------------- MODULE ProjectMemoryProofs ---------------------------
(***************************************************************************)
(* Theorems about ProjectMemory for any number of devices, processes,      *)
(* entries and fields, and for any number of writes, losses and revisions  *)
(* of other clients.                                                       *)
(***************************************************************************)
EXTENDS ProjectMemory, FiniteSetTheorems, TLAPS

FieldData == [Field -> Nat]
RowRecord == [data : FieldData, version : Nat, base : Nat, seq : Nat, state : SyncStates]
LogRecord == [entity : Entity, data : FieldData, version : Nat]

MemoryTyped ==
  /\ rows \in [Device -> [Entity -> RowRecord]]
  /\ cursor \in [Device -> Nat]
  /\ conflicts = [d \in Device |-> conflicts[d]]
  /\ session = [s \in Session |-> session[s]]
  /\ log \in Seq(LogRecord)
  /\ edits \in Nat
  /\ latest \in [Device -> [Entity -> FieldData]]

\* What the server has accepted for a field.
LogData(e, f) == {log[n].data[f] : n \in SeqsOf(e)}

Last(n, e) == n \in SeqsOf(e) /\ \A m \in SeqsOf(e) : m <= n
HasLast(e) == SeqsOf(e) = {} \/ \E n \in Nat : Last(n, e)

\* A copy of an entry that a session of the device holds: nobody has written the entry
\* since, so that the row still has what the copy has, or what the server has.
CopyOf(d, e, data) ==
  <<d, e>> \notin raced =>
    \A f \in Field : rows[d][e].data[f] = data[f] \/ rows[d][e].data[f] \in LogData(e, f)

\* An item of an answer is the newest revision of its entry as the answer was given.
ItemOK(i, until) ==
  /\ i.entity \in Entity /\ i.seq \in SeqsOf(i.entity) /\ i.seq <= until
  /\ i.data = log[i.seq].data /\ i.version \in Nat
  /\ \A m \in SeqsOf(i.entity) : m <= until => m <= i.seq

SessionOK(s) ==
  LET r == session[s]
      d == Home[s]
  IN /\ r.phase \in {"idle", "updating", "syncing", "sending", "answered"}
     /\ r.phase = "updating" =>
          /\ r.entity \in Entity /\ r.read \in FieldData /\ r.write \in Nat
          /\ CopyOf(d, r.entity, r.read)
     /\ r.phase \in {"syncing", "sending"} =>
          r.cursor \in Nat /\ (d \notin late => r.cursor <= cursor[d])
     /\ r.phase \in {"sending", "answered"} =>
          \A e \in DOMAIN r.changes :
            e \in Entity /\ r.changes[e].data \in FieldData /\ CopyOf(d, e, r.changes[e].data)
     /\ r.phase = "answered" =>
          /\ r.cursor \in 0..Len(log)
          /\ \A i \in r.accepted \cup r.refused \cup r.remote : ItemOK(i, r.cursor)
          /\ \A i \in r.accepted : i.entity \in DOMAIN r.changes
                                   /\ i.data = r.changes[i.entity].data
          /\ d \notin late =>
               \A e \in Entity : \A n \in cursor[d] + 1 .. r.cursor :
                 Last(n, e) => \E i \in r.remote : i.entity = e

\* Where a value survives, and a row from which the writes to an entry can be had.
Elsewhere(d, e, f) ==
  {c.local[f] : c \in {x \in conflicts[d] : x.entity = e}} \cup LogData(e, f) \cup {Blank}
Keeps(d, e, row) ==
  <<d, e>> \notin raced =>
    \A f \in Field : latest[d][e][f] = row.data[f] \/ latest[d][e][f] \in Elsewhere(d, e, f)

RowOK(d, e) ==
  LET row == rows[d][e]
  IN /\ row.seq = 0 \/ row.seq \in SeqsOf(e)
     /\ row.state = "none" => \A f \in Field : row.data[f] = Blank
     /\ row.state = "clean" => \A f \in Field : row.data[f] \in LogData(e, f)
     /\ row.state = "conflict" => \E c \in conflicts[d] : c.entity = e /\ c.local = row.data
     /\ Keeps(d, e, row)
     /\ d \notin late =>
          \A n \in 1..cursor[d] : Last(n, e) => row.state = "dirty" \/ row.seq = n

MemoryInv ==
  /\ MemoryTyped
  /\ \A d \in Device : cursor[d] \in 0..Len(log)
  /\ \A e \in Entity : HasLast(e)
  /\ \A s \in Session : SessionOK(s)
  /\ \A d \in Device, e \in Entity : RowOK(d, e)

--------------------------------------------------------------------------------
(* The server's log.                                                          *)

\* CurrentSeq is the place of the newest revision of an entry, when it has one.
LEMMA CurrentIsLast ==
  ASSUME NEW e \in Entity, HasLast(e)
  PROVE  /\ CurrentSeq(e) # 0 => Last(CurrentSeq(e), e)
         /\ \A n : Last(n, e) => CurrentSeq(e) = n
         /\ CurrentSeq(e) \in Nat
<1>1. CASE SeqsOf(e) = {}
  BY <1>1 DEF CurrentSeq, Last
<1>2. CASE SeqsOf(e) # {}
  <2>1. CurrentSeq(e) = CHOOSE n \in SeqsOf(e) : \A m \in SeqsOf(e) : m <= n
    BY <1>2 DEF CurrentSeq
  <2>2. \E n \in SeqsOf(e) : \A m \in SeqsOf(e) : m <= n
    BY <1>2 DEF HasLast, Last
  <2>3. CurrentSeq(e) \in SeqsOf(e) /\ \A m \in SeqsOf(e) : m <= CurrentSeq(e)
    BY <2>1, <2>2
  <2>4. \A m \in SeqsOf(e) : m \in Nat
    BY DEF SeqsOf
  <2> QED BY <2>3, <2>4 DEF Last
<1> QED BY <1>1, <1>2

\* The version the server compares a change's base with is a number.
LEMMA VersionIsNat ==
  ASSUME MemoryTyped, NEW e \in Entity, HasLast(e)
  PROVE  CurrentVersion(e) \in Nat
<1>1. CASE SeqsOf(e) = {}
  BY <1>1 DEF CurrentVersion
<1>2. CASE SeqsOf(e) # {}
  <2>1. CurrentSeq(e) \in SeqsOf(e)
    BY <1>2, CurrentIsLast DEF HasLast, Last
  <2>2. log[CurrentSeq(e)] \in LogRecord
    BY <2>1 DEF MemoryTyped, SeqsOf
  <2> QED BY <1>2, <2>2 DEF CurrentVersion, LogRecord
<1> QED BY <1>1, <1>2

\* The log only grows: what it held, it holds at the same place.
LEMMA LogGrows ==
  ASSUME MemoryTyped, NEW more \in Seq(LogRecord), log' = log \o more
  PROVE  /\ log' \in Seq(LogRecord) /\ Len(log') = Len(log) + Len(more) /\ Len(log) \in Nat
         /\ \A n \in 1..Len(log) : log'[n] = log[n]
         /\ \A k \in 1..Len(more) : log'[Len(log) + k] = more[k]
         /\ \A e : /\ SeqsOf(e) \subseteq SeqsOf(e)'
                   /\ \A n \in SeqsOf(e)' :
                        n \in Nat /\ (n \in SeqsOf(e) \/ (n > Len(log) /\ n <= Len(log')))
         /\ \A e, f : LogData(e, f) \subseteq LogData(e, f)'
<1>1. /\ log' \in Seq(LogRecord) /\ Len(log') = Len(log) + Len(more) /\ Len(log) \in Nat
      /\ Len(more) \in Nat
      /\ \A n \in 1..Len(log) : log'[n] = log[n]
      /\ \A k \in 1..Len(more) : log'[Len(log) + k] = more[k]
  BY DEF MemoryTyped
<1>2. ASSUME NEW e PROVE SeqsOf(e) \subseteq SeqsOf(e)'
  BY <1>1 DEF SeqsOf
<1>3. ASSUME NEW e, NEW n \in SeqsOf(e)'
      PROVE  n \in Nat /\ (n \in SeqsOf(e) \/ (n > Len(log) /\ n <= Len(log')))
  BY <1>1, <1>3 DEF SeqsOf
<1>4. ASSUME NEW e, NEW f PROVE LogData(e, f) \subseteq LogData(e, f)'
  <2>1. \A n \in SeqsOf(e) : n \in 1..Len(log)
    BY DEF SeqsOf
  <2> QED BY <1>1, <1>2, <2>1 DEF LogData
<1> QED BY <1>1, <1>2, <1>3, <1>4

LogKept ==
  /\ Len(log) \in Nat /\ Len(log') \in Nat /\ Len(log) <= Len(log')
  /\ \A n \in 1..Len(log) : log'[n] = log[n]
  /\ \A e : /\ SeqsOf(e) \subseteq SeqsOf(e)'
            /\ \A n \in SeqsOf(e)' : n \in Nat /\ (n \in SeqsOf(e) \/ n > Len(log))
  /\ \A e, f : LogData(e, f) \subseteq LogData(e, f)'

\* A step that leaves the log alone keeps it, in particular.
LEMMA SameLogIsKept ==
  ASSUME MemoryTyped, log' = log
  PROVE  LogKept
<1>1. Len(log) \in Nat /\ \A e : SeqsOf(e)' = SeqsOf(e) /\ SeqsOf(e) \subseteq Nat
  BY DEF MemoryTyped, SeqsOf
<1>2. \A e, f : LogData(e, f)' = LogData(e, f)
  BY <1>1 DEF LogData
<1> QED BY <1>1, <1>2 DEF LogKept

\* A revision that is the newest after a step, and is not new, was the newest before it.
LEMMA LastWasLast ==
  ASSUME LogKept, NEW e, NEW n \in Nat, n <= Len(log), Last(n, e)'
  PROVE  Last(n, e)
<1>1. n \in SeqsOf(e)' /\ \A m \in SeqsOf(e)' : m <= n
  BY DEF Last
<1>2. n \in SeqsOf(e)
  <2>1. n \in SeqsOf(e) \/ n > Len(log)
    BY <1>1 DEF LogKept
  <2>2. Len(log) \in Nat
    BY DEF LogKept
  <2> QED BY <2>1, <2>2
<1>3. \A m \in SeqsOf(e) : m <= n
  BY <1>1 DEF LogKept
<1> QED BY <1>2, <1>3 DEF Last

\* An item of an answer stays the newest revision of its entry as the answer was given.
LEMMA ItemStaysOK ==
  ASSUME LogKept, NEW i, NEW until \in 0..Len(log), ItemOK(i, until)
  PROVE  ItemOK(i, until)'
<1>1. i.seq \in SeqsOf(i.entity)' /\ i.seq \in 1..Len(log)
  BY DEF ItemOK, LogKept, SeqsOf
<1>2. i.data = log'[i.seq].data
  BY <1>1 DEF ItemOK, LogKept
<1>3. ASSUME NEW m \in SeqsOf(i.entity)', m <= until PROVE m <= i.seq
  BY <1>3 DEF ItemOK, LogKept
<1> QED BY <1>1, <1>2, <1>3 DEF ItemOK

--------------------------------------------------------------------------------
(* What a step leaves alone.                                                  *)

Holds(r, e) ==
  \/ session[r].phase = "updating" /\ session[r].entity = e
  \/ session[r].phase \in {"sending", "answered"} /\ e \in DOMAIN session[r].changes

\* The row of an entry goes to what the server has, or stays, or the entry counts as raced.
Undisturbed(d, e) ==
  <<d, e>> \notin raced' =>
    /\ <<d, e>> \notin raced
    /\ \A f \in Field : rows'[d][e].data[f] = rows[d][e].data[f]
                        \/ rows'[d][e].data[f] \in LogData(e, f)'

\* A copy held by a session stays good while the entry is undisturbed.
LEMMA CopyStays ==
  ASSUME LogKept, NEW d, NEW e, NEW data, CopyOf(d, e, data), Undisturbed(d, e)
  PROVE  CopyOf(d, e, data)'
  BY DEF LogKept, CopyOf, Undisturbed

\* What is known of a session stays true in a step of another session.
LEMMA SessionStays ==
  ASSUME MemoryTyped, LogKept, NEW r \in Session, SessionOK(r), session'[r] = session[r],
         \A e \in Entity : Holds(r, e) => Undisturbed(Home[r], e),
         Home[r] \notin late' => Home[r] \notin late /\ cursor[Home[r]] <= cursor'[Home[r]],
         cursor'[Home[r]] \in Nat
  PROVE  SessionOK(r)'
<1> DEFINE d == Home[r]
<1>0. d \in Device /\ cursor[d] \in Nat
  BY MemoryAssumption DEF MemoryTyped
<1>1. session[r].phase = "updating" => CopyOf(d, session[r].entity, session[r].read)'
  BY CopyStays DEF SessionOK, Holds
<1>2. session[r].phase \in {"syncing", "sending"} =>
        (d \notin late' => session[r].cursor <= cursor'[d])
  BY <1>0 DEF SessionOK
<1>3. session[r].phase \in {"sending", "answered"} =>
        \A e \in DOMAIN session[r].changes : CopyOf(d, e, session[r].changes[e].data)'
  <2>1. ASSUME session[r].phase \in {"sending", "answered"},
               NEW e \in DOMAIN session[r].changes
        PROVE  CopyOf(d, e, session[r].changes[e].data)'
    <3>1. e \in Entity /\ CopyOf(d, e, session[r].changes[e].data)
      BY <2>1 DEF SessionOK
    <3>2. Undisturbed(d, e)
      BY <2>1, <3>1 DEF Holds
    <3> QED BY <3>1, <3>2, CopyStays
  <2> QED BY <2>1
<1>4. session[r].phase = "answered" =>
        /\ session[r].cursor \in 0..Len(log')
        /\ \A i \in session[r].accepted \cup session[r].refused \cup session[r].remote :
             ItemOK(i, session[r].cursor)'
        /\ d \notin late' =>
             \A e \in Entity : \A n \in cursor'[d] + 1 .. session[r].cursor :
               Last(n, e)' => \E i \in session[r].remote : i.entity = e
  <2>1. SUFFICES ASSUME session[r].phase = "answered"
                 PROVE  /\ session[r].cursor \in 0..Len(log')
                        /\ \A i \in session[r].accepted \cup session[r].refused
                                      \cup session[r].remote : ItemOK(i, session[r].cursor)'
                        /\ d \notin late' =>
                             \A e \in Entity : \A n \in cursor'[d] + 1 .. session[r].cursor :
                               Last(n, e)' => \E i \in session[r].remote : i.entity = e
    OBVIOUS
  <2>2. session[r].cursor \in 0..Len(log) /\ session[r].cursor \in 0..Len(log')
    BY <2>1 DEF SessionOK, LogKept
  <2>3. \A i \in session[r].accepted \cup session[r].refused \cup session[r].remote :
          ItemOK(i, session[r].cursor)'
    BY <2>1, <2>2, ItemStaysOK DEF SessionOK
  <2>4. ASSUME d \notin late', NEW e \in Entity,
               NEW n \in cursor'[d] + 1 .. session[r].cursor, Last(n, e)'
        PROVE  \E i \in session[r].remote : i.entity = e
    <3>1. n \in cursor[d] + 1 .. session[r].cursor /\ n \in Nat /\ n <= Len(log) /\ d \notin late
      BY <1>0, <2>2, <2>4 DEF LogKept
    <3>2. Last(n, e)
      BY <2>4, <3>1, LastWasLast
    <3> QED BY <2>1, <3>1, <3>2 DEF SessionOK
  <2> QED BY <2>2, <2>3, <2>4
<1> QED BY <1>1, <1>2, <1>3, <1>4 DEF SessionOK

\* What is known of a row stays true in a step that does not write it.
LEMMA RowStays ==
  ASSUME MemoryTyped, LogKept, NEW d \in Device, NEW e \in Entity, RowOK(d, e),
         cursor[d] \in 0..Len(log),
         rows'[d][e] = rows[d][e], conflicts[d] \subseteq conflicts'[d],
         latest'[d][e] = latest[d][e], raced \subseteq raced', cursor'[d] = cursor[d],
         late \subseteq late'
  PROVE  RowOK(d, e)'
<1>1. \A f : Elsewhere(d, e, f) \subseteq Elsewhere(d, e, f)'
  BY DEF Elsewhere, LogKept
<1>2. Keeps(d, e, rows[d][e])'
  BY <1>1 DEF RowOK, Keeps
<1>3. ASSUME d \notin late', NEW n \in 1..cursor'[d], Last(n, e)'
      PROVE  rows[d][e].state = "dirty" \/ rows[d][e].seq = n
  <2>1. n \in Nat /\ n <= Len(log) /\ n \in 1..cursor[d] /\ d \notin late
    BY <1>3 DEF LogKept
  <2>2. Last(n, e)
    BY <1>3, <2>1, LastWasLast
  <2> QED BY <2>1, <2>2 DEF RowOK
<1>4. rows[d][e].seq = 0 \/ rows[d][e].seq \in SeqsOf(e)'
  BY DEF RowOK, LogKept
<1>5. rows[d][e].state = "clean" => \A f \in Field : rows[d][e].data[f] \in LogData(e, f)'
  BY DEF RowOK, LogKept
<1>6. rows[d][e].state = "conflict" =>
        \E c \in conflicts'[d] : c.entity = e /\ c.local = rows[d][e].data
  BY DEF RowOK
<1> QED BY <1>2, <1>3, <1>4, <1>5, <1>6 DEF RowOK

--------------------------------------------------------------------------------
(* Local writes.                                                              *)

\* Write n of session s sets the fields fs of an entry and leaves row w; the session is
\* idle afterwards.
WriteOf(s, e, fs, n, w) ==
  /\ n \in Nat /\ w \in RowRecord /\ Wrote(s, e, fs, n)
  /\ rows' = [rows EXCEPT ![Home[s]][e] = w]
  /\ w.state = "dirty" /\ w.seq = rows[Home[s]][e].seq
  /\ \A f \in Field :
       IF f \in fs THEN w.data[f] = n
       ELSE <<Home[s], e>> \notin raced =>
              \/ rows[Home[s]][e].data[f] = w.data[f]
              \/ rows[Home[s]][e].data[f] \in LogData(e, f)
  /\ UNCHANGED <<cursor, conflicts, log, late>> /\ edits' \in Nat
  /\ \/ session' = session /\ session[s].phase = "idle"
     \/ session' = [session EXCEPT ![s] = Idle]

\* A write of one session keeps the invariant.
LEMMA WriteKeeps ==
  ASSUME MemoryInv, NEW s \in Session, NEW e \in Entity, NEW fs, NEW n, NEW w,
         WriteOf(s, e, fs, n, w)
  PROVE  MemoryInv'
<1> DEFINE d == Home[s]
<1> USE DEF WriteOf
<1>1. d \in Device /\ MemoryTyped
  BY MemoryAssumption DEF MemoryInv
<1>2. /\ \A c \in Device, x \in Entity :
           rows'[c][x] = IF c = d /\ x = e THEN w ELSE rows[c][x]
      /\ rows' \in [Device -> [Entity -> RowRecord]]
  BY <1>1 DEF MemoryTyped
<1>3. /\ \A c \in Device, x \in Entity :
           latest'[c][x] = IF c = d /\ x = e
                             THEN [f \in Field |-> IF f \in fs THEN n ELSE latest[d][e][f]]
                             ELSE latest[c][x]
      /\ latest' \in [Device -> [Entity -> FieldData]]
  BY <1>1 DEF Wrote, MemoryTyped, FieldData
<1>4. session' = [r \in Session |-> session'[r]]
  BY <1>1 DEF MemoryTyped
<1>5. MemoryTyped'
  BY <1>1, <1>2, <1>3, <1>4 DEF MemoryTyped
<1>6. LogKept /\ \A x, f : LogData(x, f)' = LogData(x, f)
  <2>1. \A x : SeqsOf(x)' = SeqsOf(x)
    BY DEF SeqsOf
  <2> QED BY <1>1, <2>1, SameLogIsKept DEF LogData
<1>7. raced \subseteq raced' /\ (HeldElsewhere(s, e) => <<d, e>> \in raced')
  BY DEF Wrote
<1>8. \A x \in Entity : HasLast(x)'
  BY DEF MemoryInv, HasLast, Last, SeqsOf
<1>9. ASSUME NEW r \in Session PROVE SessionOK(r)'
  <2>1. CASE r = s
    <3>1. session'[s].phase = "idle"
      BY <1>1 DEF Idle, MemoryTyped
    <3> QED BY <2>1, <3>1 DEF SessionOK
  <2>2. CASE r # s
    <3>1. session'[r] = session[r] /\ SessionOK(r) /\ Home[r] \in Device
      BY <1>1, <1>9, <2>2, MemoryAssumption DEF MemoryTyped, MemoryInv
    <3>2. ASSUME NEW x \in Entity, Holds(r, x) PROVE Undisturbed(Home[r], x)
      <4>1. CASE Home[r] = d /\ x = e
        <5>1. HeldElsewhere(s, e)
          BY <2>2, <3>2, <4>1 DEF HeldElsewhere, Holds
        <5> QED BY <1>7, <4>1, <5>1 DEF Undisturbed
      <4>2. CASE ~(Home[r] = d /\ x = e)
        BY <1>2, <1>7, <3>1, <4>2 DEF Undisturbed
      <4> QED BY <4>1, <4>2
    <3>3. cursor[Home[r]] \in Nat
      BY <1>1, <3>1 DEF MemoryTyped
    <3> QED BY <1>1, <1>6, <3>1, <3>2, <3>3, SessionStays
  <2> QED BY <2>1, <2>2
<1>10. ASSUME NEW c \in Device, NEW x \in Entity PROVE RowOK(c, x)'
  <2>0. RowOK(c, x) /\ cursor[c] \in 0..Len(log)
    BY DEF MemoryInv
  <2>1. CASE c = d /\ x = e
    <3>1. rows'[c][x] = w
      BY <1>2, <2>1
    <3>2. w.seq = 0 \/ w.seq \in SeqsOf(x)'
      BY <2>0, <2>1 DEF RowOK, SeqsOf
    <3>3. Keeps(c, x, w)'
      <4>1. SUFFICES ASSUME <<d, e>> \notin raced', NEW f \in Field
                     PROVE  latest'[d][e][f] = w.data[f] \/ latest'[d][e][f] \in Elsewhere(d, e, f)'
        BY <2>1 DEF Keeps
      <4>2. \A y : Elsewhere(d, e, y)' = Elsewhere(d, e, y)
        BY <1>6 DEF Elsewhere
      <4>3. latest'[d][e][f] = IF f \in fs THEN n ELSE latest[d][e][f]
        <5>1. latest'[d][e] = [y \in Field |-> IF y \in fs THEN n ELSE latest[d][e][y]]
          BY <1>1, <1>3
        <5> QED BY <4>1, <5>1
      <4>4. CASE f \in fs
        BY <4>3, <4>4
      <4>5. CASE f \notin fs
        <5>1. latest[d][e][f] = rows[d][e].data[f] \/ latest[d][e][f] \in Elsewhere(d, e, f)
          BY <1>7, <2>0, <2>1, <4>1 DEF RowOK, Keeps
        <5>2. rows[d][e].data[f] = w.data[f] \/ rows[d][e].data[f] \in Elsewhere(d, e, f)
          BY <1>7, <4>1, <4>5 DEF Elsewhere
        <5> QED BY <4>2, <4>3, <4>5, <5>1, <5>2
      <4> QED BY <4>4, <4>5
    <3> QED BY <3>1, <3>2, <3>3 DEF RowOK
  <2>2. CASE ~(c = d /\ x = e)
    <3>1. rows'[c][x] = rows[c][x] /\ latest'[c][x] = latest[c][x]
      <4>1. rows'[c][x] = rows[c][x]
        BY <1>2, <2>2
      <4>2. latest'[c][x] = latest[c][x]
        BY <1>3, <2>2
      <4> QED BY <4>1, <4>2
    <3>2. conflicts[c] \subseteq conflicts'[c] /\ cursor'[c] = cursor[c] /\ late \subseteq late'
      OBVIOUS
    <3>3. raced \subseteq raced'
      BY <1>7
    <3> QED BY <1>1, <1>6, <2>0, <3>1, <3>2, <3>3, RowStays
  <2> QED BY <2>1, <2>2
<1> QED BY <1>5, <1>8, <1>9, <1>10 DEF MemoryInv

\* store() and the second half of update() are such writes.
LEMMA LocalWriteKeeps ==
  ASSUME MemoryInv, NEW s \in Session,
         (\E e \in Entity : Store(s, e)) \/ (\E f \in Field : UpdateWrites(s, f))
  PROVE  MemoryInv'
<1>0. MemoryTyped /\ Home[s] \in Device
  BY MemoryAssumption DEF MemoryInv
<1>1. ASSUME NEW e \in Entity, Store(s, e) PROVE MemoryInv'
  <2> DEFINE row == rows[Home[s]][e]
             w == [data |-> [f \in Field |-> edits + 1], version |-> row.version,
                   base |-> row.version, seq |-> row.seq, state |-> "dirty"]
  <2>1. row \in RowRecord /\ edits + 1 \in Nat
    BY <1>0 DEF MemoryTyped
  <2>2. w \in RowRecord
    BY <2>1 DEF RowRecord, FieldData, SyncStates
  <2>3. rows' = [rows EXCEPT ![Home[s]][e] = w]
    BY <1>0, <1>1 DEF Store, MemoryTyped
  <2>4. Wrote(s, e, Field, edits + 1) /\ session' = session /\ session[s].phase = "idle"
        /\ edits' = edits + 1 /\ UNCHANGED <<cursor, conflicts, log, late>>
    BY <1>1 DEF Store
  <2>5. edits' \in Nat
    BY <2>1, <2>4
  <2>6. WriteOf(s, e, Field, edits + 1, w)
    BY <2>1, <2>2, <2>3, <2>4, <2>5 DEF WriteOf
  <2>7. PICK n, v : WriteOf(s, e, Field, n, v)
    BY <2>6
  <2> QED BY <2>7, WriteKeeps
<1>2. ASSUME NEW f \in Field, UpdateWrites(s, f) PROVE MemoryInv'
  <2> DEFINE e == session[s].entity
             n == session[s].write
             row == rows[Home[s]][e]
             w == [data |-> [session[s].read EXCEPT ![f] = n], version |-> row.version,
                   base |-> row.version, seq |-> row.seq, state |-> "dirty"]
  <2>1. /\ session[s].phase = "updating" /\ e \in Entity /\ n \in Nat
        /\ session[s].read \in FieldData /\ CopyOf(Home[s], e, session[s].read)
    BY <1>2 DEF UpdateWrites, MemoryInv, SessionOK
  <2>2. row \in RowRecord
    BY <1>0, <2>1 DEF MemoryTyped
  <2>3. w \in RowRecord
    BY <2>1, <2>2 DEF RowRecord, FieldData, SyncStates
  <2>4. rows' = [rows EXCEPT ![Home[s]][e] = w]
    BY <1>0, <1>2, <2>1 DEF UpdateWrites, MemoryTyped
  <2>5. Wrote(s, e, {f}, n) /\ session' = [session EXCEPT ![s] = Idle]
        /\ UNCHANGED <<cursor, conflicts, log, late, edits>>
    BY <1>2 DEF UpdateWrites
  <2>6. edits \in Nat
    BY <1>0 DEF MemoryTyped
  <2>7. \A g \in Field : IF g \in {f} THEN w.data[g] = n
                          ELSE <<Home[s], e>> \notin raced =>
                            row.data[g] = w.data[g] \/ row.data[g] \in LogData(e, g)
    BY <2>1 DEF FieldData, CopyOf
  <2>8. WriteOf(s, e, {f}, n, w)
    BY <2>1, <2>3, <2>4, <2>5, <2>6, <2>7 DEF WriteOf
  <2>9. PICK x, m, v : x \in Entity /\ WriteOf(s, x, {f}, m, v)
    BY <2>1, <2>8
  <2> QED BY <2>9, WriteKeeps
<1> QED BY <1>1, <1>2

--------------------------------------------------------------------------------
(* The steps that leave the database alone.                                   *)

\* The rows are as they were, while the log may grow.
LEMMA LogStepKeeps ==
  ASSUME MemoryInv, LogKept, log' \in Seq(LogRecord),
         session' = [r \in Session |-> session'[r]],
         \A r \in Session : session'[r] = session[r] \/ SessionOK(r)',
         \A e \in Entity : HasLast(e)',
         UNCHANGED <<rows, cursor, conflicts, latest, raced, late>>, edits' \in Nat
  PROVE  MemoryInv'
<1>1. MemoryTyped /\ MemoryTyped'
  BY DEF MemoryInv, MemoryTyped
<1>2. ASSUME NEW r \in Session PROVE SessionOK(r)'
  <2>1. CASE session'[r] = session[r]
    <3>1. SessionOK(r) /\ Home[r] \in Device
      BY MemoryAssumption DEF MemoryInv
    <3>2. cursor[Home[r]] \in Nat
      BY <1>1, <3>1 DEF MemoryTyped
    <3>3. \A e \in Entity : Undisturbed(Home[r], e)
      BY DEF Undisturbed
    <3> QED BY <1>1, <2>1, <3>1, <3>2, <3>3, SessionStays
  <2> QED BY <2>1
<1>3. ASSUME NEW d \in Device, NEW e \in Entity PROVE RowOK(d, e)'
  <2>1. RowOK(d, e) /\ cursor[d] \in 0..Len(log)
    BY DEF MemoryInv
  <2>2. /\ rows'[d][e] = rows[d][e] /\ conflicts[d] \subseteq conflicts'[d]
        /\ latest'[d][e] = latest[d][e] /\ raced \subseteq raced' /\ cursor'[d] = cursor[d]
        /\ late \subseteq late'
    OBVIOUS
  <2> QED BY <1>1, <2>1, <2>2, RowStays
<1>4. \A d \in Device : cursor'[d] \in 0..Len(log')
  BY DEF MemoryInv, LogKept
<1> QED BY <1>1, <1>2, <1>3, <1>4 DEF MemoryInv

\* ... when the log does not grow.
LEMMA ReadingKeeps ==
  ASSUME MemoryInv, NEW s \in Session,
         \/ \E e \in Entity : UpdateReads(s, e)
         \/ ReadCursor(s) \/ ReadDirty(s) \/ NetworkFails(s) \/ ApplyRefused(s)
  PROVE  MemoryInv'
<1> DEFINE d == Home[s]
<1>0. MemoryTyped /\ d \in Device /\ SessionOK(s) /\ session = [r \in Session |-> session[r]]
  BY MemoryAssumption DEF MemoryInv, MemoryTyped
<1>1. /\ UNCHANGED <<rows, cursor, conflicts, log, latest, raced, late>>
      /\ edits' \in Nat
  BY <1>0 DEF UpdateReads, ReadCursor, ReadDirty, NetworkFails, ApplyRefused, MemoryTyped
<1>2. /\ session' = [r \in Session |-> session'[r]]
      /\ \A r \in Session \ {s} : session'[r] = session[r]
  BY <1>0 DEF UpdateReads, ReadCursor, ReadDirty, NetworkFails, ApplyRefused
<1>3. LogKept /\ log' \in Seq(LogRecord) /\ \A e \in Entity : HasLast(e)'
  <2>1. LogKept
    BY <1>0, <1>1, SameLogIsKept
  <2>2. \A e \in Entity : HasLast(e)' <=> HasLast(e)
    BY <1>1 DEF HasLast, Last, SeqsOf
  <2> QED BY <1>0, <1>1, <2>1, <2>2 DEF MemoryInv, MemoryTyped
<1>4. \A e, data : CopyOf(d, e, data)' <=> CopyOf(d, e, data)
  BY <1>1 DEF CopyOf, LogData, SeqsOf
<1>5. SessionOK(s)'
  <2>1. CASE NetworkFails(s) \/ ApplyRefused(s)
    <3>1. session'[s].phase = "idle"
      BY <1>0, <2>1 DEF NetworkFails, ApplyRefused, Idle
    <3> QED BY <3>1 DEF SessionOK
  <2>2. ASSUME NEW e \in Entity, UpdateReads(s, e) PROVE SessionOK(s)'
    <3>1. session'[s] = [phase |-> "updating", entity |-> e, read |-> rows[d][e].data,
                         write |-> edits + 1]
      BY <1>0, <2>2 DEF UpdateReads, Row
    <3>2. rows[d][e].data \in FieldData /\ edits + 1 \in Nat
      BY <1>0 DEF MemoryTyped, RowRecord
    <3>3. /\ session'[s].phase = "updating" /\ session'[s].entity = e
          /\ session'[s].read = rows[d][e].data /\ session'[s].write \in Nat
      BY <3>1, <3>2
    <3>4. CopyOf(d, session[s].entity, session[s].read)'
      BY <1>1, <3>3 DEF CopyOf
    <3> QED BY <3>2, <3>3, <3>4 DEF SessionOK
  <2>3. CASE ReadCursor(s)
    <3>1. session'[s] = [phase |-> "syncing", cursor |-> cursor[d]]
      BY <1>0, <2>3 DEF ReadCursor
    <3>2. cursor[d] \in Nat /\ cursor[d] <= cursor[d]
      BY <1>0 DEF MemoryTyped
    <3>3. session'[s].phase = "syncing" /\ session'[s].cursor = cursor'[d]
      BY <1>1, <3>1
    <3> QED BY <1>1, <3>2, <3>3 DEF SessionOK
  <2>4. CASE ReadDirty(s)
    <3> DEFINE ch == [e \in DirtyAt(d) |-> [data |-> rows[d][e].data, base |-> rows[d][e].base]]
    <3>1. session'[s] = [phase |-> "sending", cursor |-> session[s].cursor, changes |-> ch]
          /\ session[s].phase = "syncing"
      BY <1>0, <2>4 DEF ReadDirty, Row
    <3>2. /\ session'[s].phase = "sending" /\ session'[s].changes = ch
          /\ session'[s].cursor = session[s].cursor
      BY <3>1
    <3>3. session[s].cursor \in Nat /\ (d \notin late => session[s].cursor <= cursor[d])
      BY <1>0, <3>1 DEF SessionOK
    <3>4. \A e \in DOMAIN ch : e \in Entity /\ ch[e].data = rows[d][e].data
      BY DEF DirtyAt
    <3> HIDE DEF ch
    <3>5. ASSUME NEW e \in DOMAIN session'[s].changes
          PROVE  /\ e \in Entity /\ session'[s].changes[e].data \in FieldData
                 /\ CopyOf(d, e, session[s].changes[e].data)'
      <4>1. e \in Entity /\ session'[s].changes[e].data = rows[d][e].data
        BY <3>2, <3>4
      <4>2. rows[d][e].data \in FieldData
        BY <1>0, <4>1 DEF MemoryTyped, RowRecord
      <4>3. CopyOf(d, e, session[s].changes[e].data)'
        BY <1>1, <4>1 DEF CopyOf
      <4> QED BY <4>1, <4>2, <4>3
    <3> QED BY <1>1, <3>2, <3>3, <3>5 DEF SessionOK
  <2> QED BY <2>1, <2>2, <2>3, <2>4
<1> QED BY <1>1, <1>2, <1>3, <1>5, LogStepKeeps

\* A revision added at the end is the newest of its entry.
LEMMA AppendHasLast ==
  ASSUME MemoryInv, NEW item \in LogRecord, log' = Append(log, item)
  PROVE  LogKept /\ log' \in Seq(LogRecord) /\ \A e \in Entity : HasLast(e)'
<1>1. /\ log \in Seq(LogRecord) /\ Len(log) \in Nat /\ Len(log') = Len(log) + 1
      /\ log' \in Seq(LogRecord)
      /\ \A n \in 1..Len(log) : log'[n] = log[n]
      /\ log'[Len(log) + 1] = item
  BY DEF MemoryInv, MemoryTyped
<1>2. \A e : /\ SeqsOf(e) \subseteq SeqsOf(e)' /\ SeqsOf(e)' \subseteq SeqsOf(e) \cup {Len(log) + 1}
             /\ SeqsOf(e) \subseteq 1..Len(log)
             /\ (Len(log) + 1 \in SeqsOf(e)' <=> item.entity = e)
  BY <1>1 DEF SeqsOf
<1>3. LogKept
  <2>1. \A e, f : LogData(e, f) \subseteq LogData(e, f)'
    BY <1>1, <1>2 DEF LogData
  <2>2. \A e : \A n \in SeqsOf(e)' : n \in Nat /\ (n \in SeqsOf(e) \/ n > Len(log))
    BY <1>1, <1>2
  <2> QED BY <1>1, <1>2, <2>1, <2>2 DEF LogKept
<1>4. ASSUME NEW e \in Entity PROVE HasLast(e)'
  <2>1. CASE item.entity = e
    <3>1. PICK n \in Nat : n = Len(log) + 1
      BY <1>1
    <3>2. n \in SeqsOf(e)' /\ \A m \in SeqsOf(e)' : m <= n
      BY <1>1, <1>2, <2>1, <3>1
    <3> QED BY <3>2 DEF HasLast, Last
  <2>2. CASE item.entity # e
    <3>1. SeqsOf(e)' = SeqsOf(e)
      BY <1>2, <2>2
    <3> QED BY <3>1 DEF MemoryInv, HasLast, Last
  <2> QED BY <2>1, <2>2
<1> QED BY <1>1, <1>3, <1>4

\* A revision of another client keeps the invariant.
LEMMA ForeignKeeps ==
  ASSUME MemoryInv, NEW e \in Entity, NEW v \in {Blank, Unreadable}, ForeignPush(e, v)
  PROVE  MemoryInv'
<1> DEFINE item == [entity |-> e, data |-> [f \in Field |-> v],
                    version |-> CurrentVersion(e) + 1]
<1>1. item \in LogRecord
  <2>1. v \in Nat
    BY MemoryAssumption DEF Blank, Unreadable
  <2>2. CurrentVersion(e) + 1 \in Nat
    BY VersionIsNat DEF MemoryInv
  <2> QED BY <2>1, <2>2 DEF LogRecord, FieldData
<1>2. PICK i \in LogRecord : log' = Append(log, i)
  BY <1>1 DEF ForeignPush
<1>3. LogKept /\ log' \in Seq(LogRecord) /\ \A x \in Entity : HasLast(x)'
  BY <1>2, AppendHasLast
<1>4. UNCHANGED <<rows, cursor, conflicts, session, edits, latest, raced, late>>
  BY DEF ForeignPush
<1>5. MemoryTyped
  BY DEF MemoryInv
<1>6. session' = [r \in Session |-> session'[r]] /\ edits' \in Nat
  BY <1>4, <1>5 DEF MemoryTyped
<1> QED BY <1>3, <1>4, <1>6, LogStepKeeps

--------------------------------------------------------------------------------
(* The server's answer.                                                       *)

\* CurrentIsLast for all entries, in a form that holds of the next state, too.
LEMMA CurrentsAreLast ==
  \A e \in Entity : HasLast(e) =>
    /\ CurrentSeq(e) # 0 => Last(CurrentSeq(e), e)
    /\ \A n : Last(n, e) => CurrentSeq(e) = n
    /\ CurrentSeq(e) \in Nat
BY CurrentIsLast

\* The server takes in each accepted change once.
LEMMA ServeExtendsLog ==
  ASSUME MemoryInv, NEW s \in Session, Serve(s),
         NEW changes, changes = session[s].changes,
         NEW good, good = {e \in DOMAIN changes : changes[e].base = CurrentVersion(e)}
  PROVE  /\ LogKept /\ log' \in Seq(LogRecord) /\ \A e \in Entity : HasLast(e)'
         /\ \A e \in good : \E n \in Nat : Last(n, e)' /\ log'[n].data = changes[e].data
<1> DEFINE n == Cardinality(good)
           rec(e) == [entity |-> e, data |-> changes[e].data, version |-> CurrentVersion(e) + 1]
<1>1. /\ MemoryTyped /\ session[s].phase = "sending" /\ good \subseteq Entity
      /\ \A e \in good : changes[e].data \in FieldData
  BY DEF MemoryInv, Serve, SessionOK
<1>2. IsFiniteSet(good) /\ n \in Nat
  BY <1>1, MemoryAssumption, FS_Subset, FS_CardinalityType
<1>3. PICK order \in [1..n -> good] :
        /\ {order[i] : i \in 1..n} = good
        /\ log' = log \o [i \in 1..n |-> rec(order[i])]
  BY DEF Serve
<1>4. \A i, j \in 1..n : order[i] = order[j] => i = j
  <2>1. order \in Surjection(1..n, good)
    BY <1>3 DEF Surjection
  <2>2. IsFiniteSet(1..n) /\ Cardinality(1..n) = n
    BY <1>2, FS_Interval
  <2>3. order \in Injection(1..n, good)
    BY <1>2, <2>1, <2>2, FS_SurjSameCardinalityImpliesInj
  <2> QED BY <2>3 DEF Injection, IsInjective
<1>5. PICK more \in Seq(LogRecord) :
        log' = log \o more /\ Len(more) = n /\ \A i \in 1..n : more[i] = rec(order[i])
  <2>1. \A e \in good : rec(e) \in LogRecord
    BY <1>1, VersionIsNat DEF MemoryInv, LogRecord
  <2> HIDE DEF rec, n
  <2>2. [i \in 1..n |-> rec(order[i])] \in Seq(LogRecord)
    BY <1>2, <1>3, <2>1
  <2>3. Len([i \in 1..n |-> rec(order[i])]) = n
    BY <1>2
  <2> QED BY <1>3, <2>2, <2>3
<1>6. /\ log' \in Seq(LogRecord) /\ Len(log') = Len(log) + Len(more) /\ Len(log) \in Nat
      /\ \A k \in 1..Len(log) : log'[k] = log[k]
      /\ \A k \in 1..Len(more) : log'[Len(log) + k] = more[k]
      /\ \A e : /\ SeqsOf(e) \subseteq SeqsOf(e)'
                /\ \A k \in SeqsOf(e)' :
                     k \in Nat /\ (k \in SeqsOf(e) \/ (k > Len(log) /\ k <= Len(log')))
      /\ \A e, f : LogData(e, f) \subseteq LogData(e, f)'
  BY <1>1, <1>5, LogGrows
<1>7. LogKept
  <2>1. Len(log) \in Nat /\ Len(log') \in Nat /\ Len(log) <= Len(log')
    <3>1. Len(log') = Len(log) + Cardinality(good) /\ Len(log) \in Nat
      BY <1>5, <1>6
    <3> QED BY <1>2, <3>1, SMTT(30)
  <2>2. \A e : /\ SeqsOf(e) \subseteq SeqsOf(e)'
               /\ \A k \in SeqsOf(e)' : k \in Nat /\ (k \in SeqsOf(e) \/ k > Len(log))
    BY <1>6
  <2> QED BY <1>6, <2>1, <2>2 DEF LogKept
<1>8. ASSUME NEW e, NEW k \in SeqsOf(e)', k \notin SeqsOf(e)
      PROVE  \E i \in 1..n : k = Len(log) + i /\ order[i] = e
  <2>1. k \in Nat /\ k > Len(log) /\ k <= Len(log) + n
    BY <1>5, <1>6, <1>8
  <2>2. PICK i \in 1..n : k = Len(log) + i
    <3>1. k - Len(log) \in 1..n /\ k = Len(log) + (k - Len(log))
      BY <1>2, <1>6, <2>1
    <3> QED BY <3>1
  <2>3. log'[k].entity = e
    BY <1>8 DEF SeqsOf
  <2>4. log'[k] = rec(order[i])
    BY <1>5, <1>6, <2>2
  <2>5. rec(order[i]).entity = order[i]
    OBVIOUS
  <2> QED BY <2>2, <2>3, <2>4, <2>5
<1>9. ASSUME NEW e \in good
      PROVE  \E k \in Nat : Last(k, e)' /\ log'[k].data = changes[e].data
  <2> HIDE DEF n
  <2>1. PICK i \in 1..n : order[i] = e
    BY <1>3
  <2>2. PICK k \in Nat : k = Len(log) + i
    BY <1>2, <1>6, <2>1
  <2>3. log'[k] = rec(e)
    BY <1>5, <1>6, <2>1, <2>2
  <2>4. k \in SeqsOf(e)'
    <3>1. k \in 1..Len(log')
      <4>1. Len(log') = Len(log) + n /\ Len(log) \in Nat
        BY <1>5, <1>6
      <4> QED BY <1>2, <2>2, <4>1
    <3>2. log'[k].entity = e
      BY <2>3
    <3> QED BY <3>1, <3>2 DEF SeqsOf
  <2>5. ASSUME NEW m \in SeqsOf(e)' PROVE m <= k
    <3>1. CASE m \in SeqsOf(e)
      <4>1. m \in Nat /\ m <= Len(log)
        BY <1>6, <3>1 DEF SeqsOf
      <4> QED BY <1>2, <1>6, <2>2, <4>1
    <3>2. CASE m \notin SeqsOf(e)
      <4>1. m = k
        BY <1>4, <1>8, <2>1, <2>2, <3>2
      <4> QED BY <4>1
    <3> QED BY <3>1, <3>2
  <2> QED BY <2>3, <2>4, <2>5 DEF Last
<1>10. ASSUME NEW e \in Entity PROVE HasLast(e)'
  <2>1. CASE e \in good
    BY <1>9, <2>1 DEF HasLast
  <2>2. CASE e \notin good
    <3>1. \A i \in 1..n : order[i] \in good
      BY <1>3
    <3>2. \A k \in SeqsOf(e)' : k \in SeqsOf(e)
      BY <1>8, <2>2, <3>1
    <3>3. SeqsOf(e)' = SeqsOf(e)
      BY <1>6, <3>2
    <3> QED BY <3>3 DEF MemoryInv, HasLast, Last
  <2> QED BY <2>1, <2>2
<1> QED BY <1>6, <1>7, <1>9, <1>10

\* The server's answer keeps the invariant: its items are the newest revisions.
LEMMA ServeKeeps ==
  ASSUME MemoryInv, NEW s \in Session, Serve(s)
  PROVE  MemoryInv'
<1> DEFINE d == Home[s]
<1>0. PICK changes, good : /\ changes = session[s].changes
                           /\ good = {e \in DOMAIN changes : changes[e].base = CurrentVersion(e)}
  OBVIOUS
<1>1. /\ LogKept /\ log' \in Seq(LogRecord) /\ \A e \in Entity : HasLast(e)'
      /\ \A e \in good : \E n \in Nat : Last(n, e)' /\ log'[n].data = changes[e].data
  BY <1>0, ServeExtendsLog, ZenonT(60)
<1>2. /\ MemoryTyped /\ d \in Device /\ SessionOK(s) /\ session[s].phase = "sending"
      /\ session[s].cursor \in Nat /\ (d \notin late => session[s].cursor <= cursor[d])
      /\ \A e \in DOMAIN changes : /\ e \in Entity /\ changes[e].data \in FieldData
                                   /\ CopyOf(d, e, changes[e].data)
  BY <1>0, MemoryAssumption DEF MemoryInv, Serve, SessionOK
<1>3. /\ UNCHANGED <<rows, cursor, conflicts, edits, latest, raced, late>>
      /\ session' = [r \in Session |-> session'[r]]
      /\ \A r \in Session \ {s} : session'[r] = session[r]
      /\ session'[s] = [phase |-> "answered", changes |-> changes, cursor |-> Len(log'),
           accepted |-> {Item(CurrentSeq(e)', log') : e \in good},
           refused |-> {Item(CurrentSeq(e)', log') :
                          e \in {x \in DOMAIN changes \ good : CurrentSeq(x) # 0}},
           remote |-> {Item(CurrentSeq(e)', log') :
                          e \in {x \in Entity : CurrentSeq(x)' > session[s].cursor}}]
  BY <1>0, <1>2 DEF Serve, MemoryTyped
<1>4. \A e \in Entity :
        /\ CurrentSeq(e)' # 0 => Last(CurrentSeq(e), e)'
        /\ \A n : Last(n, e)' => CurrentSeq(e)' = n
        /\ CurrentSeq(e)' \in Nat
  <2>1. \A e \in Entity : HasLast(e)'
    BY <1>1
  <2>2. (\A e \in Entity : HasLast(e) =>
          /\ CurrentSeq(e) # 0 => Last(CurrentSeq(e), e)
          /\ \A n : Last(n, e) => CurrentSeq(e) = n
          /\ CurrentSeq(e) \in Nat)'
    BY CurrentsAreLast, PTL
  <2> QED BY <2>1, <2>2
<1>5. ASSUME NEW e \in Entity, NEW n \in Nat, Last(n, e)', NEW i, i = Item(n, log'),
             NEW until, until = Len(log')
      PROVE  /\ ItemOK(i, until)' /\ i.entity = e /\ i.data = log'[n].data
             /\ i.seq = n
  <2>1. n \in SeqsOf(e)' /\ n \in 1..until /\ log'[n].entity = e
    BY <1>5 DEF Last, SeqsOf
  <2>2. /\ i.entity = log'[n].entity /\ i.data = log'[n].data
        /\ i.version = log'[n].version /\ i.seq = n
    BY <1>5 DEF Item
  <2>3. log'[n] \in LogRecord
    BY <1>1, <1>5, <2>1
  <2>4. i.version \in Nat
    BY <2>2, <2>3 DEF LogRecord
  <2>5. \A m \in SeqsOf(e)' : m <= n
    BY <1>5 DEF Last
  <2>6. n <= until
    BY <2>1
  <2> QED BY <2>1, <2>2, <2>4, <2>5, <2>6 DEF ItemOK
<1>6. SessionOK(s)'
  <2>1. PICK until \in Nat : until = Len(log') /\ until \in 0..Len(log')
    BY <1>1 DEF LogKept
  <2>2. /\ session'[s].phase = "answered" /\ session'[s].changes = changes
        /\ session'[s].cursor = until
        /\ session'[s].accepted = {Item(CurrentSeq(e)', log') : e \in good}
        /\ session'[s].refused = {Item(CurrentSeq(e)', log') :
             e \in {x \in DOMAIN changes \ good : CurrentSeq(x) # 0}}
        /\ session'[s].remote = {Item(CurrentSeq(e)', log') :
             e \in {x \in Entity : CurrentSeq(x)' > session[s].cursor}}
    BY <1>3, <2>1
  <2>3. ASSUME NEW i \in session'[s].accepted
        PROVE  ItemOK(i, until)' /\ i.entity \in DOMAIN changes
               /\ i.data = changes[i.entity].data
    <3>1. PICK e \in good : i = Item(CurrentSeq(e)', log')
      BY <2>2
    <3>2. PICK n \in Nat : Last(n, e)' /\ log'[n].data = changes[e].data
      BY <1>1
    <3>3. e \in DOMAIN changes /\ e \in Entity
      BY <1>0, <1>2
    <3>4. i = Item(n, log')
      BY <1>4, <3>1, <3>2, <3>3
    <3> QED BY <1>5, <2>1, <3>2, <3>3, <3>4
  <2>4. ASSUME NEW i \in session'[s].refused PROVE ItemOK(i, until)'
    <3>1. PICK e \in DOMAIN changes : CurrentSeq(e) # 0 /\ i = Item(CurrentSeq(e)', log')
      BY <2>2
    <3>2. e \in Entity
      BY <1>2
    <3>3. PICK n \in SeqsOf(e) : TRUE
      BY <3>1 DEF CurrentSeq
    <3>4. n \in SeqsOf(e)' /\ n \in Nat /\ n # 0
      BY <1>1, <3>3 DEF LogKept, SeqsOf
    <3>5. PICK m \in Nat : Last(m, e)'
      BY <1>1, <3>2, <3>4 DEF HasLast
    <3>6. i = Item(m, log')
      BY <1>4, <3>1, <3>2, <3>5
    <3> QED BY <1>5, <2>1, <3>2, <3>5, <3>6
  <2>5. ASSUME NEW i \in session'[s].remote PROVE ItemOK(i, until)'
    <3>1. PICK e \in Entity : /\ CurrentSeq(e)' > session[s].cursor
                              /\ i = Item(CurrentSeq(e)', log')
      BY <2>2
    <3>2. CurrentSeq(e)' # 0 /\ CurrentSeq(e)' \in Nat
      BY <1>2, <1>4, <3>1
    <3>3. Last(CurrentSeq(e), e)'
      BY <1>4, <3>2
    <3>4. PICK m \in Nat : m = CurrentSeq(e)' /\ Last(m, e)'
      BY <3>2, <3>3
    <3> QED BY <1>5, <2>1, <3>1, <3>4
  <2>6. ASSUME d \notin late', NEW e \in Entity, NEW n \in cursor'[d] + 1 .. until, Last(n, e)'
        PROVE  \E i \in session'[s].remote : i.entity = e
    <3>1. cursor[d] \in Nat /\ session[s].cursor <= cursor[d]
      BY <1>2, <1>3, <2>6 DEF MemoryTyped
    <3>2. n \in Nat /\ n > session[s].cursor
      BY <1>2, <1>3, <2>1, <2>6, <3>1
    <3>3. CurrentSeq(e)' = n
      BY <1>4, <2>6
    <3>4. Item(n, log') \in session'[s].remote
      BY <2>2, <3>2, <3>3
    <3>5. Item(n, log').entity = e
      BY <1>5, <2>1, <2>6, <3>2
    <3> QED BY <3>4, <3>5
  <2>7. ASSUME NEW e \in DOMAIN changes
        PROVE  e \in Entity /\ changes[e].data \in FieldData /\ CopyOf(d, e, changes[e].data)'
    <3>1. Undisturbed(d, e)
      BY <1>3 DEF Undisturbed
    <3> QED BY <1>1, <1>2, <3>1, CopyStays
  <2> QED BY <2>1, <2>2, <2>3, <2>4, <2>5, <2>6, <2>7 DEF SessionOK
<1>7. edits' \in Nat
  BY <1>2, <1>3 DEF MemoryTyped
<1> QED BY <1>1, <1>3, <1>6, <1>7, LogStepKeeps

--------------------------------------------------------------------------------
(* Applying an answer.                                                        *)

\* Where a value survives when C is the set of conflict records.
Kept(e, f, C) == {c.local[f] : c \in {x \in C : x.entity = e}} \cup LogData(e, f) \cup {Blank}

\* A row on its way through apply_sync(): what RowOK asks of a row that replaces the one
\* there is, for the places N of the log.
RowStep(d, e, row, C, N) ==
  /\ row \in RowRecord
  /\ row.seq = 0 \/ row.seq \in SeqsOf(e)
  /\ row.state = "none" => \A f \in Field : row.data[f] = Blank
  /\ row.state = "clean" => \A f \in Field : row.data[f] \in LogData(e, f)
  /\ row.state = "conflict" => \E c \in C : c.entity = e /\ c.local = row.data
  /\ <<d, e>> \notin raced =>
       \A f \in Field : /\ latest[d][e][f] = row.data[f] \/ latest[d][e][f] \in Kept(e, f, C)
                        /\ row.data[f] = rows[d][e].data[f] \/ row.data[f] \in LogData(e, f)
  /\ \A n \in N : Last(n, e) => row.state = "dirty" \/ row.seq = n

\* What a row that is not dirty holds survives elsewhere.
LEMMA SettledIsKept ==
  ASSUME NEW d, NEW e, NEW row, NEW C, NEW N, RowStep(d, e, row, C, N), row.state # "dirty"
  PROVE  \A f \in Field : row.data[f] \in Kept(e, f, C)
<1>1. row.state \in {"none", "clean", "conflict"}
  BY DEF RowStep, RowRecord, SyncStates
<1> QED BY <1>1 DEF RowStep, Kept

\* An answer up to a place of the log names the newest revision there.
LEMMA ItemIsNewest ==
  ASSUME NEW e, NEW i, NEW until \in Nat, ItemOK(i, until), i.entity = e,
         NEW n \in Nat, n <= until, Last(n, e)
  PROVE  i.seq = n
<1>1. i.seq \in SeqsOf(e) /\ n \in SeqsOf(e) /\ i.seq <= n /\ n <= i.seq
  BY DEF ItemOK, Last
<1>2. i.seq \in Nat
  BY <1>1 DEF SeqsOf
<1> QED BY <1>1, <1>2

\* A row that a server revision replaces.
LEMMA CleanStep ==
  ASSUME MemoryTyped, NEW d, NEW e \in Entity, NEW row, NEW C, NEW N, RowStep(d, e, row, C, N),
         NEW i, NEW until \in Nat, ItemOK(i, until), i.entity = e,
         <<d, e>> \notin raced => \A f \in Field : row.data[f] \in Kept(e, f, C),
         NEW M, \A n \in M : n \in Nat /\ n <= until
  PROVE  RowStep(d, e, Clean(i), C, M)
<1>1. /\ i.seq \in SeqsOf(e) /\ i.seq \in 1..Len(log) /\ i.data = log[i.seq].data
      /\ i.version \in Nat
  BY DEF ItemOK, SeqsOf
<1>2. log[i.seq] \in LogRecord
  BY <1>1 DEF MemoryTyped
<1>3. i.data \in FieldData /\ \A f \in Field : i.data[f] \in LogData(e, f)
  BY <1>1, <1>2 DEF LogRecord, LogData
<1>4. /\ Clean(i).data = i.data /\ Clean(i).seq = i.seq /\ Clean(i).state = "clean"
      /\ Clean(i) \in RowRecord
  BY <1>1, <1>3 DEF Clean, RowRecord, SyncStates
<1>5. \A n \in M : Last(n, e) => i.seq = n
  BY ItemIsNewest
<1>6. <<d, e>> \notin raced =>
        \A f \in Field : latest[d][e][f] \in Kept(e, f, C)
  <2>1. <<d, e>> \notin raced => \A f \in Field :
          latest[d][e][f] = row.data[f] \/ latest[d][e][f] \in Kept(e, f, C)
    BY DEF RowStep
  <2> QED BY <2>1
<1> HIDE DEF Clean
<1> QED BY <1>1, <1>3, <1>4, <1>5, <1>6 DEF RowStep

\* apply_sync() keeps the invariant: accepted, then pulled, then refused items.
LEMMA ApplyKeeps ==
  ASSUME MemoryInv, NEW s \in Session, Apply(s)
  PROVE  MemoryInv'
<1> DEFINE d == Home[s]
           r == session[s]
           pushed == Pushed(s)
           pulled == [e \in Entity |-> IF Named(r.remote, e) = {} THEN pushed[e]
                                     ELSE Pulled(pushed[e], The(r.remote, e))]
           settled == [e \in Entity |-> IF Named(r.refused, e) = {} THEN pulled[e]
                                      ELSE Refused(pulled[e], The(r.refused, e))]
<1>1. /\ r.phase = "answered"
      /\ rows' = [rows EXCEPT ![d] = settled]
      /\ conflicts' = [conflicts EXCEPT ![d] =
            @ \cup {[entity |-> i.entity, local |-> pulled[i.entity].data, remote |-> i.data] :
                      i \in r.refused}]
      /\ cursor' = [cursor EXCEPT ![d] = r.cursor]
      /\ late' = IF r.cursor < cursor[d] THEN late \cup {d} ELSE late
      /\ session' = [session EXCEPT ![s] = Idle]
      /\ UNCHANGED <<log, edits, losses, latest, raced>>
  BY DEF Apply
<1>2. \A e \in Entity :
        /\ pushed[e] = IF Named(r.accepted, e) = {} THEN rows[d][e]
                       ELSE Clean(The(r.accepted, e))
        /\ pulled[e] = IF Named(r.remote, e) = {} THEN pushed[e]
                       ELSE Pulled(pushed[e], The(r.remote, e))
        /\ settled[e] = IF Named(r.refused, e) = {} THEN pulled[e]
                        ELSE Refused(pulled[e], The(r.refused, e))
  BY DEF Pushed, Row
<1>3. settled = [e \in Entity |-> settled[e]]
  OBVIOUS
<1> HIDE DEF pushed, pulled, settled
<1>4. /\ MemoryTyped /\ d \in Device /\ SessionOK(s) /\ cursor[d] \in 0..Len(log)
      /\ r.cursor \in 0..Len(log) /\ r.cursor \in Nat /\ Len(log) \in Nat
      /\ \A i \in r.accepted \cup r.refused \cup r.remote : ItemOK(i, r.cursor)
      /\ \A i \in r.accepted : i.entity \in DOMAIN r.changes /\ i.data = r.changes[i.entity].data
      /\ \A e \in DOMAIN r.changes : CopyOf(d, e, r.changes[e].data)
  BY <1>1, MemoryAssumption DEF MemoryInv, SessionOK, MemoryTyped
<1> DEFINE C == conflicts'[d]
           M == {n \in 1..cursor[d] : d \notin late'}
           N == {n \in 1..r.cursor : d \notin late'}
<1>5. /\ conflicts[d] \subseteq C
      /\ \A i \in r.refused : [entity |-> i.entity, local |-> pulled[i.entity].data,
                              remote |-> i.data] \in C
      /\ \A c \in Device : conflicts[c] \subseteq conflicts'[c]
      /\ conflicts' = [c \in Device |-> conflicts'[c]]
  <2>1. conflicts = [c \in Device |-> conflicts[c]]
    BY <1>4 DEF MemoryTyped
  <2> DEFINE new == {[entity |-> i.entity, local |-> pulled[i.entity].data, remote |-> i.data] :
                       i \in r.refused}
  <2>2. \A i \in r.refused : [entity |-> i.entity, local |-> pulled[i.entity].data,
                              remote |-> i.data] \in new
    OBVIOUS
  <2>3. conflicts' = [conflicts EXCEPT ![d] = @ \cup new]
    BY <1>1
  <2> HIDE DEF new
  <2>4. /\ C = conflicts[d] \cup new
        /\ \A c \in Device : conflicts[c] \subseteq conflicts'[c]
        /\ conflicts' = [c \in Device |-> conflicts'[c]]
    BY <1>4, <2>1, <2>3
  <2> QED BY <2>2, <2>4
<1>6. d \notin late' => d \notin late /\ cursor[d] <= r.cursor
  BY <1>1, <1>4
<1>7. M \subseteq N /\ \A n \in N : n \in Nat /\ n <= r.cursor
  BY <1>4, <1>6
<1>8. ASSUME NEW e \in Entity PROVE RowStep(d, e, rows[d][e], C, M)
  <2>1. RowOK(d, e) /\ rows[d][e] \in RowRecord
    BY <1>4 DEF MemoryInv, MemoryTyped
  <2>2. \A f : Elsewhere(d, e, f) \subseteq Kept(e, f, C)
    BY <1>5 DEF Elsewhere, Kept
  <2>3. \A n \in M : Last(n, e) => rows[d][e].state = "dirty" \/ rows[d][e].seq = n
    BY <1>6, <2>1 DEF RowOK
  <2>4. rows[d][e].state = "conflict" => \E c \in C : c.entity = e /\ c.local = rows[d][e].data
    BY <1>5, <2>1 DEF RowOK
  <2> HIDE DEF C, M
  <2> QED BY <2>1, <2>2, <2>3, <2>4 DEF RowOK, RowStep, Keeps
<1>9. ASSUME NEW e \in Entity, NEW items, Named(items, e) # {}
      PROVE  The(items, e) \in items /\ The(items, e).entity = e
  BY <1>9 DEF Named, The
<1> HIDE DEF C, M, N
<1>10. ASSUME NEW e \in Entity PROVE RowStep(d, e, pushed[e], C, M)
  <2>1. CASE Named(r.accepted, e) = {}
    BY <1>2, <1>8, <2>1
  <2>2. CASE Named(r.accepted, e) # {}
    <3>1. PICK i \in r.accepted : i = The(r.accepted, e) /\ i.entity = e
      BY <1>9, <2>2
    <3>2. pushed[e] = Clean(i)
      BY <1>2, <2>2, <3>1
    <3>3. ItemOK(i, r.cursor) /\ CopyOf(d, e, i.data)
      BY <1>4, <3>1
    <3>4. \A f \in Field : i.data[f] \in LogData(e, f)
      BY <3>1, <3>3 DEF ItemOK, LogData
    <3>5. <<d, e>> \notin raced => \A f \in Field : rows[d][e].data[f] \in Kept(e, f, C)
      BY <3>3, <3>4 DEF CopyOf, Kept
    <3>6. \A n \in M : n \in Nat /\ n <= r.cursor
      BY <1>7
    <3>7. RowStep(d, e, rows[d][e], C, M)
      BY <1>8
    <3>8. RowStep(d, e, Clean(i), C, M)
      BY <1>4, <3>1, <3>3, <3>5, <3>6, <3>7, CleanStep
    <3> QED BY <3>2, <3>8
  <2> QED BY <2>1, <2>2
<1>11. ASSUME NEW e \in Entity PROVE RowStep(d, e, pulled[e], C, N)
  <2>0. RowStep(d, e, pushed[e], C, M)
    BY <1>10
  <2>1. CASE Named(r.remote, e) = {}
    <3>1. pulled[e] = pushed[e]
      BY <1>2, <2>1
    <3>2. \A n \in N : Last(n, e) => n \in M
      <4>1. \A i \in r.remote : i.entity # e
        BY <2>1 DEF Named
      <4>2. d \notin late' => \A n \in cursor[d] + 1 .. r.cursor : ~Last(n, e)
        BY <1>1, <1>4, <1>6, <4>1 DEF SessionOK
      <4> QED BY <1>4, <4>2 DEF M, N
    <3> QED BY <2>0, <3>1, <3>2 DEF RowStep
  <2>2. CASE Named(r.remote, e) # {}
    <3>1. PICK i \in r.remote : i = The(r.remote, e) /\ i.entity = e
      BY <1>9, <2>2
    <3>2. pulled[e] = Pulled(pushed[e], i) /\ ItemOK(i, r.cursor)
      BY <1>4, <1>2, <2>2, <3>1
    <3>3. CASE pushed[e].state = "dirty"
      <4>1. pulled[e] = pushed[e]
        BY <3>2, <3>3 DEF Pulled, Skips
      <4> QED BY <2>0, <3>3, <4>1 DEF RowStep
    <3>4. CASE pushed[e].seq > i.seq
      <4>1. pulled[e] = pushed[e]
        BY <3>2, <3>4 DEF Pulled, Skips
      <4>2. ASSUME NEW n \in N, Last(n, e) PROVE FALSE
        <5>1. i.seq = n /\ n \in Nat
          BY <1>4, <1>7, <3>1, <3>2, <4>2, ItemIsNewest
        <5>2. pushed[e].seq = 0 \/ pushed[e].seq <= n
          BY <2>0, <4>2 DEF RowStep, Last
        <5>3. pushed[e].seq \in Nat
          BY <2>0 DEF RowStep, RowRecord
        <5> QED BY <3>4, <5>1, <5>2, <5>3
      <4> QED BY <2>0, <4>1, <4>2 DEF RowStep
    <3>5. CASE pushed[e].state # "dirty" /\ ~(pushed[e].seq > i.seq)
      <4>1. pulled[e] = Clean(i)
        BY <3>2, <3>5 DEF Pulled, Skips
      <4>2. \A f \in Field : pushed[e].data[f] \in Kept(e, f, C)
        BY <2>0, <3>5, SettledIsKept
      <4>3. RowStep(d, e, Clean(i), C, N)
        BY <1>4, <1>7, <2>0, <3>1, <3>2, <4>2, CleanStep
      <4> QED BY <4>1, <4>3
    <3> QED BY <3>3, <3>4, <3>5
  <2> QED BY <2>1, <2>2
<1>12. ASSUME NEW e \in Entity PROVE RowStep(d, e, settled[e], C, N)
  <2>0. RowStep(d, e, pulled[e], C, N)
    BY <1>11
  <2>1. CASE Named(r.refused, e) = {}
    BY <1>2, <2>0, <2>1
  <2>2. CASE Named(r.refused, e) # {}
    <3>1. PICK i \in r.refused : i = The(r.refused, e) /\ i.entity = e
      BY <1>9, <2>2
    <3>2. settled[e] = Refused(pulled[e], i) /\ ItemOK(i, r.cursor)
      BY <1>4, <1>2, <2>2, <3>1
    <3>3. PICK row : row = settled[e]
      OBVIOUS
    <3>4. /\ pulled[e] \in RowRecord /\ i.version \in Nat /\ i.seq \in SeqsOf(e)
          /\ i.seq \in Nat
      BY <2>0, <3>1, <3>2 DEF RowStep, ItemOK, SeqsOf
    <3>5. /\ row \in RowRecord /\ row.state = "conflict" /\ row.data = pulled[e].data
          /\ row.seq = i.seq
      BY <3>2, <3>3, <3>4 DEF Refused, RowRecord, SyncStates
    <3>6. \E c \in C : c.entity = e /\ c.local = row.data
      BY <1>5, <3>1, <3>5
    <3>7. \A n \in N : Last(n, e) => row.seq = n
      BY <1>4, <1>7, <3>1, <3>2, <3>5, ItemIsNewest
    <3>8. RowStep(d, e, row, C, N)
      BY <2>0, <3>4, <3>5, <3>6, <3>7 DEF RowStep
    <3> QED BY <3>3, <3>8
  <2> QED BY <2>1, <2>2
<1>13. /\ \A e \in Entity : rows'[d][e] = settled[e]
       /\ \A c \in Device \ {d} : rows'[c] = rows[c]
       /\ rows' \in [Device -> [Entity -> RowRecord]]
  <2>1. settled \in [Entity -> RowRecord]
    BY <1>12, <1>3 DEF RowStep
  <2> QED BY <1>1, <1>4, <2>1 DEF MemoryTyped
<1>14. /\ cursor' \in [Device -> Nat] /\ cursor'[d] = r.cursor
       /\ \A c \in Device \ {d} : cursor'[c] = cursor[c]
  BY <1>1, <1>4 DEF MemoryTyped
<1>15. LogKept /\ \A e : SeqsOf(e)' = SeqsOf(e)
  BY <1>1, <1>4, SameLogIsKept DEF SeqsOf
<1>16. MemoryTyped'
  <2>1. session' = [q \in Session |-> session'[q]]
    BY <1>1, <1>4 DEF MemoryTyped
  <2> QED BY <1>1, <1>4, <1>5, <1>13, <1>14, <2>1 DEF MemoryTyped
<1>17. ASSUME NEW c \in Device, NEW e \in Entity PROVE Undisturbed(c, e)
  <2>1. CASE c = d
    <3>1. \A f : LogData(e, f) \subseteq LogData(e, f)'
      BY <1>15 DEF LogKept
    <3>2. RowStep(d, e, rows'[d][e], C, N)
      BY <1>12, <1>13
    <3> QED BY <1>1, <2>1, <3>1, <3>2 DEF RowStep, Undisturbed
  <2>2. CASE c # d
    BY <1>1, <1>13, <2>2 DEF Undisturbed
  <2> QED BY <2>1, <2>2
<1>18. ASSUME NEW q \in Session PROVE SessionOK(q)'
  <2>1. CASE q = s
    <3>1. session'[s].phase = "idle"
      BY <1>1, <1>4 DEF MemoryTyped, Idle
    <3> QED BY <2>1, <3>1 DEF SessionOK
  <2>2. CASE q # s
    <3>1. session'[q] = session[q] /\ SessionOK(q) /\ Home[q] \in Device
      BY <1>1, <1>4, <2>2, MemoryAssumption DEF MemoryInv, MemoryTyped
    <3>2. Home[q] \notin late' => Home[q] \notin late /\ cursor[Home[q]] <= cursor'[Home[q]]
      <4>1. CASE Home[q] = d
        BY <1>6, <1>14, <4>1
      <4>2. CASE Home[q] # d
        <5>1. cursor'[Home[q]] = cursor[Home[q]] /\ cursor[Home[q]] \in Nat
          BY <1>4, <1>14, <3>1, <4>2 DEF MemoryTyped
        <5> QED BY <1>1, <5>1
      <4> QED BY <4>1, <4>2
    <3>3. cursor'[Home[q]] \in Nat
      BY <1>14, <3>1
    <3> QED BY <1>4, <1>15, <1>17, <3>1, <3>2, <3>3, SessionStays
  <2> QED BY <2>1, <2>2
<1>19. ASSUME NEW c \in Device, NEW e \in Entity PROVE RowOK(c, e)'
  <2>1. CASE c = d
    <3>1. RowStep(d, e, rows'[d][e], C, N)
      BY <1>12, <1>13
    <3>2. \A f : Kept(e, f, C) = Elsewhere(d, e, f)' /\ LogData(e, f) = LogData(e, f)'
      BY <1>1, <1>15 DEF Kept, Elsewhere, LogData, C
    <3>3. Keeps(d, e, rows[d][e])'
      <4>1. <<d, e>> \notin raced => \A f \in Field :
              latest[d][e][f] = rows'[d][e].data[f] \/ latest[d][e][f] \in Kept(e, f, C)
        BY <3>1 DEF RowStep
      <4>2. latest' = latest /\ raced' = raced
        BY <1>1
      <4>3. <<d, e>> \notin raced' => \A f \in Field :
              latest'[d][e][f] = rows'[d][e].data[f] \/ latest'[d][e][f] \in Elsewhere(d, e, f)'
        BY <3>2, <4>1, <4>2
      <4> QED BY <4>3 DEF Keeps
    <3>4. d \notin late' => \A n \in 1..cursor'[d] : Last(n, e)' =>
            rows'[d][e].state = "dirty" \/ rows'[d][e].seq = n
      <4>1. \A n : Last(n, e)' <=> Last(n, e)
        BY <1>15 DEF Last
      <4> QED BY <1>14, <3>1, <4>1 DEF RowStep, N
    <3> QED BY <1>15, <2>1, <3>1, <3>2, <3>3, <3>4 DEF RowOK, RowStep, C
  <2>2. CASE c # d
    <3>1. RowOK(c, e) /\ cursor[c] \in 0..Len(log)
      BY DEF MemoryInv
    <3>2. /\ rows'[c][e] = rows[c][e] /\ conflicts[c] \subseteq conflicts'[c]
          /\ latest'[c][e] = latest[c][e] /\ raced \subseteq raced' /\ cursor'[c] = cursor[c]
          /\ late \subseteq late'
      BY <1>1, <1>5, <1>13, <1>14, <2>2
    <3> QED BY <1>4, <1>15, <3>1, <3>2, RowStays
  <2> QED BY <2>1, <2>2
<1>20. /\ \A c \in Device : cursor'[c] \in 0..Len(log')
       /\ \A e \in Entity : HasLast(e)'
  <2>1. \A c \in Device : cursor[c] \in 0..Len(log)
    BY DEF MemoryInv
  <2>2. \A e \in Entity : HasLast(e)' <=> HasLast(e)
    BY <1>15 DEF HasLast, Last
  <2> QED BY <1>1, <1>4, <1>14, <2>1, <2>2 DEF MemoryInv
<1> QED BY <1>16, <1>18, <1>19, <1>20 DEF MemoryInv

--------------------------------------------------------------------------------
(* Theorems.                                                                  *)

\* The empty databases satisfy the invariant.
LEMMA MemoryInitially ==
  ASSUME Init
  PROVE  MemoryInv
<1>1. \A e : SeqsOf(e) = {}
  BY DEF Init, SeqsOf
<1>2. /\ \A d \in Device : cursor[d] = 0
      /\ \A d \in Device, e \in Entity :
           rows[d][e] = NoRow /\ latest[d][e] = [f \in Field |-> Blank]
      /\ \A r \in Session : session[r].phase = "idle"
      /\ log = <<>>
  BY DEF Init, Idle
<1>3. NoRow \in RowRecord /\ [f \in Field |-> Blank] \in FieldData
  BY DEF NoRow, RowRecord, FieldData, SyncStates, Blank
<1>4. MemoryTyped
  BY <1>3 DEF Init, MemoryTyped
<1>5. ASSUME NEW d \in Device, NEW e \in Entity PROVE RowOK(d, e)
  <2>1. /\ rows[d][e].seq = 0 /\ rows[d][e].state = "none"
        /\ \A f \in Field : rows[d][e].data[f] = Blank
    BY <1>2 DEF NoRow
  <2>2. Keeps(d, e, rows[d][e])
    BY <1>2 DEF Keeps, Elsewhere
  <2>3. \A n : ~Last(n, e)
    BY <1>1 DEF Last
  <2> QED BY <2>1, <2>2, <2>3 DEF RowOK
<1>6. \A r \in Session : SessionOK(r)
  BY <1>2 DEF SessionOK
<1>7. \A d \in Device : cursor[d] \in 0..Len(log)
  BY <1>2
<1> QED BY <1>1, <1>4, <1>5, <1>6, <1>7 DEF MemoryInv, HasLast

\* Every step keeps the invariant.
LEMMA MemoryStays ==
  ASSUME MemoryInv, [Next]_vars
  PROVE  MemoryInv'
<1>1. ASSUME NEW s \in Session, NEW e \in Entity, Store(s, e) \/ UpdateReads(s, e)
      PROVE  MemoryInv'
  BY <1>1, LocalWriteKeeps, ReadingKeeps
<1>2. ASSUME NEW s \in Session, NEW f \in Field, UpdateWrites(s, f) PROVE MemoryInv'
  BY <1>2, LocalWriteKeeps
<1>3. ASSUME NEW s \in Session, Sync(s) \/ NetworkFails(s) PROVE MemoryInv'
  BY <1>3, ReadingKeeps, ServeKeeps, ApplyKeeps DEF Sync
<1>4. ASSUME NEW e \in Entity, NEW v \in {Blank, Unreadable}, ForeignPush(e, v)
      PROVE  MemoryInv'
  BY <1>4, ForeignKeeps
<1>5. CASE UNCHANGED vars
  <2>1. /\ MemoryTyped
        /\ UNCHANGED <<rows, cursor, conflicts, session, log, edits, latest, raced, late>>
    BY <1>5 DEF vars, MemoryInv
  <2>2. LogKept
    BY <2>1, SameLogIsKept
  <2>3. session' = [r \in Session |-> session'[r]] /\ edits' \in Nat /\ log' \in Seq(LogRecord)
    BY <2>1 DEF MemoryTyped
  <2>4. \A e \in Entity : HasLast(e)'
    BY <2>1 DEF MemoryInv, HasLast, Last, SeqsOf
  <2> QED BY <2>1, <2>2, <2>3, <2>4, LogStepKeeps
<1> QED BY <1>1, <1>2, <1>3, <1>4, <1>5 DEF Next

\* The databases, the server's log and what the sessions hold of them agree, in every state.
THEOREM MemoryHolds == Spec => []MemoryInv
BY MemoryInitially, MemoryStays, PTL DEF Spec

\* No write of a device is lost to a lost message, a refused change, another device or a
\* concurrent sync, unless it was made while another process of the device held an older
\* copy of the entry: whatever store(), update(), sync() and apply_sync() do in any order,
\* the write is in the row, in a conflict record or on the server.
THEOREM EditsAreKept == Spec => []LocalEditKept
<1>1. MemoryInv => LocalEditKept
  <2>1. ASSUME MemoryInv, NEW d \in Device, NEW e \in Entity, NEW f \in Field,
               <<d, e>> \notin raced
        PROVE  latest[d][e][f] \in Remembered(d, e, f) \cup {Blank}
    <3>1. latest[d][e][f] = rows[d][e].data[f] \/ latest[d][e][f] \in Elsewhere(d, e, f)
      BY <2>1 DEF MemoryInv, RowOK, Keeps
    <3> QED BY <3>1 DEF Remembered, Elsewhere, LogData
  <2> QED BY <2>1 DEF LocalEditKept
<1> QED BY <1>1, MemoryHolds, PTL

\* The cursor that apply_sync() stores never passes a revision the device has not seen: as
\* long as answers are applied in the order they were given, what the server orders before
\* it is in the row, or the row holds a change the server has yet to judge.
THEOREM CursorIsSound == Spec => []CursorSound
<1>1. MemoryInv => CursorSound
  <2>1. ASSUME MemoryInv, NEW d \in Device \ late, NEW e \in Entity,
               CurrentSeq(e) \in 1..cursor[d]
        PROVE  rows[d][e].state = "dirty" \/ rows[d][e].seq = CurrentSeq(e)
    <3>1. Last(CurrentSeq(e), e)
      <4>1. HasLast(e) /\ CurrentSeq(e) # 0
        BY <2>1 DEF MemoryInv
      <4> QED BY <4>1, CurrentIsLast
    <3> QED BY <2>1, <3>1 DEF MemoryInv, RowOK
  <2> QED BY <2>1 DEF CursorSound
<1> QED BY <1>1, MemoryHolds, PTL

================================================================================
