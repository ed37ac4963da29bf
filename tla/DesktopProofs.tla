---------------------------- MODULE DesktopProofs -----------------------------
(***************************************************************************)
(* What the desktop does on this machine, for every set of chats, stores,  *)
(* settings, agents and calls and every number of steps: its settings are  *)
(* kept and shown, a chat gets its own answers and the page settles, a     *)
(* change is undone exactly, and what the node writes over for the server  *)
(* is covered.                                                             *)
(***************************************************************************)
EXTENDS SettingsStore, SettingsWindow, Desktop, ChangeJournal, RemoteNode,
        FiniteSetTheorems, TLAPS

--------------------------------------------------------------------------------
(* The settings file.  A store updates from its cache only what the stamp of  *)
(* the file covers; the invariant follows the stamps that caches and          *)
(* operations have seen, and who may write.                                   *)

Patches == UNION {[D -> Values] : D \in SUBSET Keys}
Patched(patch, data) ==
  [k \in Keys |-> IF k \in DOMAIN patch THEN patch[k] ELSE data[k]]

Op == [pc : {"idle", "wait", "stat", "read", "quarantine", "fill", "write", "written"},
       does : {"none", "load", "update", "reset"},
       patch : Patches, data : Data, seen : Nat]

TypeInv ==
  /\ file \in Data \cup {Missing, Corrupt} /\ stamp \in Nat \ {0}
  /\ lock \in Stores \cup {NoStore}
  /\ cache \in [Stores -> [stamp : Nat, data : Data]]
  /\ op \in [Stores -> Op]
  /\ mixed \subseteq Stores /\ spoiled \in BOOLEAN /\ wanted \in Data

\* Stamps are those the file has had.
StampInv ==
  \A s \in Stores : cache[s].stamp <= stamp /\ op[s].seen <= stamp

\* Who writes holds the lock, an update from its reading on; a reset writes the defaults.
LockInv ==
  \A s \in Stores :
    /\ op[s].pc = "write" => lock = s /\ op[s].does \in {"update", "reset"}
    /\ op[s].pc \in {"stat", "read", "quarantine", "fill"} =>
         op[s].does = "load" \/ (op[s].does = "update" /\ lock = s)
    /\ op[s].pc = "wait" => op[s].does \in {"update", "reset"}
    /\ op[s].does = "reset" /\ op[s].pc # "written" => op[s].patch = Defaults /\ op[s].data = Defaults

\* While nothing is spoiled, a store that is not mixed has what was set last under the
\* stamp the file has, ...
CacheInv ==
  ~spoiled => \A s \in Stores :
    s \notin mixed /\ cache[s].stamp = stamp => cache[s].data = wanted

\* ... reads and writes it, and is about to write what was set last but for its own.
OpInv ==
  ~spoiled => \A s \in Stores :
    /\ op[s].pc # "quarantine"
    /\ op[s].pc \in {"fill", "written"} /\ op[s].seen = stamp => op[s].data = wanted
    /\ op[s].pc = "write" /\ op[s].does = "update" /\ s \notin mixed =>
         op[s].data = Patched(op[s].patch, wanted)

IInv == TypeInv /\ StampInv /\ LockInv /\ CacheInv /\ OpInv /\ UpdatesKept

--------------------------------------------------------------------------------
\* Types of what is read, patched and written.
LEMMA PatchedIsData ==
  ASSUME NEW patch \in Patches, NEW data \in Data
  PROVE  Patched(patch, data) \in Data
<1>1. PICK D \in SUBSET Keys : patch \in [D -> Values]
  BY DEF Patches
<1>2. QED
  BY <1>1 DEF Patched, Data

LEMMA OnePatch ==
  ASSUME NEW k \in Keys, NEW v \in Values
  PROVE  [x \in {k} |-> v] \in Patches
<1>1. [x \in {k} |-> v] \in [{k} -> Values] /\ {k} \in SUBSET Keys
  OBVIOUS
<1>2. QED
  BY <1>1 DEF Patches

LEMMA DefaultsAre == Defaults \in Data /\ Defaults \in Patches
<1>1. Defaults \in Data
  BY SettingsAssumption DEF Defaults, Data
<1>2. Data \subseteq Patches
  BY DEF Data, Patches
<1>3. QED
  BY <1>1, <1>2

LEMMA NoOpIsOp == NoOp \in Op
BY DefaultsAre DEF NoOp, Op

LEMMA LoadedIsOp ==
  ASSUME TypeInv, NEW s \in Stores, NEW data \in Data
  PROVE  Loaded(s, data) \in Op
<1>1. op[s] \in Op
  BY DEF TypeInv
<1>2. Patched(op[s].patch, data) \in Data
  BY <1>1, PatchedIsData DEF Op
<1>3. QED
  BY <1>1, <1>2, NoOpIsOp DEF Loaded, Op, Patched

--------------------------------------------------------------------------------
LEMMA InitInv == SettingsInit => IInv
<1> SUFFICES ASSUME SettingsInit PROVE IInv
  OBVIOUS
<1>1. /\ file = Missing /\ stamp = 1 /\ lock = NoStore /\ mixed = {} /\ spoiled = FALSE
      /\ wanted = Defaults
  BY DEF SettingsInit
<1>2. cache = [s \in Stores |-> [stamp |-> 0, data |-> Defaults]]
  BY DEF SettingsInit, NoCache
<1>3. op \in [Stores -> Op] /\ \A s \in Stores : op[s] = NoOp
  BY NoOpIsOp DEF SettingsInit
<1>4. TypeInv
  <2>1. cache \in [Stores -> [stamp : Nat, data : Data]]
    BY <1>2, DefaultsAre
  <2>2. stamp \in Nat \ {0}
    BY <1>1
  <2>3. QED
    BY <1>1, <1>3, <2>1, <2>2, DefaultsAre DEF TypeInv
<1>5. StampInv /\ LockInv /\ OpInv
  BY <1>1, <1>2, <1>3 DEF StampInv, LockInv, OpInv, NoOp
<1>6. CacheInv /\ UpdatesKept
  BY <1>1, <1>2 DEF CacheInv, UpdatesKept
<1>7. QED
  BY <1>4, <1>5, <1>6 DEF IInv

\* What a load hands on.
LEMMA LoadedFields ==
  ASSUME TypeInv, NEW s \in Stores, NEW data \in Data
  PROVE  /\ Loaded(s, data) \in Op
         /\ op[s].does = "load" => Loaded(s, data) = NoOp
         /\ op[s].does # "load" =>
              /\ Loaded(s, data).pc = "write" /\ Loaded(s, data).does = op[s].does
              /\ Loaded(s, data).patch = op[s].patch /\ Loaded(s, data).seen = op[s].seen
              /\ Loaded(s, data).data = Patched(op[s].patch, data)
<1>1. op[s] \in Op
  BY DEF TypeInv
<1>2. Patched(op[s].patch, data) \in Data
  BY <1>1, PatchedIsData DEF Op
<1>3. Loaded(s, data) = IF op[s].does = "load" THEN NoOp
                        ELSE [op[s] EXCEPT !.pc = "write", !.data = Patched(op[s].patch, data)]
  BY DEF Loaded, Patched
<1>4. QED
  BY <1>1, <1>2, <1>3, NoOpIsOp DEF Op

--------------------------------------------------------------------------------
\* A store that begins.
LEMMA BeginKeeps ==
  ASSUME IInv, NEW s \in Stores, NEW does \in {"load", "update", "reset"},
         NEW pc \in {"stat", "wait"}, NEW patch \in Patches,
         pc = "stat" <=> does = "load", does = "reset" => patch = Defaults,
         Begin(s, does, pc, patch)
  PROVE  IInv'
<1> DEFINE new == [NoOp EXCEPT !.pc = pc, !.does = does, !.patch = patch]
<1>1. /\ new \in Op /\ new.pc = pc /\ new.does = does /\ new.patch = patch
      /\ new.data = Defaults /\ new.seen = 0
  BY DefaultsAre DEF NoOp, Op
<1>2. op' = [op EXCEPT ![s] = new] /\ op[s] = NoOp
  BY DEF Begin
<1>3. UNCHANGED <<file, stamp, lock, cache, damage, wanted, mixed, spoiled>>
  BY DEF Begin
<1> HIDE DEF new
<1>4. TypeInv' /\ StampInv'
  BY <1>1, <1>2, <1>3 DEF IInv, TypeInv, StampInv
<1>5. LockInv'
  BY <1>1, <1>2, <1>3 DEF IInv, TypeInv, LockInv
<1>6. CacheInv' /\ UpdatesKept'
  BY <1>3 DEF IInv, CacheInv, UpdatesKept
<1>7. OpInv'
  BY <1>1, <1>2, <1>3 DEF IInv, TypeInv, OpInv
<1>8. QED
  BY <1>4, <1>5, <1>6, <1>7 DEF IInv

LEMMA LockFileKeeps ==
  ASSUME IInv, NEW s \in Stores, LockFile(s)
  PROVE  IInv'
<1>1. op[s].pc = "wait" /\ lock = NoStore /\ lock' = s
  BY DEF LockFile
<1>2. op' = [op EXCEPT ![s].pc = IF op[s].does = "reset" THEN "write" ELSE "stat"]
  BY DEF LockFile
<1>3. UNCHANGED <<file, stamp, cache, damage, wanted, mixed, spoiled>>
  BY DEF LockFile
<1>4. op[s] \in Op
  BY DEF IInv, TypeInv
<1>5. TypeInv' /\ StampInv'
  BY <1>1, <1>2, <1>3, <1>4 DEF IInv, TypeInv, StampInv, Op
<1>6. LockInv'
  BY <1>1, <1>2, <1>3, <1>4, SettingsAssumption DEF IInv, TypeInv, LockInv, Op
<1>7. CacheInv' /\ UpdatesKept'
  BY <1>3 DEF IInv, CacheInv, UpdatesKept
<1>8. OpInv'
  BY <1>1, <1>2, <1>3, <1>4 DEF IInv, TypeInv, OpInv, Op
<1>9. QED
  BY <1>5, <1>6, <1>7, <1>8 DEF IInv

LEMMA StatKeeps ==
  ASSUME IInv, NEW s \in Stores, Stat(s)
  PROVE  IInv'
<1>1. op[s].pc = "stat" /\ op[s] \in Op /\ cache[s].data \in Data
  BY DEF Stat, IInv, TypeInv
<1>2. UNCHANGED <<file, stamp, lock, cache, damage, wanted, mixed, spoiled>>
  BY DEF Stat
<1>3. CASE cache[s].stamp = stamp
  <2> DEFINE new == Loaded(s, cache[s].data)
  <2>1. op' = [op EXCEPT ![s] = new]
    BY <1>3 DEF Stat
  <2>2. /\ new \in Op
        /\ op[s].does = "load" => new = NoOp
        /\ op[s].does # "load" =>
              /\ new.pc = "write" /\ new.does = op[s].does
              /\ new.patch = op[s].patch /\ new.seen = op[s].seen
              /\ new.data = Patched(op[s].patch, cache[s].data)
    BY <1>1, LoadedFields DEF IInv
  <2> HIDE DEF new
  <2>3. TypeInv'
    BY <1>2, <2>1, <2>2 DEF IInv, TypeInv
  <2>4. StampInv'
    BY <1>2, <2>1, <2>2 DEF IInv, TypeInv, StampInv, NoOp
  <2>5. LockInv'
    BY <1>1, <1>2, <2>1, <2>2 DEF IInv, TypeInv, LockInv, NoOp
  <2>6. CacheInv' /\ UpdatesKept'
    BY <1>2 DEF IInv, CacheInv, UpdatesKept
  <2>7. OpInv'
    <3> SUFFICES ASSUME ~spoiled, NEW t \in Stores
                 PROVE  /\ op'[t].pc # "quarantine"
                        /\ op'[t].pc \in {"fill", "written"} /\ op'[t].seen = stamp
                             => op'[t].data = wanted
                        /\ op'[t].pc = "write" /\ op'[t].does = "update" /\ t \notin mixed =>
                             op'[t].data = Patched(op'[t].patch, wanted)
      BY <1>2 DEF OpInv
    <3>1. CASE t # s
      BY <2>1, <3>1 DEF IInv, TypeInv, OpInv
    <3>2. CASE t = s
      <4>1. s \notin mixed => cache[s].data = wanted
        BY <1>3 DEF IInv, CacheInv
      <4>2. op'[s] = new
        BY <2>1 DEF IInv, TypeInv
      <4>3. QED
        BY <2>2, <3>2, <4>1, <4>2 DEF NoOp
    <3>3. QED
      BY <3>1, <3>2
  <2>8. QED
    BY <2>3, <2>4, <2>5, <2>6, <2>7 DEF IInv
<1>4. CASE cache[s].stamp # stamp
  <2>1. op' = [op EXCEPT ![s].pc = "read"]
    BY <1>4 DEF Stat
  <2>2. TypeInv' /\ StampInv' /\ LockInv'
    BY <1>1, <1>2, <2>1 DEF IInv, TypeInv, StampInv, LockInv, Op
  <2>3. CacheInv' /\ OpInv' /\ UpdatesKept'
    BY <1>1, <1>2, <2>1 DEF IInv, TypeInv, CacheInv, OpInv, UpdatesKept, Op
  <2>4. QED
    BY <2>2, <2>3 DEF IInv
<1>5. QED
  BY <1>3, <1>4

LEMMA ReadKeeps ==
  ASSUME IInv, NEW s \in Stores, Read(s)
  PROVE  IInv'
<1> DEFINE got == IF file \in Data THEN file ELSE Defaults
<1>1. op[s].pc = "read" /\ op[s] \in Op /\ got \in Data
  BY DefaultsAre DEF Read, IInv, TypeInv
<1>2. UNCHANGED <<file, stamp, lock, cache, damage, wanted, mixed, spoiled>>
  BY DEF Read
<1>3. ~spoiled => got = wanted /\ file # Corrupt
  BY SettingsAssumption DEF IInv, UpdatesKept, TypeInv, Data
<1> DEFINE next == IF file = Corrupt THEN "quarantine" ELSE "fill"
<1>4. op' = [op EXCEPT ![s].pc = next, ![s].data = got, ![s].seen = stamp]
  BY DEF Read
<1>5. /\ op' = [op EXCEPT ![s] = op'[s]] /\ op'[s] \in Op
      /\ op'[s].pc = next /\ op'[s].does = op[s].does /\ op'[s].patch = op[s].patch
      /\ op'[s].data = got /\ op'[s].seen = stamp
  BY <1>1, <1>4 DEF IInv, TypeInv, Op
<1>6. op[s].does = "load" \/ (op[s].does = "update" /\ lock = s)
  BY <1>1 DEF IInv, LockInv
<1>7. next \in {"quarantine", "fill"} /\ (next = "quarantine" => file = Corrupt)
  OBVIOUS
<1> HIDE DEF next, got
<1>8. TypeInv' /\ StampInv' /\ LockInv'
  <2>1. TypeInv'
    BY <1>2, <1>5 DEF IInv, TypeInv
  <2>2. StampInv'
    BY <1>2, <1>5 DEF IInv, TypeInv, StampInv
  <2>3. LockInv'
    BY <1>2, <1>5, <1>6, <1>7 DEF IInv, TypeInv, LockInv
  <2>4. QED
    BY <2>1, <2>2, <2>3
<1>9. CacheInv' /\ UpdatesKept'
  BY <1>2 DEF IInv, CacheInv, UpdatesKept
<1>10. OpInv'
  BY <1>1, <1>2, <1>3, <1>5, <1>7 DEF IInv, TypeInv, OpInv
<1>11. QED
  BY <1>8, <1>9, <1>10 DEF IInv

\* A file is moved away only after it was damaged.
LEMMA QuarantineKeeps ==
  ASSUME IInv, NEW s \in Stores, Quarantine(s)
  PROVE  IInv'
<1>1. op[s].pc = "quarantine" /\ op[s] \in Op /\ spoiled
  BY DEF Quarantine, IInv, TypeInv, OpInv
<1>2. UNCHANGED <<lock, cache, wanted, mixed, spoiled>>
  BY DEF Quarantine
<1>3. (file' = file /\ stamp' = stamp) \/ (file' = Missing /\ stamp' = stamp + 1)
  BY DEF Quarantine
<1>4. stamp \in Nat /\ stamp' \in Nat \ {0} /\ stamp <= stamp'
  BY <1>3 DEF IInv, TypeInv
<1>5. /\ op' = [op EXCEPT ![s] = op'[s]] /\ op'[s] \in Op
      /\ op'[s].pc = "fill" /\ op'[s].does = op[s].does /\ op'[s].patch = op[s].patch
      /\ op'[s].data = op[s].data /\ op'[s].seen = stamp'
  BY <1>1, <1>4 DEF Quarantine, IInv, TypeInv, Op
<1>6. TypeInv'
  BY <1>2, <1>3, <1>4, <1>5 DEF IInv, TypeInv
<1>7. StampInv'
  <2>1. \A t \in Stores : cache[t].stamp \in Nat /\ op[t].seen \in Nat
    BY DEF IInv, TypeInv, Op
  <2>2. QED
    BY <1>2, <1>4, <1>5, <2>1 DEF IInv, TypeInv, StampInv
<1>8. LockInv'
  BY <1>1, <1>2, <1>5 DEF IInv, TypeInv, LockInv
<1>9. CacheInv' /\ UpdatesKept' /\ OpInv'
  BY <1>1, <1>2 DEF CacheInv, UpdatesKept, OpInv
<1>10. QED
  BY <1>6, <1>7, <1>8, <1>9 DEF IInv

LEMMA FillKeeps ==
  ASSUME IInv, NEW s \in Stores, Fill(s)
  PROVE  IInv'
<1>1. op[s].pc = "fill" /\ op[s] \in Op /\ op[s].data \in Data
  BY DEF Fill, IInv, TypeInv, Op
<1>2. UNCHANGED <<file, stamp, lock, damage, wanted, spoiled>>
  BY DEF Fill
<1> DEFINE new == Loaded(s, op[s].data)
<1>3. op' = [op EXCEPT ![s] = new]
  BY DEF Fill
<1>4. /\ new \in Op
      /\ op[s].does = "load" => new = NoOp
      /\ op[s].does # "load" =>
            /\ new.pc = "write" /\ new.does = op[s].does
            /\ new.patch = op[s].patch /\ new.seen = op[s].seen
            /\ new.data = Patched(op[s].patch, op[s].data)
  BY <1>1, LoadedFields DEF IInv
<1> HIDE DEF new
<1>5. cache' = [cache EXCEPT ![s] = [stamp |-> stamp, data |-> op[s].data]]
  BY DEF Fill
<1>6. mixed' = IF op[s].seen = stamp THEN mixed \ {s} ELSE mixed \cup {s}
  BY DEF Fill
<1>7. ~spoiled /\ s \notin mixed' => op[s].data = wanted
  BY <1>1, <1>6 DEF IInv, OpInv
<1>8. TypeInv' /\ StampInv'
  BY <1>1, <1>2, <1>3, <1>4, <1>5, <1>6 DEF IInv, TypeInv, StampInv, NoOp
<1>9. LockInv'
  BY <1>1, <1>2, <1>3, <1>4 DEF IInv, TypeInv, LockInv, NoOp
<1>10. CacheInv' /\ UpdatesKept'
  BY <1>2, <1>5, <1>6, <1>7 DEF IInv, TypeInv, CacheInv, UpdatesKept
<1>11. OpInv'
  <2> SUFFICES ASSUME ~spoiled, NEW t \in Stores
               PROVE  /\ op'[t].pc # "quarantine"
                      /\ op'[t].pc \in {"fill", "written"} /\ op'[t].seen = stamp
                           => op'[t].data = wanted
                      /\ op'[t].pc = "write" /\ op'[t].does = "update" /\ t \notin mixed' =>
                           op'[t].data = Patched(op'[t].patch, wanted)
    BY <1>2 DEF OpInv
  <2>1. CASE t # s
    BY <1>3, <1>6, <2>1 DEF IInv, TypeInv, OpInv
  <2>2. CASE t = s
    <3>1. op'[s] = new
      BY <1>3 DEF IInv, TypeInv
    <3>2. QED
      BY <1>4, <1>7, <2>2, <3>1 DEF NoOp
  <2>3. QED
    BY <2>1, <2>2
<1>12. QED
  BY <1>8, <1>9, <1>10, <1>11 DEF IInv

\* A write has the lock: no other store is about to write what it read before.
LEMMA WriteKeeps ==
  ASSUME IInv, NEW s \in Stores, Write(s)
  PROVE  IInv'
<1>1. /\ op[s].pc = "write" /\ op[s] \in Op /\ op[s].data \in Data
      /\ op[s].patch \in Patches
  BY DEF Write, IInv, TypeInv, Op
<1>2. lock = s /\ lock' = NoStore /\ op[s].does \in {"update", "reset"}
  BY <1>1 DEF Write, IInv, LockInv
<1>3. file' = op[s].data /\ stamp' = stamp + 1 /\ UNCHANGED <<cache, mixed>>
  BY DEF Write
<1>4. stamp \in Nat /\ stamp' \in Nat \ {0} /\ stamp < stamp'
  BY <1>3 DEF IInv, TypeInv
<1>5. wanted' = Patched(op[s].patch, wanted) /\ wanted' \in Data
  BY <1>1, PatchedIsData DEF Write, Patched, IInv, TypeInv
<1>6. spoiled' = (spoiled \/ (s \in mixed /\ op[s].does = "update"))
  BY DEF Write
<1>7. /\ op' = [op EXCEPT ![s] = op'[s]] /\ op'[s] \in Op
      /\ op'[s].pc = "written" /\ op'[s].does = op[s].does /\ op'[s].patch = op[s].patch
      /\ op'[s].data = op[s].data /\ op'[s].seen = stamp'
  BY <1>1, <1>4 DEF Write, IInv, TypeInv, Op
<1>8. ~spoiled' => op[s].data = wanted'
  <2>1. CASE op[s].does = "update"
    BY <1>1, <1>5, <1>6, <2>1 DEF IInv, OpInv
  <2>2. CASE op[s].does = "reset"
    <3>1. op[s].patch = Defaults /\ op[s].data = Defaults
      BY <1>1, <2>2 DEF IInv, LockInv
    <3>2. Patched(Defaults, wanted) = Defaults
      BY DEF Patched, Defaults
    <3>3. QED
      BY <1>5, <3>1, <3>2
  <2>3. QED
    BY <1>2, <2>1, <2>2
<1>9. \A t \in Stores : t # s => op'[t] = op[t] /\ op[t].pc # "write"
  BY <1>2, <1>7 DEF IInv, TypeInv, LockInv
<1>10. \A t \in Stores : /\ cache[t].stamp \in Nat /\ cache[t].stamp < stamp'
                         /\ op[t].seen \in Nat /\ op[t].seen < stamp'
  BY <1>4 DEF IInv, TypeInv, StampInv, Op
<1>11. TypeInv'
  BY <1>1, <1>2, <1>3, <1>4, <1>5, <1>6, <1>7 DEF IInv, TypeInv
<1>12. StampInv'
  BY <1>3, <1>4, <1>7, <1>9, <1>10 DEF StampInv
<1>13. LockInv'
  BY <1>2, <1>7, <1>9, SettingsAssumption DEF IInv, LockInv
<1>14. CacheInv' /\ UpdatesKept'
  BY <1>3, <1>4, <1>8, <1>10 DEF CacheInv, UpdatesKept
<1>15. OpInv'
  <2> SUFFICES ASSUME ~spoiled', NEW t \in Stores
               PROVE  /\ op'[t].pc # "quarantine"
                      /\ op'[t].pc \in {"fill", "written"} /\ op'[t].seen = stamp'
                           => op'[t].data = wanted'
                      /\ op'[t].pc = "write" /\ op'[t].does = "update" /\ t \notin mixed' =>
                           op'[t].data = Patched(op'[t].patch, wanted')
    BY DEF OpInv
  <2>1. CASE t # s
    <3>1. op'[t] = op[t] /\ op[t].pc # "write" /\ op[t].seen # stamp'
      BY <1>4, <1>9, <1>10, <2>1
    <3>2. QED
      BY <1>6, <3>1 DEF IInv, OpInv
  <2>2. CASE t = s
    BY <1>7, <1>8, <2>2
  <2>3. QED
    BY <2>1, <2>2
<1>16. QED
  BY <1>11, <1>12, <1>13, <1>14, <1>15 DEF IInv

LEMMA WrittenKeeps ==
  ASSUME IInv, NEW s \in Stores, Written(s)
  PROVE  IInv'
<1>1. op[s].pc = "written" /\ op[s] \in Op /\ op[s].data \in Data
  BY DEF Written, IInv, TypeInv, Op
<1>2. UNCHANGED <<file, stamp, lock, damage, wanted, spoiled>>
  BY DEF Written
<1>3. op' = [op EXCEPT ![s] = NoOp]
  BY DEF Written
<1>4. cache' = [cache EXCEPT ![s] = [stamp |-> stamp, data |-> op[s].data]]
  BY DEF Written
<1>5. mixed' = IF op[s].seen = stamp THEN mixed \ {s} ELSE mixed \cup {s}
  BY DEF Written
<1>6. ~spoiled /\ s \notin mixed' => op[s].data = wanted
  BY <1>1, <1>5 DEF IInv, OpInv
<1>7. TypeInv' /\ StampInv'
  BY <1>1, <1>2, <1>3, <1>4, <1>5, NoOpIsOp DEF IInv, TypeInv, StampInv, NoOp
<1>8. LockInv'
  BY <1>2, <1>3 DEF IInv, TypeInv, LockInv, NoOp
<1>9. CacheInv' /\ UpdatesKept'
  BY <1>2, <1>4, <1>5, <1>6 DEF IInv, TypeInv, CacheInv, UpdatesKept
<1>10. OpInv'
  BY <1>2, <1>3, <1>5 DEF IInv, TypeInv, OpInv, NoOp
<1>11. QED
  BY <1>7, <1>8, <1>9, <1>10 DEF IInv

LEMMA DamageKeeps ==
  ASSUME IInv, Damage
  PROVE  IInv'
<1>1. file' = Corrupt /\ stamp' = stamp + 1 /\ spoiled'
  BY DEF Damage
<1>2. UNCHANGED <<lock, cache, op, wanted, mixed>>
  BY DEF Damage
<1>3. stamp \in Nat /\ stamp' \in Nat \ {0}
  BY <1>1 DEF IInv, TypeInv
<1>4. TypeInv'
  BY <1>1, <1>2, <1>3 DEF Damage, IInv, TypeInv
<1>5. StampInv'
  <2>1. \A t \in Stores : cache[t].stamp \in Nat /\ op[t].seen \in Nat
    BY DEF IInv, TypeInv, Op
  <2>2. QED
    BY <1>1, <1>2, <1>3, <2>1 DEF IInv, StampInv
<1>6. LockInv' /\ CacheInv' /\ OpInv' /\ UpdatesKept'
  BY <1>1, <1>2 DEF IInv, LockInv, CacheInv, OpInv, UpdatesKept
<1>7. QED
  BY <1>4, <1>5, <1>6 DEF IInv

--------------------------------------------------------------------------------
LEMMA StoreStepKeeps ==
  ASSUME IInv, NEW s \in Stores, StoreStep(s)
  PROVE  IInv'
<1>1. CASE Load(s)
  BY <1>1, BeginKeeps, DefaultsAre DEF Load
<1>2. CASE ResetAll(s)
  BY <1>2, BeginKeeps, DefaultsAre DEF ResetAll
<1>3. ASSUME NEW k \in Keys, NEW v \in Values, Update(s, k, v) PROVE IInv'
  BY <1>3, BeginKeeps, OnePatch DEF Update
<1>4. CASE LockFile(s)
  BY <1>4, LockFileKeeps
<1>5. CASE Stat(s)
  BY <1>5, StatKeeps
<1>6. CASE Read(s)
  BY <1>6, ReadKeeps
<1>7. CASE Quarantine(s)
  BY <1>7, QuarantineKeeps
<1>8. CASE Fill(s)
  BY <1>8, FillKeeps
<1>9. CASE Write(s)
  BY <1>9, WriteKeeps
<1>10. CASE Written(s)
  BY <1>10, WrittenKeeps
<1>11. QED
  BY <1>1, <1>2, <1>3, <1>4, <1>5, <1>6, <1>7, <1>8, <1>9, <1>10 DEF StoreStep

LEMMA StutterKeeps == IInv /\ UNCHANGED settingsVars => IInv'
BY DEF settingsVars, IInv, TypeInv, StampInv, LockInv, CacheInv, OpInv, UpdatesKept

(* update() loses no other store's setting: the file holds of every setting what was set  *)
(* last, whichever stores read and write it in whatever order, unless a cache stamped     *)
(* after another store's write was used for an update, or something else damaged the file *)
(* (aicoder/settings.py).                                                                 *)
THEOREM SettingsKept == SettingsSpec => []UpdatesKept
<1>1. SettingsInit => IInv
  BY InitInv
<1>2. IInv /\ [SettingsNext]_settingsVars => IInv'
  BY StoreStepKeeps, DamageKeeps, StutterKeeps DEF SettingsNext
<1>3. IInv => UpdatesKept
  BY DEF IInv
<1>4. QED
  BY <1>1, <1>2, <1>3, PTL DEF SettingsSpec

\* Stores, caches and the lock hold what they may, and no stamp is of a later file.
THEOREM SettingsTypes == SettingsSpec => []SettingsTypeOK
<1>1. SettingsInit => IInv
  BY InitInv
<1>2. IInv /\ [SettingsNext]_settingsVars => IInv'
  BY StoreStepKeeps, DamageKeeps, StutterKeeps DEF SettingsNext
<1>3. IInv => SettingsTypeOK
  BY DEF IInv, TypeInv, StampInv, SettingsTypeOK, Op
<1>4. QED
  BY <1>1, <1>2, <1>3, PTL DEF SettingsSpec

--------------------------------------------------------------------------------
(* The settings tab.                                                          *)

\* A list with a text field whose item is another than its text counts as slipped.
WindowInv ==
  /\ saved \in [WindowKeys -> BOOLEAN] /\ shows \in [WindowKeys -> BOOLEAN]
  /\ item \in [Editable -> BOOLEAN \cup {NoItem}]
  /\ slipped \subseteq Editable
  /\ \A k \in Editable : item[k] \notin {NoItem, shows[k]} => k \in slipped
  /\ ControlsFollow

LEMMA HoldsTyped ==
  ASSUME WindowInv, NEW k \in WindowKeys
  PROVE  Holds(k) \in BOOLEAN
BY DEF WindowInv, Holds

\* What an action has to keep of the settings' values; the rest of the invariant is what
\* Slips records.
LEMMA WindowValues ==
  ASSUME WindowInv, NEW E, Slips(E),
         saved' \in [WindowKeys -> BOOLEAN], shows' \in [WindowKeys -> BOOLEAN],
         item' \in [Editable -> BOOLEAN \cup {NoItem}], ControlsFollow'
  PROVE  WindowInv'
BY DEF WindowInv, Slips

\* A setting that was excused stays so, unless the step shows what the file holds.
LEMMA StaysExcused ==
  ASSUME WindowInv, NEW E, Slips(E), NEW k \in WindowKeys, shows'[k] # saved'[k],
         \/ shows[k] # saved[k] /\ (k \in entered \cup unseen => k \in entered' \cup unseen')
         \/ k \in entered' \cup unseen'
         \/ k \in Editable /\ (k \in E \/ item'[k] \notin {NoItem, shows'[k]} \/ k \in slipped)
  PROVE  k \in entered' \cup unseen' \cup slipped'
<1>1. slipped \subseteq Editable
  BY DEF WindowInv
<1>2. k \in Editable /\ (k \in slipped \cup E \/ item'[k] \notin {NoItem, shows'[k]}) => k \in slipped'
  BY DEF Slips
<1>3. shows[k] # saved[k] => k \in entered \cup unseen \cup slipped
  BY DEF WindowInv, ControlsFollow
<1>4. QED
  BY <1>1, <1>2, <1>3 DEF WindowInv

LEMMA WindowStepKeeps ==
  ASSUME WindowInv, WindowNext
  PROVE  WindowInv'
<1> USE WindowAssumption DEF WindowKeys
<1>1. ASSUME NEW k \in WindowKeys, EnterSetting(k) PROVE WindowInv'
  <2>1. Slips({})
    BY <1>1 DEF EnterSetting
  <2>2. /\ shows' = [shows EXCEPT ![k] = ~@] /\ saved' = saved /\ unseen' = unseen
        /\ entered' = entered \cup {k}
        /\ item' = item \/ item' = [item EXCEPT ![k] = shows'[k]]
    BY <1>1 DEF EnterSetting
  <2>3. shows' \in [WindowKeys -> BOOLEAN]
    BY <2>2 DEF WindowInv
  <2>4. ControlsFollow'
    BY <2>1, <2>2, StaysExcused DEF WindowInv, ControlsFollow
  <2>5. item' \in [Editable -> BOOLEAN \cup {NoItem}]
    BY <2>2, <2>3 DEF WindowInv
  <2>6. saved' \in [WindowKeys -> BOOLEAN]
    BY <2>2 DEF WindowInv
  <2>7. QED
    BY <2>1, <2>3, <2>4, <2>5, <2>6, WindowValues
<1>2. ASSUME NEW k \in Editable, LeaveField(k) PROVE WindowInv'
  <2>1. Slips({}) /\ saved' = saved /\ shows' = shows
    BY <1>2 DEF LeaveField
  <2>2. entered' = entered /\ unseen' = unseen /\ item' = [item EXCEPT ![k] = shows[k]]
    BY <1>2 DEF LeaveField
  <2>3. ControlsFollow'
    BY <2>1, <2>2, StaysExcused DEF WindowInv, ControlsFollow
  <2>4. /\ saved' \in [WindowKeys -> BOOLEAN] /\ shows' \in [WindowKeys -> BOOLEAN]
        /\ item' \in [Editable -> BOOLEAN \cup {NoItem}]
    BY <2>1, <2>2 DEF WindowInv
  <2>5. QED
    BY <2>1, <2>3, <2>4, WindowValues
<1>3. CASE ModelsLoaded
  <2>1. PICK listed \in SUBSET Editable :
          item' = [k \in Editable |-> IF k \in listed THEN Holds(k) ELSE NoItem]
    BY <1>3 DEF ModelsLoaded
  <2>2. /\ Slips({}) /\ saved' = saved /\ entered' = entered /\ unseen' = unseen
        /\ shows' = [k \in WindowKeys |-> Holds(k)]
    BY <1>3 DEF ModelsLoaded
  <2>3. ASSUME NEW k \in WindowKeys, shows'[k] # saved'[k]
        PROVE  k \in entered' \cup unseen' \cup slipped'
    <3>1. CASE Holds(k) = shows[k]
      BY <2>2, <2>3, <3>1, StaysExcused
    <3>2. CASE Holds(k) # shows[k]
      <4>1. k \in Editable /\ item[k] \notin {NoItem, shows[k]}
        BY <3>2 DEF Holds
      <4>2. QED
        BY <2>2, <2>3, <4>1, StaysExcused DEF WindowInv
    <3>3. QED
      BY <3>1, <3>2
  <2>4. shows' \in [WindowKeys -> BOOLEAN] /\ saved' \in [WindowKeys -> BOOLEAN]
    BY <2>2, HoldsTyped DEF WindowInv
  <2>5. item' \in [Editable -> BOOLEAN \cup {NoItem}]
    BY <2>1, HoldsTyped
  <2>6. ControlsFollow'
    BY <2>3 DEF ControlsFollow
  <2>7. QED
    BY <2>2, <2>4, <2>5, <2>6, WindowValues
<1>4. CASE EmptyLists
  <2>1. /\ Slips(Editable) /\ saved' = saved /\ entered' = entered /\ unseen' = unseen
        /\ shows' = [k \in WindowKeys |-> k \notin Editable /\ shows[k]]
        /\ item' = [k \in Editable |-> NoItem]
    BY <1>4 DEF EmptyLists
  <2>2. ASSUME NEW k \in WindowKeys \ Editable PROVE shows'[k] = shows[k]
    BY <2>1 DEF WindowInv
  <2>3. ControlsFollow'
    BY <2>1, <2>2, StaysExcused DEF WindowInv, ControlsFollow
  <2>4. /\ saved' \in [WindowKeys -> BOOLEAN] /\ shows' \in [WindowKeys -> BOOLEAN]
        /\ item' \in [Editable -> BOOLEAN \cup {NoItem}]
    BY <2>1 DEF WindowInv
  <2>5. QED
    BY <2>1, <2>3, <2>4, WindowValues
<1>5. ASSUME NEW k \in AtOnce, NEW takes \in BOOLEAN, SaveAtOnce(k, takes) PROVE WindowInv'
  <2>1. PICK chosen \in BOOLEAN : shows' = [shows EXCEPT ![k] = chosen]
    BY <1>5 DEF SaveAtOnce
  <2>2. /\ Slips({}) /\ saved' = saved /\ unseen' = unseen /\ entered' = entered \cup {k}
        /\ item' = item
    BY <1>5 DEF SaveAtOnce
  <2>3. ControlsFollow'
    BY <2>1, <2>2, StaysExcused DEF WindowInv, ControlsFollow
  <2>4. /\ saved' \in [WindowKeys -> BOOLEAN] /\ shows' \in [WindowKeys -> BOOLEAN]
        /\ item' \in [Editable -> BOOLEAN \cup {NoItem}]
    BY <2>1, <2>2 DEF WindowInv
  <2>5. QED
    BY <2>2, <2>3, <2>4, WindowValues
<1>6. ASSUME NEW keys, PressSave(keys) PROVE WindowInv'
  BY <1>6 DEF WindowInv, ControlsFollow, PressSave
<1>7. CASE WritePart
  <2>1. PICK part \in Part(saving.left) :
          /\ saved' = [k \in WindowKeys |-> IF k \notin part THEN saved[k]
                                       ELSE IF saving.picked THEN shows[k] ELSE Holds(k)]
          /\ entered' = entered \ part /\ unseen' = unseen \ part
    BY <1>7 DEF WritePart
  <2>2. Slips({}) /\ shows' = shows /\ item' = item
    BY <1>7 DEF WritePart
  <2>3. ASSUME NEW k \in WindowKeys, shows'[k] # saved'[k]
        PROVE  k \in entered' \cup unseen' \cup slipped'
    <3>1. CASE k \notin part
      BY <2>1, <2>2, <2>3, <3>1, StaysExcused
    <3>2. CASE k \in part
      <4>1. Holds(k) # shows[k]
        BY <2>1, <2>2, <2>3, <3>2
      <4>2. k \in Editable /\ item[k] \notin {NoItem, shows[k]}
        BY <4>1 DEF Holds
      <4>3. QED
        BY <2>2, <2>3, <4>2, StaysExcused
    <3>3. QED
      BY <3>1, <3>2
  <2>4. saved' \in [WindowKeys -> BOOLEAN]
    BY <2>1, HoldsTyped DEF WindowInv
  <2>5. /\ shows' \in [WindowKeys -> BOOLEAN]
        /\ item' \in [Editable -> BOOLEAN \cup {NoItem}]
    BY <2>2 DEF WindowInv
  <2>6. ControlsFollow'
    BY <2>3 DEF ControlsFollow
  <2>7. QED
    BY <2>2, <2>4, <2>5, <2>6, WindowValues
<1>8. CASE PartFails \/ TakeState
  BY <1>8 DEF WindowInv, ControlsFollow, PartFails, TakeState
<1>9. CASE PollFile
  <2>1. Slips({}) /\ saved' = saved /\ item' = item
    BY <1>9 DEF PollFile
  <2>2. \/ shows' = shows /\ entered' = entered /\ unseen' = unseen
        \/ shows' = saved
    BY <1>9 DEF PollFile
  <2>3. ControlsFollow'
    BY <2>1, <2>2, StaysExcused DEF WindowInv, ControlsFollow
  <2>4. /\ saved' \in [WindowKeys -> BOOLEAN] /\ shows' \in [WindowKeys -> BOOLEAN]
        /\ item' \in [Editable -> BOOLEAN \cup {NoItem}]
    BY <2>1, <2>2 DEF WindowInv
  <2>5. QED
    BY <2>1, <2>3, <2>4, WindowValues
<1>10. ASSUME NEW k \in WindowKeys, ChangeOutside(k) PROVE WindowInv'
  <2>1. /\ Slips({}) /\ shows' = shows /\ item' = item /\ entered' = entered
        /\ saved' = [saved EXCEPT ![k] = ~@] /\ unseen' = unseen \cup {k}
    BY <1>10 DEF ChangeOutside
  <2>2. ControlsFollow'
    BY <2>1, StaysExcused DEF WindowInv, ControlsFollow
  <2>3. /\ saved' \in [WindowKeys -> BOOLEAN] /\ shows' \in [WindowKeys -> BOOLEAN]
        /\ item' \in [Editable -> BOOLEAN \cup {NoItem}]
    BY <2>1 DEF WindowInv
  <2>4. QED
    BY <2>1, <2>2, <2>3, WindowValues
<1>11. QED
  BY <1>1, <1>2, <1>3, <1>4, <1>5, <1>6, <1>7, <1>8, <1>9, <1>10 DEF WindowNext

(* Whatever the user enters, saves in part or at once, and whatever other processes write *)
(* meanwhile: a control that differs from the file holds an entry that is not saved, its  *)
(* setting was changed outside since the controls were last filled, or it is a list with  *)
(* a text field whose text and item came apart (aicoder/gui/settings_widget.py).          *)
THEOREM WindowFollows == WindowSpec => []ControlsFollow
<1>1. WindowInit => WindowInv
  BY DEF WindowInit, WindowInv, ControlsFollow
<1>2. WindowInv /\ [WindowNext]_windowVars => WindowInv'
  <2>1. WindowInv /\ UNCHANGED windowVars => WindowInv'
    BY DEF WindowInv, ControlsFollow, windowVars
  <2>2. QED
    BY <2>1, WindowStepKeeps
<1>3. WindowInv => ControlsFollow
  BY DEF WindowInv
<1>4. QED
  BY <1>1, <1>2, <1>3, PTL DEF WindowSpec

--------------------------------------------------------------------------------
(* The chat page.  What the page shows of its workers follows signals that    *)
(* are handled later.  The invariant says of every question that it is still  *)
(* worked on, or that the signals which answer and end it are posted and of   *)
(* its chat.                                                                  *)

Messages == [kind : {"user", "assistant", "error", "note", "evidence"}, of : Nat]
Signals == [kind : {"note", "context", "answer", "error", "finished", "command", "voiceError", "spoken"},
            of : Nat, with : SUBSET Messages]
Reports == {"note", "context", "answer", "error"}
InQueue(p) == {p[i] : i \in DOMAIN p}
Pending(kind) == \E s \in InQueue(posted) : s.kind = kind

\* The types the proofs need; a worker is one of a question.
PageTyped ==
  /\ askedIn \in Seq(Chats)
  /\ runner \in [runs : BOOLEAN, ended : BOOLEAN, team : BOOLEAN, noted : BOOLEAN, with : SUBSET Messages]
  /\ posted \in Seq(Signals)
  /\ rows \in [Chats -> SUBSET Messages] /\ evidence \in [Chats -> SUBSET Nat]
  /\ selected \in Chats \cup {NoChat} /\ context \in SUBSET Messages
  /\ buttons \in {Idle, Busy}
  /\ voice \in [listens : BOOLEAN, speaking : Nat, resume : BOOLEAN]
  /\ runner.runs => Question > 0

\* A page that shows work, or waits to listen again, has the signal still to handle that
\* ends it.
EndsArePosted ==
  /\ ~runner.runs /\ buttons # Idle => Pending("finished")
  /\ voice.speaking = 0 /\ voice.resume => Pending("spoken")

SettleInv == PageTyped /\ EndsArePosted

--------------------------------------------------------------------------------
\* What is posted later does not disturb what was posted.
LEMMA QueueLater ==
  ASSUME NEW p \in Seq(Signals), NEW w \in Seq(Signals)
  PROVE  p \o w \in Seq(Signals) /\ InQueue(p \o w) = InQueue(p) \cup InQueue(w)
<1>1. /\ p \o w \in Seq(Signals) /\ Len(p \o w) = Len(p) + Len(w)
      /\ \A i \in 1..Len(p) + Len(w) : (p \o w)[i] = IF i <= Len(p) THEN p[i] ELSE w[i - Len(p)]
  OBVIOUS
<1>2. ASSUME NEW i \in 1..Len(p) PROVE p[i] \in InQueue(p \o w)
  <2>1. i \in 1..Len(p) + Len(w) /\ (p \o w)[i] = p[i]
    BY <1>1
  <2> QED
    BY <1>1, <2>1 DEF InQueue
<1>3. ASSUME NEW i \in 1..Len(w) PROVE w[i] \in InQueue(p \o w)
  <2> DEFINE j == i + Len(p)
  <2>1. j \in 1..Len(p) + Len(w) /\ (p \o w)[j] = w[i]
    BY <1>1
  <2>2. j \in DOMAIN (p \o w)
    BY <1>1, <2>1
  <2> HIDE DEF j
  <2> QED
    BY <2>1, <2>2 DEF InQueue
<1>4. ASSUME NEW i \in 1..Len(p) + Len(w) PROVE (p \o w)[i] \in InQueue(p) \cup InQueue(w)
  BY <1>1 DEF InQueue
<1>5. DOMAIN p = 1..Len(p) /\ DOMAIN w = 1..Len(w) /\ DOMAIN (p \o w) = 1..Len(p) + Len(w)
  BY <1>1
<1>6. InQueue(p \o w) \subseteq InQueue(p) \cup InQueue(w)
  BY <1>4, <1>5 DEF InQueue
<1>7. InQueue(p) \subseteq InQueue(p \o w) /\ InQueue(w) \subseteq InQueue(p \o w)
  BY <1>2, <1>3, <1>5 DEF InQueue
<1> QED
  BY <1>1, <1>6, <1>7

\* The first signal is taken out.
LEMMA QueueTail ==
  ASSUME NEW p \in Seq(Signals), p # <<>>
  PROVE  Tail(p) \in Seq(Signals) /\ InQueue(p) = {Head(p)} \cup InQueue(Tail(p)) /\ Head(p) \in Signals
<1>1. /\ Tail(p) \in Seq(Signals) /\ Len(Tail(p)) = Len(p) - 1 /\ Head(p) = p[1] /\ Len(p) > 0
      /\ \A i \in 1..Len(p) - 1 : Tail(p)[i] = p[i + 1]
  OBVIOUS
<1>2. ASSUME NEW i \in 1..Len(p) PROVE p[i] \in {Head(p)} \cup InQueue(Tail(p))
  <2>1. CASE i = 1
    BY <1>1, <2>1
  <2>2. CASE i # 1
    <3> DEFINE j == i - 1
    <3>1. j \in 1..Len(p) - 1 /\ Tail(p)[j] = p[i]
      BY <1>1, <2>2
    <3>2. j \in DOMAIN Tail(p)
      BY <1>1, <3>1
    <3> HIDE DEF j
    <3> QED
      BY <3>1, <3>2 DEF InQueue
  <2> QED
    BY <2>1, <2>2
<1>3. ASSUME NEW i \in 1..Len(p) - 1 PROVE Tail(p)[i] \in InQueue(p)
  BY <1>1 DEF InQueue
<1>4. Head(p) \in InQueue(p) /\ Head(p) \in Signals
  BY <1>1 DEF InQueue
<1> QED
  BY <1>1, <1>2, <1>3, <1>4 DEF InQueue

\* One signal.
LEMMA QueueOne ==
  ASSUME NEW s \in Signals
  PROVE  <<s>> \in Seq(Signals) /\ InQueue(<<s>>) = {s} /\ <<>> \in Seq(Signals) /\ InQueue(<<>>) = {}
BY DEF InQueue

\* Two signals, and none, in the queue.
LEMMA QueueTwo ==
  ASSUME NEW s \in Signals, NEW t \in Signals
  PROVE  <<s, t>> \in Seq(Signals) /\ InQueue(<<s, t>>) = {s, t}
<1>1. DOMAIN <<s, t>> = 1..2 /\ 1..2 = {1, 2}
  OBVIOUS
<1> QED
  BY <1>1 DEF InQueue

\* What the voice control may add.
LEMMA CommandTyped == Command \in Seq(Signals) /\ InQueue(Command) = {Signal("command", 0, {})}
<1>1. Signal("command", 0, {}) \in Signals
  BY DEF Signal, Signals
<1> QED
  BY <1>1, QueueOne DEF Command

\* Stopping the listener adds at most a command.
LEMMA StopAdds ==
  ASSUME NEW p \in Seq(Signals), StopsListening(p)
  PROVE  \E w \in {<<>>, Command} : posted' = p \o w
BY DEF StopsListening


\* Two signals posted after each other.
LEMMA JoinTwo == ASSUME NEW x \in Signals, NEW y \in Signals PROVE <<x>> \o <<y>> = <<x, y>>
<1>1. DOMAIN (<<x>> \o <<y>>) = 1..2 /\ DOMAIN <<x, y>> = 1..2
  OBVIOUS
<1>2. <<x>> \o <<y>> = [i \in 1..2 |-> (<<x>> \o <<y>>)[i]]
  BY <1>1
<1>3. <<x, y>> = [i \in 1..2 |-> <<x, y>>[i]]
  BY <1>1
<1>4. \A i \in 1..2 : i = 1 \/ i = 2
  OBVIOUS
<1>5. \A i \in 1..2 : (<<x>> \o <<y>>)[i] = <<x, y>>[i]
  BY <1>4
<1> QED
  BY <1>2, <1>3, <1>5

\* Nothing posted leaves the queue as it is.
LEMMA QueueEmpty == ASSUME NEW p \in Seq(Signals) PROVE p \o <<>> = p
OBVIOUS

\* The page takes one signal, and a command may be heard meanwhile.
LEMMA WindowTakes ==
  ASSUME PageTyped, WindowActs
  PROVE  posted # <<>> /\ \E w \in {<<>>, Command} : posted' = Tail(posted) \o w
<1>1. ASSUME posted # <<>> PROVE Tail(posted) \in Seq(Signals)
  BY <1>1, QueueTail DEF PageTyped
<1>2. ASSUME posted # <<>>, StopsListening(Tail(posted))
      PROVE  \E w \in {<<>>, Command} : posted' = Tail(posted) \o w
  BY <1>1, <1>2, StopAdds
<1>3. ASSUME posted # <<>>, posted' = Tail(posted)
      PROVE  \E w \in {<<>>, Command} : posted' = Tail(posted) \o w
  BY <1>1, <1>3, QueueEmpty
<1>4. CASE OnNote \/ OnMessagesUpdated \/ OnError \/ OnFinished \/ OnVoiceCommand \/ OnSpoken
  BY <1>3, <1>4 DEF OnNote, OnMessagesUpdated, OnError, OnFinished, OnVoiceCommand, OnSpoken,
                    Handles, IsFirst
<1>5. CASE OnResponse
  BY <1>2, <1>3, <1>5 DEF OnResponse, IsFirst, Speaks
<1>6. CASE OnVoiceError
  BY <1>2, <1>6 DEF OnVoiceError, IsFirst
<1> QED
  BY <1>4, <1>5, <1>6 DEF WindowActs

\* What the worker's thread reports at its end.
LEMMA EndsTyped ==
  ASSUME PageTyped
  PROVE  /\ WorkerAnswers = <<Signal("context", Question, runner.with \cup {ChatMessage("assistant", Question)}),
                              Signal("answer", Question, {})>>
         /\ Signal("context", Question, runner.with \cup {ChatMessage("assistant", Question)}) \in Signals
         /\ Signal("answer", Question, {}) \in Signals /\ Signal("error", Question, {}) \in Signals
         /\ Signal("context", Question, runner.with) \in Signals
         /\ SharedEnds = {WorkerAnswers, <<Signal("context", Question, runner.with),
                                           Signal("error", Question, {})>>}
<1>1. Question \in Nat /\ runner.with \in SUBSET Messages
  BY DEF PageTyped, Question
<1>2. ChatMessage("assistant", Question) \in Messages
  BY <1>1 DEF ChatMessage, Messages
<1>3. ASSUME NEW x \in Signals, NEW y \in Signals PROVE <<x>> \o <<y>> = <<x, y>>
  BY <1>3, JoinTwo
<1>4. Signal("context", Question, runner.with) \in Signals /\ Signal("error", Question, {}) \in Signals
  BY <1>1 DEF Signal, Signals
<1>5. SharedEnds = {WorkerAnswers, <<Signal("context", Question, runner.with),
                                     Signal("error", Question, {})>>}
  BY <1>3, <1>4 DEF SharedEnds, WorkerFails
<1> QED
  BY <1>1, <1>2, <1>4, <1>5 DEF Signal, Signals, WorkerAnswers

\* A worker's end posts its answer or its error, once.
LEMMA WorkerEndsAs ==
  ASSUME PageTyped, WorkerEnds
  PROVE  \E w \in Seq(Signals) :
           /\ posted' = posted \o w
           /\ \/ w = <<Signal("error", Question, {})>>
              \/ w = <<Signal("context", Question, runner.with), Signal("error", Question, {})>>
              \/ w = WorkerAnswers
<1>1. PICK w \in SharedEnds \cup TeamEnds \cup {WorkerFails} : posted' = posted \o w
  BY DEF WorkerEnds, Posts
<1>2. \/ w = <<Signal("error", Question, {})>>
      \/ w = <<Signal("context", Question, runner.with), Signal("error", Question, {})>>
      \/ w = WorkerAnswers
  BY EndsTyped DEF TeamEnds, WorkerFails
<1>3. w \in Seq(Signals)
  <2>1. WorkerAnswers \in Seq(Signals)
    BY EndsTyped, QueueTwo
  <2>2. Signal("error", Question, {}) \in Signals /\ Signal("context", Question, runner.with) \in Signals
    BY EndsTyped
  <2>3. <<Signal("error", Question, {})>> \in Seq(Signals)
    BY <2>2, QueueOne
  <2>4. <<Signal("context", Question, runner.with), Signal("error", Question, {})>> \in Seq(Signals)
    BY <2>2, QueueTwo
  <2> QED
    BY <1>2, <2>1, <2>3, <2>4
<1> QED
  BY <1>1, <1>2, <1>3

\* The user, the voice and the end of a thread post nothing that reports of a question.
LEMMA QuietPosts ==
  ASSUME PageTyped, PageUserActs \/ Hears \/ ListenerEnds \/ SpeechEnds \/ ThreadFinishes
  PROVE  \E w \in Seq(Signals) :
           posted' = posted \o w /\ \A s \in InQueue(w) : s.kind \notin Reports
<1> DEFINE Adds(w) == posted' = posted \o w /\ \A s \in InQueue(w) : s.kind \notin Reports
<1>1. posted \in Seq(Signals) /\ Question \in Nat
  BY DEF PageTyped, Question
<1>2. ASSUME posted' = posted PROVE \E w \in Seq(Signals) : Adds(w)
  <2>1. <<>> \in Seq(Signals) /\ posted' = posted \o <<>> /\ InQueue(<<>>) = {}
    BY <1>1, <1>2, QueueOne DEF InQueue
  <2> QED
    BY <2>1
<1>3. ASSUME NEW s \in Signals, posted' = posted \o <<s>>, s.kind \notin Reports
      PROVE  \E w \in Seq(Signals) : Adds(w)
  <2>1. <<s>> \in Seq(Signals) /\ InQueue(<<s>>) = {s}
    BY QueueOne
  <2> QED
    BY <1>3, <2>1
<1>4. ASSUME posted' = posted \o Command PROVE \E w \in Seq(Signals) : Adds(w)
  <2>1. \A s \in InQueue(Command) : s.kind \notin Reports
    BY CommandTyped DEF Signal, Reports
  <2> QED
    BY <1>4, <2>1, CommandTyped
<1>5. CASE ThreadFinishes
  <2>1. Signal("finished", Question, {}) \in Signals /\ Signal("finished", Question, {}).kind \notin Reports
    BY <1>1 DEF Signal, Signals, Reports
  <2>2. posted' = posted \o <<Signal("finished", Question, {})>>
    BY <1>5 DEF ThreadFinishes, Posts
  <2> QED
    BY <1>3, <2>1, <2>2
<1>6. CASE Hears
  BY <1>4, <1>6 DEF Hears, Posts
<1>7. CASE SpeechEnds
  <2>1. Signal("spoken", 0, {}) \in Signals /\ Signal("spoken", 0, {}).kind \notin Reports
    BY DEF Signal, Signals, Reports
  <2>2. posted' = posted \o <<Signal("spoken", 0, {})>>
    BY <1>7 DEF SpeechEnds, Posts
  <2> QED
    BY <1>3, <2>1, <2>2
<1>8. CASE ListenerEnds
  <2>1. Signal("voiceError", 0, {}) \in Signals /\ Signal("voiceError", 0, {}).kind \notin Reports
    BY DEF Signal, Signals, Reports
  <2>2. posted' = posted \o <<>> \/ posted' = posted \o <<Signal("voiceError", 0, {})>>
    BY <1>8 DEF ListenerEnds, Posts
  <2>3. posted \o <<>> = posted
    BY <1>1, QueueEmpty
  <2> QED
    BY <1>2, <1>3, <2>1, <2>2, <2>3
<1>9. CASE ToggleVoice
  <2>1. posted' = posted \/ StopsListening(posted)
    BY <1>9 DEF ToggleVoice
  <2>2. posted' = posted \/ posted' = posted \o Command
    BY <1>1, <2>1, StopAdds, QueueEmpty
  <2> QED
    BY <1>2, <1>4, <2>2
<1>10. CASE UserSends \/ ClearChat \/ NewChat \/ \E c \in Chats : LoadChat(c)
  BY <1>2, <1>10 DEF UserSends, ClearChat, NewChat, LoadChat
<1> QED
  BY <1>5, <1>6, <1>7, <1>8, <1>9, <1>10 DEF PageUserActs

\* Who does not take the first signal only posts.
LEMMA OthersPost ==
  ASSUME PageTyped, WorkerActs \/ PageUserActs \/ Hears \/ ListenerEnds \/ SpeechEnds
  PROVE  \E w \in Seq(Signals) : posted' = posted \o w
<1>1. CASE SharedReports \/ TeamReports
  <2>1. Signal("note", Question, {}) \in Signals
    BY DEF Signal, Signals, PageTyped, Question
  <2>2. posted' = posted \o <<Signal("note", Question, {})>>
    BY <1>1 DEF SharedReports, TeamReports, Posts
  <2> QED
    BY <2>1, <2>2, QueueOne
<1>2. CASE WorkerEnds
  BY <1>2, WorkerEndsAs
<1> QED
  BY <1>1, <1>2, QuietPosts DEF WorkerActs

\* A question goes: what the window and the worker have then.
LEMMA QuestionTyped ==
  ASSUME PageTyped, QuestionGoes
  PROVE  /\ askedIn' \in Seq(Chats) /\ Question' > 0
         /\ runner' \in [runs : BOOLEAN, ended : BOOLEAN, team : BOOLEAN, noted : BOOLEAN, with : SUBSET Messages]
         /\ rows' \in [Chats -> SUBSET Messages] /\ selected' \in Chats
         /\ context' \in SUBSET Messages /\ buttons' \in {Idle, Busy}
<1>1. PICK c \in (IF selected = NoChat THEN NewChats ELSE {selected}), team \in BOOLEAN :
        LET n == Question + 1
            messages == context \cup {ChatMessage("user", n)}
        IN /\ askedIn' = Append(askedIn, c) /\ selected' = c /\ context' = messages
           /\ rows' = [rows EXCEPT ![c] = @ \cup {ChatMessage("user", n)}]
           /\ runner' = [runs |-> TRUE, ended |-> FALSE, team |-> team, noted |-> FALSE,
                         with |-> messages \cup (IF team THEN {} ELSE Evidence(c, n))]
  BY DEF QuestionGoes
<1> DEFINE n == Question + 1
           said == ChatMessage("user", n)
<1>2. n \in Nat /\ Question \in Nat /\ c \in Chats
  BY DEF PageTyped, Question, NewChats
<1>3. said \in Messages /\ Evidence(c, n) \in SUBSET Messages
  BY <1>2 DEF ChatMessage, Messages, Evidence
<1>4. askedIn' \in Seq(Chats) /\ Len(askedIn') = n
  BY <1>1, <1>2 DEF PageTyped, Question
<1>5. buttons' \in {Idle, Busy}
  BY DEF QuestionGoes
<1>6. context' = context \cup {said} /\ rows' = [rows EXCEPT ![c] = rows[c] \cup {said}]
  BY <1>1, <1>2 DEF PageTyped
<1> HIDE DEF said
<1>7. context' \in SUBSET Messages /\ rows' \in [Chats -> SUBSET Messages]
  BY <1>2, <1>3, <1>6 DEF PageTyped
<1>8. runner' \in [runs : BOOLEAN, ended : BOOLEAN, team : BOOLEAN, noted : BOOLEAN, with : SUBSET Messages]
  BY <1>1, <1>3, <1>7
<1> QED
  BY <1>1, <1>2, <1>4, <1>5, <1>7, <1>8 DEF Question

\* Every step keeps the types.
LEMMA PageTypedKept ==
  ASSUME PageTyped, [DesktopNext]_desktopVars
  PROVE  PageTyped'
<1>1. posted' \in Seq(Signals)
  <2>1. CASE WindowActs
    <3>1. PICK w \in {<<>>, Command} : posted # <<>> /\ posted' = Tail(posted) \o w
      BY <2>1, WindowTakes
    <3>2. Tail(posted) \in Seq(Signals)
      BY <3>1, QueueTail DEF PageTyped
    <3>3. w \in Seq(Signals)
      <4>1. <<>> \in Seq(Signals) /\ Command \in Seq(Signals)
        BY CommandTyped
      <4> QED
        BY <4>1
    <3> QED
      BY <3>1, <3>2, <3>3, QueueLater
  <2>2. CASE WorkerActs \/ PageUserActs \/ Hears \/ ListenerEnds \/ SpeechEnds
    <3>1. PICK w \in Seq(Signals) : posted' = posted \o w
      BY <2>2, OthersPost
    <3> QED
      BY <3>1, QueueLater DEF PageTyped
  <2>3. CASE UNCHANGED desktopVars
    BY <2>3 DEF PageTyped, desktopVars
  <2> QED
    BY <2>1, <2>2, <2>3 DEF DesktopNext
<1>2. Idle \in {Idle, Busy} /\ Question \in Nat
  BY DEF PageTyped, Question
<1>3. CASE QuestionGoes /\ UNCHANGED <<evidence, voice>>
  BY <1>1, <1>3, QuestionTyped DEF PageTyped
<1>4. CASE SharedReports \/ TeamReports
  <2>1. askedIn' = askedIn /\ rows' = rows /\ selected' = selected /\ context' = context
        /\ buttons' = buttons /\ voice' = voice /\ runner' = [runner EXCEPT !.noted = TRUE]
        /\ runner.runs
    BY <1>4 DEF SharedReports, TeamReports, chat
  <2>2. evidence' \in [Chats -> SUBSET Nat]
    <3>1. CASE SharedReports
      <4>1. askedIn[Question] \in Chats
        BY <2>1 DEF PageTyped, Question
      <4>2. evidence' = [evidence EXCEPT ![askedIn[Question]] = evidence[askedIn[Question]] \cup {Question}]
        BY <3>1, <4>1 DEF SharedReports, PageTyped
      <4> QED
        BY <1>2, <4>1, <4>2 DEF PageTyped
    <3>2. CASE TeamReports
      BY <3>2 DEF TeamReports, PageTyped
    <3> QED
      BY <1>4, <3>1, <3>2
  <2>3. runner' \in [runs : BOOLEAN, ended : BOOLEAN, team : BOOLEAN, noted : BOOLEAN, with : SUBSET Messages]
    BY <2>1 DEF PageTyped
  <2> QED
    BY <1>1, <2>1, <2>2, <2>3 DEF PageTyped, Question
<1>5. CASE WorkerEnds \/ ThreadFinishes
  <2>1. askedIn' = askedIn /\ rows' = rows /\ selected' = selected /\ context' = context
        /\ buttons' = buttons /\ voice' = voice /\ evidence' = evidence /\ runner.runs
    BY <1>5 DEF WorkerEnds, ThreadFinishes, chat
  <2>2. runner' \in [runs : BOOLEAN, ended : BOOLEAN, team : BOOLEAN, noted : BOOLEAN, with : SUBSET Messages]
    BY <1>5 DEF WorkerEnds, ThreadFinishes, PageTyped
  <2> QED
    BY <1>1, <2>1, <2>2 DEF PageTyped, Question
<1>6. CASE ClearChat \/ NewChat \/ \E c \in Chats : LoadChat(c)
  BY <1>1, <1>6 DEF ClearChat, NewChat, LoadChat, PageTyped, Question
<1>7. ASSUME UNCHANGED <<askedIn, runner, evidence, selected>>, context' \in SUBSET Messages,
             rows' = rows \/ (\E kind \in {"note", "assistant", "error"} : rows' = Saved(kind, Of) /\ posted # <<>>),
             buttons' \in {Idle, Busy},
             voice' \in [listens : BOOLEAN, speaking : Nat, resume : BOOLEAN]
      PROVE  PageTyped'
  <2>1. rows' \in [Chats -> SUBSET Messages]
    <3>1. CASE rows' = rows
      BY <3>1 DEF PageTyped
    <3>2. CASE rows' # rows
      <4>1. PICK kind \in {"note", "assistant", "error"} : rows' = Saved(kind, Of) /\ posted # <<>>
        BY <1>7, <3>2
      <4>2. Of \in Nat
        BY <4>1, QueueTail DEF PageTyped, Signals, Of
      <4>3. ChatMessage(kind, Of) \in Messages
        BY <4>2 DEF ChatMessage, Messages
      <4> QED
        BY <4>1, <4>3 DEF Saved, PageTyped
    <3> QED
      BY <3>1, <3>2
  <2> QED
    BY <1>1, <1>7, <2>1 DEF PageTyped, Question
<1>8. CASE CannotAsk /\ UNCHANGED <<evidence, voice>>
  BY <1>2, <1>7, <1>8 DEF CannotAsk, chat, PageTyped
<1>9. CASE OnNote \/ OnError
  <2>1. UNCHANGED <<askedIn, runner, evidence, selected>> /\ context' = context /\ posted # <<>>
        /\ buttons' \in {buttons, Idle} /\ voice' = voice
    BY <1>9 DEF OnNote, OnError, Handles, IsFirst
  <2>2. rows' = Saved("note", Of) \/ rows' = Saved("error", Of)
    BY <1>9 DEF OnNote, OnError
  <2> QED
    BY <1>2, <1>7, <2>1, <2>2 DEF PageTyped
<1>10. CASE OnResponse
  <2>1. UNCHANGED <<askedIn, runner, evidence, selected>> /\ context' = context /\ posted # <<>>
        /\ buttons' = Idle /\ rows' = Saved("assistant", Of)
    BY <1>10 DEF OnResponse, IsFirst
  <2>2. voice' \in [listens : BOOLEAN, speaking : Nat, resume : BOOLEAN]
    <3>1. voice.speaking + 1 \in Nat /\ voice \in [listens : BOOLEAN, speaking : Nat, resume : BOOLEAN]
      BY DEF PageTyped
    <3>2. voice' = voice \/ voice' = [listens |-> FALSE, speaking |-> voice.speaking + 1, resume |-> TRUE]
      BY <1>10 DEF OnResponse, Speaks
    <3>3. [listens |-> FALSE, speaking |-> voice.speaking + 1, resume |-> TRUE]
            \in [listens : BOOLEAN, speaking : Nat, resume : BOOLEAN]
      BY <3>1
    <3> QED
      BY <3>1, <3>2, <3>3
  <2> QED
    BY <1>2, <1>7, <2>1, <2>2 DEF PageTyped
<1>11. CASE OnMessagesUpdated
  <2>1. UNCHANGED <<askedIn, runner, evidence, selected>> /\ posted # <<>>
        /\ buttons' = buttons /\ rows' = rows /\ voice' = voice /\ context' = Head(posted).with
    BY <1>11 DEF OnMessagesUpdated, Handles, IsFirst
  <2>2. context' \in SUBSET Messages
    BY <2>1, QueueTail DEF PageTyped, Signals
  <2> QED
    BY <1>7, <2>1, <2>2 DEF PageTyped
<1>12. CASE OnFinished \/ OnVoiceError \/ OnSpoken \/ Hears \/ ListenerEnds \/ SpeechEnds \/ ToggleVoice
  <2>1. UNCHANGED <<askedIn, runner, evidence, selected>> /\ context' = context
        /\ buttons' \in {buttons, Idle} /\ rows' = rows
    BY <1>12 DEF OnFinished, OnVoiceError, OnSpoken, Hears, ListenerEnds, SpeechEnds, ToggleVoice, chat
  <2>2. voice' \in [listens : BOOLEAN, speaking : Nat, resume : BOOLEAN]
    <3> DEFINE Voices == [listens : BOOLEAN, speaking : Nat, resume : BOOLEAN]
    <3>1. voice \in Voices /\ Listening \in BOOLEAN /\ ListenerStarts \subseteq BOOLEAN
      BY DEF PageTyped, Listening, ListenerStarts
    <3>2. CASE OnFinished \/ Hears
      BY <3>1, <3>2 DEF OnFinished, Hears
    <3>3. CASE OnVoiceError \/ ListenerEnds
      BY <3>1, <3>3 DEF OnVoiceError, ListenerEnds
    <3>4. CASE OnSpoken
      <4>1. PICK starts \in BOOLEAN : voice' = [voice EXCEPT !.listens = starts, !.resume = FALSE]
        BY <3>1, <3>4 DEF OnSpoken
      <4> QED
        BY <3>1, <4>1
    <3>5. CASE SpeechEnds
      <4>1. voice.speaking > 0 /\ voice' = [voice EXCEPT !.speaking = voice.speaking - 1]
        BY <3>1, <3>5 DEF SpeechEnds
      <4>2. voice.speaking - 1 \in Nat
        BY <3>1, <4>1
      <4> QED
        BY <3>1, <4>1, <4>2
    <3>6. CASE ToggleVoice
      <4>1. \/ \E starts \in BOOLEAN : voice' = [voice EXCEPT !.listens = starts]
            \/ voice' = [voice EXCEPT !.listens = FALSE, !.resume = FALSE]
        BY <3>1, <3>6 DEF ToggleVoice
      <4> QED
        BY <3>1, <4>1
    <3> QED
      BY <1>12, <3>2, <3>3, <3>4, <3>5, <3>6
  <2> QED
    BY <1>2, <1>7, <2>1, <2>2 DEF PageTyped
<1>13. CASE UserSends \/ OnVoiceCommand
  <2>1. CASE UNCHANGED <<askedIn, runner, chat, buttons>> /\ UNCHANGED <<evidence, voice>>
    BY <1>7, <2>1 DEF chat, PageTyped
  <2> QED
    BY <1>3, <1>8, <1>13, <2>1 DEF UserSends, OnVoiceCommand
<1>14. CASE UNCHANGED desktopVars
  BY <1>14 DEF desktopVars, PageTyped, Question
<1> QED
  BY <1>4, <1>5, <1>6, <1>9, <1>10, <1>11, <1>12, <1>13, <1>14
     DEF DesktopNext, WindowActs, WorkerActs, PageUserActs

\* A signal that was not handled is still to handle.
LEMMA PendingAfterTake ==
  ASSUME PageTyped, WindowActs, NEW kind, Pending(kind), ~IsFirst(kind)
  PROVE  Pending(kind)'
<1>1. PICK w \in {<<>>, Command} : posted # <<>> /\ posted' = Tail(posted) \o w
  BY WindowTakes
<1>2. Tail(posted) \in Seq(Signals) /\ InQueue(posted) = {Head(posted)} \cup InQueue(Tail(posted))
  BY <1>1, QueueTail DEF PageTyped
<1>3. w \in Seq(Signals)
  <2>1. <<>> \in Seq(Signals) /\ Command \in Seq(Signals)
    BY CommandTyped
  <2> QED
    BY <2>1
<1>4. InQueue(posted') = InQueue(Tail(posted)) \cup InQueue(w)
  BY <1>1, <1>2, <1>3, QueueLater
<1>5. Head(posted).kind # kind
  BY <1>1 DEF IsFirst
<1> QED
  BY <1>2, <1>4, <1>5 DEF Pending

\* What waits to be handled still waits when more is posted.
LEMMA PendingAfterPost ==
  ASSUME PageTyped, WorkerActs \/ PageUserActs \/ Hears \/ ListenerEnds \/ SpeechEnds,
         NEW kind, Pending(kind)
  PROVE  Pending(kind)'
<1>1. PICK w \in Seq(Signals) : posted' = posted \o w
  BY OthersPost
<1>2. InQueue(posted') = InQueue(posted) \cup InQueue(w)
  BY <1>1, QueueLater DEF PageTyped
<1> QED
  BY <1>2 DEF Pending

\* The signal a step posts is to handle.
LEMMA PendingNow ==
  ASSUME PageTyped, NEW kind, NEW n \in Nat, Posts(<<Signal(kind, n, {})>>),
         Signal(kind, n, {}) \in Signals
  PROVE  Pending(kind)'
<1>1. InQueue(posted') = InQueue(posted) \cup {Signal(kind, n, {})}
  BY QueueOne, QueueLater DEF Posts, PageTyped
<1> QED
  BY <1>1 DEF Pending, Signal

\* The page shows work that no worker does only while it did before.
LEMMA WorkShown ==
  ASSUME PageTyped, DesktopNext, ~runner'.runs, buttons' # Idle
  PROVE  buttons # Idle /\ (~runner.runs \/ ThreadFinishes)
<1>1. ~QuestionGoes
  BY DEF QuestionGoes
<1>2. ~CannotAsk
  BY DEF CannotAsk
<1>3. CASE WindowActs
  <2>1. runner' = runner /\ buttons' \in {buttons, Idle}
    BY <1>1, <1>2, <1>3 DEF WindowActs, OnNote, OnMessagesUpdated, OnResponse, OnError, OnFinished,
                            OnVoiceCommand, OnVoiceError, OnSpoken
  <2> QED
    BY <2>1
<1>4. CASE WorkerActs
  <2>1. buttons' = buttons /\ (runner'.runs = runner.runs \/ ThreadFinishes)
    BY <1>4 DEF WorkerActs, SharedReports, TeamReports, WorkerEnds, ThreadFinishes, PageTyped
  <2> QED
    BY <2>1
<1>5. CASE PageUserActs \/ Hears \/ ListenerEnds \/ SpeechEnds
  BY <1>1, <1>2, <1>5 DEF PageUserActs, UserSends, ClearChat, NewChat, LoadChat, ToggleVoice, Hears,
                          ListenerEnds, SpeechEnds
<1> QED
  BY <1>3, <1>4, <1>5 DEF DesktopNext

\* The page waits for speech that is over only while it did before.
LEMMA SpeechAwaited ==
  ASSUME PageTyped, DesktopNext, voice'.speaking = 0, voice'.resume
  PROVE  voice.resume /\ (voice.speaking = 0 \/ SpeechEnds) /\ ~OnSpoken
<1>1. voice \in [listens : BOOLEAN, speaking : Nat, resume : BOOLEAN]
  BY DEF PageTyped
<1>2. ~OnSpoken
  <2> SUFFICES ASSUME OnSpoken PROVE FALSE
    OBVIOUS
  <2>1. PICK starts : voice' = [voice EXCEPT !.listens = starts, !.resume = FALSE]
    BY DEF OnSpoken
  <2> QED
    BY <1>1, <2>1
<1>3. CASE OnResponse /\ voice' # voice
  BY <1>1, <1>3 DEF OnResponse, Speaks
<1>4. CASE OnVoiceError \/ ListenerEnds
  <2>1. voice' = [voice EXCEPT !.listens = FALSE]
    BY <1>4 DEF OnVoiceError, ListenerEnds
  <2> QED
    BY <1>1, <1>2, <2>1
<1>5. CASE ToggleVoice
  <2>1. (\E starts : voice' = [voice EXCEPT !.listens = starts])
        \/ voice' = [voice EXCEPT !.listens = FALSE, !.resume = FALSE]
    BY <1>5 DEF ToggleVoice
  <2>2. voice.resume /\ voice.speaking = 0
    BY <1>1, <2>1
  <2> QED
    BY <1>2, <2>2
<1>6. CASE SpeechEnds
  <2>1. voice' = [voice EXCEPT !.speaking = voice.speaking - 1]
    BY <1>1, <1>6 DEF SpeechEnds
  <2> QED
    BY <1>1, <1>2, <1>6, <2>1
<1>7. CASE UNCHANGED voice
  BY <1>2, <1>7
<1>8. CASE OnNote \/ OnMessagesUpdated \/ OnError \/ OnFinished \/ OnVoiceCommand \/ WorkerActs \/ Hears
           \/ UserSends \/ ClearChat \/ NewChat \/ \E c \in Chats : LoadChat(c)
  BY <1>7, <1>8 DEF OnNote, OnMessagesUpdated, OnError, OnFinished, OnVoiceCommand, WorkerActs, Hears,
                    SharedReports, TeamReports, WorkerEnds, ThreadFinishes, UserSends, ClearChat,
                    NewChat, LoadChat
<1> QED
  BY <1>2, <1>3, <1>4, <1>5, <1>6, <1>7, <1>8 DEF DesktopNext, WindowActs, PageUserActs

\* Every step keeps posted what the page still waits for.
LEMMA EndsPostedKept ==
  ASSUME PageTyped, EndsArePosted, DesktopNext
  PROVE  EndsArePosted'
<1>1. ASSUME ~runner'.runs, buttons' # Idle PROVE Pending("finished")'
  <2>1. buttons # Idle /\ (~runner.runs \/ ThreadFinishes)
    BY <1>1, WorkShown
  <2>2. CASE ThreadFinishes
    <3>1. Signal("finished", Question, {}) \in Signals /\ Question \in Nat
      BY DEF Signal, Signals, PageTyped, Question
    <3> QED
      BY <2>2, <3>1, PendingNow DEF ThreadFinishes
  <2>3. CASE ~runner.runs
    <3>1. Pending("finished")
      BY <2>1, <2>3 DEF EndsArePosted
    <3>2. CASE WindowActs /\ IsFirst("finished")
      <4>1. OnFinished
        BY <3>2 DEF WindowActs, OnNote, OnMessagesUpdated, OnResponse, OnError, OnVoiceCommand,
                    OnVoiceError, OnSpoken, Handles, IsFirst
      <4>2. buttons = Busy
        BY <2>1 DEF PageTyped
      <4> QED
        BY <1>1, <2>3, <4>1, <4>2 DEF OnFinished, Busy
    <3> QED
      BY <3>1, <3>2, PendingAfterTake, PendingAfterPost DEF DesktopNext
  <2> QED
    BY <2>1, <2>2, <2>3
<1>2. ASSUME voice'.speaking = 0, voice'.resume PROVE Pending("spoken")'
  <2>1. voice.resume /\ (voice.speaking = 0 \/ SpeechEnds) /\ ~OnSpoken
    BY <1>2, SpeechAwaited
  <2>2. CASE SpeechEnds
    <3>1. Signal("spoken", 0, {}) \in Signals /\ 0 \in Nat
      BY DEF Signal, Signals
    <3> QED
      BY <2>2, <3>1, PendingNow DEF SpeechEnds
  <2>3. CASE voice.speaking = 0
    <3>1. Pending("spoken")
      BY <2>1, <2>3 DEF EndsArePosted
    <3>2. ~(WindowActs /\ IsFirst("spoken"))
      BY <2>1 DEF WindowActs, OnNote, OnMessagesUpdated, OnResponse, OnError, OnVoiceCommand,
                  OnVoiceError, OnFinished, Handles, IsFirst
    <3> QED
      BY <3>1, <3>2, PendingAfterTake, PendingAfterPost DEF DesktopNext
  <2> QED
    BY <2>1, <2>2, <2>3
<1> QED
  BY <1>1, <1>2 DEF EndsArePosted

\* A page starts idle, with nothing to handle.
LEMMA PageStarts == DesktopInit => SettleInv
<1> SUFFICES ASSUME DesktopInit PROVE SettleInv
  OBVIOUS
<1>1. <<>> \in Seq(Chats) /\ <<>> \in Seq(Signals)
  OBVIOUS
<1> QED
  BY <1>1 DEF DesktopInit, SettleInv, PageTyped, EndsArePosted

\* The page waits for nothing that does not come.
LEMMA SettleInvariant == DesktopSpec => []SettleInv
<1>1. SettleInv /\ [DesktopNext]_desktopVars => SettleInv'
  <2> SUFFICES ASSUME SettleInv, [DesktopNext]_desktopVars PROVE SettleInv'
    OBVIOUS
  <2>1. PageTyped'
    BY PageTypedKept DEF SettleInv
  <2>2. EndsArePosted'
    <3>1. CASE UNCHANGED desktopVars
      BY <3>1 DEF desktopVars, SettleInv, EndsArePosted, Pending
    <3> QED
      BY <3>1, EndsPostedKept DEF SettleInv
  <2> QED
    BY <2>1, <2>2 DEF SettleInv
<1> QED
  BY <1>1, PageStarts, PTL DEF DesktopSpec

\* When nothing runs, is posted or speaks, the page is ready for a question and does not
\* wait for speech (_finish_worker() and the handlers of chat_widget.py).
THEOREM PageSettles == DesktopSpec => []WindowSettles
<1>1. SettleInv => WindowSettles
  <2> SUFFICES ASSUME SettleInv, ~runner.runs, posted = <<>>, voice.speaking = 0
               PROVE  buttons = Idle /\ ~voice.resume
    BY DEF WindowSettles
  <2>1. InQueue(posted) = {}
    BY QueueOne DEF InQueue
  <2> QED
    BY <2>1 DEF SettleInv, EndsArePosted, Pending
<1> QED
  BY <1>1, SettleInvariant, PTL

--------------------------------------------------------------------------------
Closes(s, n) == s.of = n /\ s.kind \in {"answer", "error"}
NoCloser(p, n) == \A i \in DOMAIN p : ~Closes(p[i], n)
OneCloser(p, n) == \E i \in DOMAIN p : \A j \in DOMAIN p : Closes(p[j], n) <=> j = i

\* That a tool ran is kept with the chat that asked.
EvidenceOwn ==
  \A c \in Chats : \A n \in evidence[c] : n \in 1..Len(askedIn) /\ askedIn[n] = c

Own(messages, c) == \A m \in messages : m.of \in 1..Len(askedIn) /\ askedIn[m.of] = c
SignalOwn(s) ==
  s.kind \in Reports =>
    s.of \in 1..Len(askedIn) /\ askedIn[s.of] = selected /\ Own(s.with, selected)

\* While the user stays, what is on its way is for the chat that is shown.
Apart ==
  /\ \A c \in Chats : Own(rows[c], c)
  /\ Own(context, selected)
  /\ Question > 0 => Own(runner.with, askedIn[Question])
  /\ runner.runs => askedIn[Question] = selected
  /\ \A s \in InQueue(posted) : SignalOwn(s)

Answered(n) == {m \in rows[askedIn[n]] : m.of = n /\ m.kind \in {"assistant", "error"}}
Working(n) == n = Question /\ runner.runs /\ ~runner.ended

\* A question is worked on, or its end is posted, or in the database.
AnsweredOnce(n) ==
  IF Working(n) THEN NoCloser(posted, n) /\ Answered(n) = {}
  ELSE \/ OneCloser(posted, n) /\ Answered(n) = {}
       \/ NoCloser(posted, n) /\ \E k \in {"assistant", "error"} : Answered(n) = {ChatMessage(k, n)}

ChatsInv ==
  /\ PageTyped /\ EvidenceOwn
  /\ ~leftBehind => Apart /\ \A n \in 1..Len(askedIn) : AnsweredOnce(n)

--------------------------------------------------------------------------------
\* Who closes a question in a queue that grows or shrinks.
LEMMA ClosersLater ==
  ASSUME NEW p \in Seq(Signals), NEW w \in Seq(Signals), NEW n
  PROVE  /\ NoCloser(w, n) /\ NoCloser(p, n) => NoCloser(p \o w, n)
         /\ NoCloser(w, n) /\ OneCloser(p, n) => OneCloser(p \o w, n)
         /\ OneCloser(w, n) /\ NoCloser(p, n) => OneCloser(p \o w, n)
<1> DEFINE q == p \o w
<1>1. /\ DOMAIN p = 1..Len(p) /\ DOMAIN w = 1..Len(w) /\ DOMAIN q = 1..Len(p) + Len(w)
      /\ Len(p) \in Nat /\ Len(w) \in Nat
      /\ \A i \in 1..Len(p) + Len(w) : q[i] = IF i <= Len(p) THEN p[i] ELSE w[i - Len(p)]
  OBVIOUS
<1> HIDE DEF q
<1>2. ASSUME NoCloser(w, n), NEW i \in DOMAIN q, Closes(q[i], n) PROVE i \in DOMAIN p /\ q[i] = p[i]
  <2>1. CASE i <= Len(p)
    BY <1>1, <2>1
  <2>2. CASE ~(i <= Len(p))
    <3> DEFINE j == i - Len(p)
    <3>1. j \in DOMAIN w /\ q[i] = w[j]
      BY <1>1, <2>2
    <3> HIDE DEF j
    <3> QED
      BY <1>2, <3>1 DEF NoCloser
  <2> QED
    BY <2>1, <2>2
<1>3. ASSUME NoCloser(p, n), NEW i \in DOMAIN q, Closes(q[i], n)
      PROVE  i - Len(p) \in DOMAIN w /\ q[i] = w[i - Len(p)]
  <2>1. CASE i <= Len(p)
    <3>1. i \in DOMAIN p /\ q[i] = p[i]
      BY <1>1, <2>1
    <3> QED
      BY <1>3, <3>1 DEF NoCloser
  <2>2. CASE ~(i <= Len(p))
    BY <1>1, <2>2
  <2> QED
    BY <2>1, <2>2
<1>4. ASSUME NoCloser(w, n), NoCloser(p, n) PROVE NoCloser(q, n)
  BY <1>2, <1>4 DEF NoCloser
<1>5. ASSUME NoCloser(w, n), OneCloser(p, n) PROVE OneCloser(q, n)
  <2>1. PICK i \in DOMAIN p : \A j \in DOMAIN p : Closes(p[j], n) <=> j = i
    BY <1>5 DEF OneCloser
  <2>2. i \in DOMAIN q /\ q[i] = p[i]
    BY <1>1
  <2>3. ASSUME NEW j \in DOMAIN q PROVE Closes(q[j], n) <=> j = i
    BY <1>2, <1>5, <2>1, <2>2
  <2> QED
    BY <2>2, <2>3 DEF OneCloser
<1>6. ASSUME OneCloser(w, n), NoCloser(p, n) PROVE OneCloser(q, n)
  <2>1. PICK i \in DOMAIN w : \A j \in DOMAIN w : Closes(w[j], n) <=> j = i
    BY <1>6 DEF OneCloser
  <2> DEFINE k == i + Len(p)
  <2>2. k \in DOMAIN q /\ q[k] = w[i]
    BY <1>1
  <2>3. ASSUME NEW j \in DOMAIN q PROVE Closes(q[j], n) <=> j = k
    <3>1. ASSUME Closes(q[j], n) PROVE j = k
      <4>1. j - Len(p) \in DOMAIN w /\ Closes(w[j - Len(p)], n)
        BY <1>3, <1>6, <3>1
      <4>2. j - Len(p) = i
        BY <2>1, <4>1
      <4> QED
        BY <1>1, <4>2
    <3>2. Closes(q[k], n)
      BY <2>1, <2>2
    <3> QED
      BY <3>1, <3>2
  <2> HIDE DEF k
  <2> QED
    BY <2>2, <2>3 DEF OneCloser
<1> QED
  BY <1>4, <1>5, <1>6 DEF q

\* Taking the first signal takes away at most the one that closes its question.
LEMMA ClosersTail ==
  ASSUME NEW p \in Seq(Signals), p # <<>>, NEW n
  PROVE  /\ NoCloser(p, n) => NoCloser(Tail(p), n) /\ ~Closes(Head(p), n)
         /\ OneCloser(p, n) /\ Closes(Head(p), n) => NoCloser(Tail(p), n)
         /\ OneCloser(p, n) /\ ~Closes(Head(p), n) => OneCloser(Tail(p), n)
<1> DEFINE q == Tail(p)
<1>1. /\ DOMAIN p = 1..Len(p) /\ DOMAIN q = 1..Len(p) - 1 /\ Len(p) \in Nat /\ Len(p) > 0
      /\ Head(p) = p[1] /\ \A i \in 1..Len(p) - 1 : q[i] = p[i + 1]
  OBVIOUS
<1> HIDE DEF q
<1>2. 1 \in DOMAIN p /\ \A i \in DOMAIN q : i + 1 \in DOMAIN p /\ i + 1 # 1 /\ q[i] = p[i + 1]
  BY <1>1
<1>3. ASSUME NoCloser(p, n) PROVE NoCloser(q, n) /\ ~Closes(Head(p), n)
  BY <1>1, <1>2, <1>3 DEF NoCloser
<1>4. ASSUME OneCloser(p, n), Closes(Head(p), n) PROVE NoCloser(q, n)
  BY <1>1, <1>2, <1>4 DEF OneCloser, NoCloser
<1>5. ASSUME OneCloser(p, n), ~Closes(Head(p), n) PROVE OneCloser(q, n)
  <2>1. PICK i \in DOMAIN p : \A j \in DOMAIN p : Closes(p[j], n) <=> j = i
    BY <1>5 DEF OneCloser
  <2>2. i # 1
    BY <1>1, <1>5, <2>1
  <2> DEFINE k == i - 1
  <2>3. k \in DOMAIN q /\ k + 1 = i
    BY <1>1, <2>2
  <2> HIDE DEF k
  <2>4. ASSUME NEW j \in DOMAIN q PROVE Closes(q[j], n) <=> j = k
    <3>1. Closes(q[j], n) <=> j + 1 = i
      BY <1>2, <2>1
    <3> QED
      BY <1>1, <2>3, <3>1
  <2> QED
    BY <2>3, <2>4 DEF OneCloser
<1> QED
  BY <1>3, <1>4, <1>5 DEF q

\* No signal of a queue closes.
LEMMA NoneCloses ==
  ASSUME NEW p, NEW n
  PROVE  NoCloser(p, n) <=> \A s \in InQueue(p) : ~Closes(s, n)
BY DEF NoCloser, InQueue

\* What is asked later leaves earlier questions where they were.
LEMMA OwnStays ==
  ASSUME NEW messages, NEW c, Own(messages, c),
         Len(askedIn) \in Nat, Len(askedIn') \in Nat, Len(askedIn) <= Len(askedIn'),
         \A n \in 1..Len(askedIn) : askedIn'[n] = askedIn[n]
  PROVE  \A m \in messages : m.of \in 1..Len(askedIn') /\ askedIn'[m.of] = c
BY DEF Own

\* What a step does to the queue of signals, of those that close question n.
SameEnd(n) ==
  /\ NoCloser(posted, n) => NoCloser(posted', n)
  /\ OneCloser(posted, n) => OneCloser(posted', n)

\* A queue of signals that report nothing closes nothing.
LEMMA NoReportsClose ==
  ASSUME NEW w, \A s \in InQueue(w) : s.kind \notin Reports, NEW n
  PROVE  NoCloser(w, n)
BY NoneCloses DEF Closes, Reports

\* Steps of the user, of speech and of a thread that finishes report on no question.
LEMMA PostsNews ==
  ASSUME PageTyped, PageUserActs \/ Hears \/ ListenerEnds \/ SpeechEnds \/ ThreadFinishes
  PROVE  /\ \A s \in InQueue(posted') : s \in InQueue(posted) \/ s.kind \notin Reports
         /\ \A n : SameEnd(n)
<1>1. PICK w \in Seq(Signals) : posted' = posted \o w /\ \A s \in InQueue(w) : s.kind \notin Reports
  BY QuietPosts
<1>2. posted \in Seq(Signals) /\ InQueue(posted') = InQueue(posted) \cup InQueue(w)
  BY <1>1, QueueLater DEF PageTyped
<1>3. ASSUME NEW n PROVE SameEnd(n)
  BY <1>1, <1>2, NoReportsClose, ClosersLater DEF SameEnd
<1> QED
  BY <1>1, <1>2, <1>3

\* The window handles the first signal and posts no report.
LEMMA TakesNews ==
  ASSUME PageTyped, WindowActs
  PROVE  /\ posted # <<>> /\ Head(posted) \in InQueue(posted)
         /\ \A s \in InQueue(posted') : s \in InQueue(posted) \/ s.kind \notin Reports
         /\ \A n : ~Closes(Head(posted), n) => SameEnd(n)
         /\ \A n : Closes(Head(posted), n) => ~NoCloser(posted, n) /\ (OneCloser(posted, n) => NoCloser(posted', n))
<1>1. PICK w \in {<<>>, Command} : posted # <<>> /\ posted' = Tail(posted) \o w
  BY WindowTakes
<1>2. posted \in Seq(Signals)
  BY DEF PageTyped
<1>3. Tail(posted) \in Seq(Signals) /\ InQueue(posted) = {Head(posted)} \cup InQueue(Tail(posted))
  BY <1>1, <1>2, QueueTail
<1>4. w \in Seq(Signals) /\ \A s \in InQueue(w) : s.kind \notin Reports
  <2>1. CASE w = <<>>
    BY <2>1, QueueOne DEF InQueue
  <2>2. CASE w = Command
    BY <2>2, CommandTyped DEF Signal, Reports
  <2> QED
    BY <1>1, <2>1, <2>2
<1>5. InQueue(posted') = InQueue(Tail(posted)) \cup InQueue(w)
  BY <1>1, <1>3, <1>4, QueueLater
<1>6. ASSUME NEW n PROVE NoCloser(w, n)
  BY <1>4, NoReportsClose
<1>7. ASSUME NEW n PROVE /\ NoCloser(Tail(posted), n) => NoCloser(posted', n)
                         /\ OneCloser(Tail(posted), n) => OneCloser(posted', n)
  BY <1>1, <1>3, <1>4, <1>6, ClosersLater
<1>8. ASSUME NEW n, ~Closes(Head(posted), n) PROVE SameEnd(n)
  BY <1>1, <1>2, <1>7, <1>8, ClosersTail DEF SameEnd
<1>9. ASSUME NEW n, Closes(Head(posted), n)
      PROVE  ~NoCloser(posted, n) /\ (OneCloser(posted, n) => NoCloser(posted', n))
  BY <1>1, <1>2, <1>7, <1>9, ClosersTail
<1> QED
  BY <1>1, <1>3, <1>4, <1>5, <1>8, <1>9

\* Only a question that goes adds to what was asked.
LEMMA AskedGrows ==
  ASSUME PageTyped, QuestionGoes
  PROVE  \E c \in Chats :
           /\ selected = NoChat => \A n \in 1..Len(askedIn) : askedIn[n] # c
           /\ selected # NoChat => c = selected
           /\ askedIn' = Append(askedIn, c) /\ selected' = c
           /\ Len(askedIn') = Len(askedIn) + 1 /\ Len(askedIn) \in Nat
           /\ \A n \in 1..Len(askedIn) : askedIn'[n] = askedIn[n]
           /\ askedIn'[Len(askedIn) + 1] = c
           /\ context' = context \cup {ChatMessage("user", Len(askedIn) + 1)}
           /\ rows' = [rows EXCEPT ![c] = rows[c] \cup {ChatMessage("user", Len(askedIn) + 1)}]
           /\ runner'.runs /\ ~runner'.ended /\ ~runner.runs
           /\ runner'.with \subseteq context' \cup {ChatMessage("evidence", Len(askedIn) + 1)}
<1>1. PICK c \in (IF selected = NoChat THEN NewChats ELSE {selected}), team \in BOOLEAN :
        LET n == Question + 1
            messages == context \cup {ChatMessage("user", n)}
        IN /\ askedIn' = Append(askedIn, c) /\ selected' = c /\ context' = messages
           /\ rows' = [rows EXCEPT ![c] = @ \cup {ChatMessage("user", n)}]
           /\ runner' = [runs |-> TRUE, ended |-> FALSE, team |-> team, noted |-> FALSE,
                         with |-> messages \cup (IF team THEN {} ELSE Evidence(c, n))]
  BY DEF QuestionGoes
<1>2. askedIn \in Seq(Chats) /\ c \in Chats /\ DOMAIN askedIn = 1..Len(askedIn)
  BY DEF PageTyped, NewChats
<1>3. /\ Len(askedIn') = Len(askedIn) + 1 /\ Len(askedIn) \in Nat
      /\ \A n \in 1..Len(askedIn) : askedIn'[n] = askedIn[n]
      /\ askedIn'[Len(askedIn) + 1] = c
  BY <1>1, <1>2
<1>4. rows' = [rows EXCEPT ![c] = rows[c] \cup {ChatMessage("user", Len(askedIn) + 1)}]
  BY <1>1, <1>2 DEF PageTyped, Question
<1>5. runner'.with \subseteq context' \cup {ChatMessage("evidence", Len(askedIn) + 1)}
  BY <1>1 DEF Evidence, Question
<1>6. /\ selected = NoChat => \A n \in 1..Len(askedIn) : askedIn[n] # c
      /\ selected # NoChat => c = selected
  BY <1>1, <1>2 DEF NewChats
<1>7. runner'.runs /\ ~runner'.ended /\ ~runner.runs
  BY <1>1 DEF QuestionGoes
<1>8. askedIn' = Append(askedIn, c) /\ selected' = c
      /\ context' = context \cup {ChatMessage("user", Len(askedIn) + 1)}
  BY <1>1 DEF Question
<1> QED
  BY <1>2, <1>3, <1>4, <1>5, <1>6, <1>7, <1>8

\* A step in which the chat on show stays keeps what is its own apart.
LEMMA StaysApart ==
  ASSUME Apart, UNCHANGED <<askedIn, selected>>, runner'.with = runner.with,
         runner'.runs => runner.runs, Own(context', selected),
         \A c \in Chats : Own(rows'[c], c),
         \A s \in InQueue(posted') : s \in InQueue(posted) \/ SignalOwn(s)
  PROVE  Apart'
<1>1. \A s \in InQueue(posted') : SignalOwn(s)'
  BY DEF Apart, SignalOwn, Own
<1>2. Own(context, selected)' /\ \A c \in Chats : Own(rows[c], c)'
  BY DEF Own
<1>3. Question' > 0 => Own(runner.with, askedIn[Question])'
  BY DEF Apart, Own, Question
<1> QED
  BY <1>1, <1>2, <1>3 DEF Apart, Question

\* A question nothing happened to is answered as often as before.
LEMMA StaysAnswered ==
  ASSUME NEW n, AnsweredOnce(n), UNCHANGED askedIn, Working(n)' <=> Working(n), SameEnd(n),
         Answered(n)' = Answered(n)
  PROVE  AnsweredOnce(n)'
<1>1. CASE Working(n)
  BY <1>1 DEF AnsweredOnce, SameEnd
<1>2. CASE ~Working(n)
  BY <1>2 DEF AnsweredOnce, SameEnd
<1> QED
  BY <1>1, <1>2

\* What is saved of a report goes to the chat on show.
LEMMA SavedIsOwn ==
  ASSUME PageTyped, Apart, posted # <<>>, Head(posted).kind \in Reports, NEW k,
         k \in {"note", "assistant", "error"}
  PROVE  /\ \A c \in Chats : Own(Saved(k, Of)[c], c)
         /\ Of \in 1..Len(askedIn) /\ askedIn[Of] = selected /\ Own(Head(posted).with, selected)
<1>1. Head(posted) \in InQueue(posted)
  BY QueueTail DEF PageTyped
<1>2. Of \in 1..Len(askedIn) /\ askedIn[Of] = selected /\ Own(Head(posted).with, selected)
  BY <1>1 DEF Apart, SignalOwn, Of
<1>3. \A c \in Chats : Own(Saved(k, Of)[c], c)
  BY <1>2 DEF Apart, Own, Saved, ChatMessage
<1> QED
  BY <1>2, <1>3

\* The chat on show, and what is known of its questions.
Stay == Apart /\ \A n \in 1..Len(askedIn) : AnsweredOnce(n)

\* A step that changes nothing of the chat, and whose signals report nothing.
LEMMA QuietStays ==
  ASSUME PageTyped, Stay, UNCHANGED <<askedIn, runner, rows, selected, context>>,
         \A s \in InQueue(posted') : s \in InQueue(posted) \/ s.kind \notin Reports,
         \A n : SameEnd(n)
  PROVE  Stay'
<1>1. Apart'
  BY StaysApart DEF Stay, Apart, SignalOwn
<1>2. ASSUME NEW n \in 1..Len(askedIn) PROVE AnsweredOnce(n)'
  BY StaysAnswered DEF Stay, Working, Answered, Question
<1> QED
  BY <1>1, <1>2 DEF Stay

\* So are all of them, when a step posts no report.
LEMMA QuestionStays ==
  ASSUME PageTyped, Stay, QuestionGoes,
         \A s \in InQueue(posted') : s \in InQueue(posted) \/ s.kind \notin Reports,
         \A n : SameEnd(n)
  PROVE  Stay'
<1>0. PICK k \in Nat : k = Len(askedIn) + 1
  BY DEF PageTyped
<1>1. PICK c \in Chats :
           /\ selected = NoChat => \A n \in 1..Len(askedIn) : askedIn[n] # c
           /\ selected # NoChat => c = selected
           /\ askedIn' = Append(askedIn, c) /\ selected' = c
           /\ Len(askedIn') = k /\ Len(askedIn) \in Nat
           /\ \A n \in 1..Len(askedIn) : askedIn'[n] = askedIn[n]
           /\ askedIn'[k] = c
           /\ context' = context \cup {ChatMessage("user", k)}
           /\ rows' = [rows EXCEPT ![c] = rows[c] \cup {ChatMessage("user", k)}]
           /\ runner'.runs /\ ~runner'.ended /\ ~runner.runs
           /\ runner'.with \subseteq context' \cup {ChatMessage("evidence", k)}
  BY <1>0, AskedGrows
<1>2. \A n \in 1..Len(askedIn) : askedIn[n] # NoChat
  BY DesktopAssumption DEF PageTyped
<1>3. \A m \in context : m.of \in 1..Len(askedIn) /\ askedIn[m.of] = c
  BY <1>1, <1>2 DEF Stay, Apart, Own
<1>4. \A s \in InQueue(posted') : s.kind \in Reports =>
        s.of \in 1..Len(askedIn) /\ askedIn[s.of] = c
        /\ \A m \in s.with : m.of \in 1..Len(askedIn) /\ askedIn[m.of] = c
  BY <1>1, <1>2 DEF Stay, Apart, SignalOwn, Own
<1>5. ASSUME NEW n \in 1..Len(askedIn) PROVE n \in 1..Len(askedIn') /\ askedIn'[n] = askedIn[n]
  BY <1>1
<1>6. k \in 1..Len(askedIn') /\ askedIn'[k] = c
  BY <1>0, <1>1
<1>7. rows \in [Chats -> SUBSET Messages]
  BY DEF PageTyped
<1>8. ChatMessage("user", k).of = k /\ ChatMessage("evidence", k).of = k
      /\ ChatMessage("user", k).kind = "user"
  BY DEF ChatMessage
<1>9. Apart'
  <2>1. ASSUME NEW d \in Chats PROVE Own(rows[d], d)'
    <3>1. \A m \in rows[d] : m.of \in 1..Len(askedIn) /\ askedIn[m.of] = d
      BY DEF Stay, Apart, Own
    <3>2. \A m \in rows'[d] : m \in rows[d] \/ (d = c /\ m.of = k)
      BY <1>1, <1>7, <1>8
    <3> QED
      BY <1>5, <1>6, <3>1, <3>2 DEF Own
  <2>2. Own(context, selected)'
    BY <1>1, <1>3, <1>5, <1>6, <1>8 DEF Own
  <2>3. Own(runner.with, askedIn[Question])'
    <3>1. askedIn'[Question'] = c
      BY <1>1, <1>6 DEF Question
    <3>2. \A m \in runner'.with : m \in context' \/ m.of = k
      BY <1>1, <1>8
    <3>3. \A m \in context' : m.of \in 1..Len(askedIn') /\ askedIn'[m.of] = c
      BY <1>1, <2>2 DEF Own
    <3> QED
      BY <1>6, <3>1, <3>2, <3>3 DEF Own
  <2>4. askedIn'[Question'] = selected'
    BY <1>1, <1>6 DEF Question
  <2>5. \A s \in InQueue(posted') : SignalOwn(s)'
    BY <1>1, <1>4, <1>5 DEF SignalOwn, Own
  <2> QED
    BY <2>1, <2>2, <2>3, <2>4, <2>5 DEF Apart
<1>10. ASSUME NEW n \in 1..Len(askedIn) PROVE AnsweredOnce(n)'
  <2>1. ~Working(n) /\ ~Working(n)'
    BY <1>0, <1>1 DEF Working, Question
  <2>2. Answered(n)' = Answered(n)
    <3>1. askedIn[n] \in Chats /\ askedIn'[n] = askedIn[n]
      BY <1>1 DEF PageTyped
    <3>2. \A m : m \in rows'[askedIn[n]] /\ m.kind # "user" <=> m \in rows[askedIn[n]] /\ m.kind # "user"
      BY <1>1, <1>7, <1>8, <3>1
    <3> QED
      BY <3>1, <3>2 DEF Answered
  <2> QED
    BY <2>1, <2>2 DEF Stay, AnsweredOnce, SameEnd
<1>11. AnsweredOnce(k)'
  <2>1. Working(k)'
    BY <1>1 DEF Working, Question
  <2>2. k \notin 1..Len(askedIn)
    BY <1>0, <1>1
  <2>3. NoCloser(posted', k)
    BY <1>4, <2>2, NoneCloses DEF Closes, Reports
  <2>4. Answered(k)' = {}
    <3>1. \A m \in rows'[c] : m.kind = "user" \/ m.of # k
      BY <1>1, <1>7, <1>8, <2>2 DEF Stay, Apart, Own
    <3> QED
      BY <1>1, <3>1 DEF Answered
  <2> QED
    BY <2>1, <2>3, <2>4 DEF AnsweredOnce
<1>12. \A n \in 1..Len(askedIn') : n \in 1..Len(askedIn) \/ n = k
  BY <1>0, <1>1
<1> QED
  BY <1>9, <1>10, <1>11, <1>12 DEF Stay

\* The user's turns, unless one leaves a chat an answer is on its way to.
LEMMA TurnStays ==
  ASSUME PageTyped, Stay, ClearChat \/ NewChat \/ (\E c \in Chats : LoadChat(c)), ~leftBehind'
  PROVE  Stay'
<1>1. UNCHANGED <<askedIn, runner, posted, rows>>
  BY DEF ClearChat, NewChat, LoadChat
<1>2. ASSUME NEW n \in 1..Len(askedIn) PROVE AnsweredOnce(n)'
  BY <1>1 DEF Stay, AnsweredOnce, Working, Answered, Question
<1>3. CASE selected' = selected
  <2>1. Own(context', selected)
    BY <1>3 DEF ClearChat, NewChat, LoadChat, Own, Stay, Apart
  <2>2. Apart'
    BY <1>1, <1>3, <2>1, StaysApart DEF Stay, Apart
  <2> QED
    BY <1>1, <1>2, <2>2 DEF Stay
<1>4. CASE selected' # selected
  <2>1. ~OnItsWay
    BY <1>4 DEF ClearChat, NewChat, LoadChat
  <2>2. ~runner.runs /\ \A s \in InQueue(posted) : s.kind \notin Reports
    <3>1. \A s \in InQueue(posted) : s.kind \in Reports => s.of > 0
      BY DEF Stay, Apart, SignalOwn
    <3> QED
      BY <2>1, <3>1 DEF OnItsWay, InQueue, Reports
  <2>3. context' = {} \/ (context' \subseteq rows[selected'] /\ selected' \in Chats)
    BY <1>4 DEF ClearChat, NewChat, LoadChat
  <2>4. Own(context, selected)'
    BY <1>1, <2>3 DEF Own, Stay, Apart
  <2>5. Apart'
    BY <1>1, <2>2, <2>4 DEF Stay, Apart, Own, SignalOwn, Question, InQueue
  <2> QED
    BY <1>1, <1>2, <2>5 DEF Stay
<1> QED
  BY <1>3, <1>4

\* The worker's reports of its question.
LEMMA WorkerStays ==
  ASSUME PageTyped, Stay, WorkerActs
  PROVE  Stay'
<1>1. UNCHANGED <<askedIn, rows, selected, context>> /\ runner.runs /\ runner'.with = runner.with
      /\ (runner'.runs => runner.runs)
  BY DEF WorkerActs, SharedReports, TeamReports, WorkerEnds, ThreadFinishes, chat, PageTyped
<1>2. askedIn[Question] = selected /\ Question \in 1..Len(askedIn) /\ Own(runner.with, selected)
      /\ Question \in Nat
  BY <1>1 DEF Stay, Apart, PageTyped, Question
<1>3. ASSUME \A s \in InQueue(posted') : s \in InQueue(posted) \/ SignalOwn(s)
      PROVE  Apart'
  BY <1>1, <1>3, StaysApart DEF Stay, Apart
<1>4. \A n : Answered(n)' = Answered(n)
  BY <1>1 DEF Answered
<1>5. CASE ThreadFinishes
  <2>1. /\ \A s \in InQueue(posted') : s \in InQueue(posted) \/ s.kind \notin Reports
        /\ \A n : SameEnd(n)
    BY <1>5, PostsNews
  <2>2. Apart'
    BY <1>3, <2>1 DEF SignalOwn
  <2>3. ASSUME NEW n \in 1..Len(askedIn) PROVE AnsweredOnce(n)'
    <3>1. Working(n)' <=> Working(n)
      BY <1>1, <1>5 DEF ThreadFinishes, Working, Question, PageTyped
    <3> QED
      BY <1>1, <1>4, <2>1, <3>1, StaysAnswered DEF Stay
  <2> QED
    BY <1>1, <2>2, <2>3 DEF Stay
<1>6. CASE SharedReports \/ TeamReports
  <2> DEFINE s == Signal("note", Question, {})
  <2>1. s \in Signals /\ s.kind = "note" /\ s.of = Question /\ s.with = {}
    BY <1>2 DEF Signal, Signals
  <2>2. posted' = posted \o <<s>> /\ posted \in Seq(Signals)
    BY <1>6 DEF SharedReports, TeamReports, Posts, PageTyped
  <2> HIDE DEF s
  <2>3. InQueue(posted') = InQueue(posted) \cup {s} /\ <<s>> \in Seq(Signals) /\ InQueue(<<s>>) = {s}
    BY <2>1, <2>2, QueueOne, QueueLater
  <2>4. SignalOwn(s)
    BY <1>2, <2>1 DEF SignalOwn, Own
  <2>5. ASSUME NEW n PROVE SameEnd(n)
    <3>1. NoCloser(<<s>>, n)
      BY <2>1, <2>3, NoneCloses DEF Closes
    <3> QED
      BY <2>2, <2>3, <3>1, ClosersLater DEF SameEnd
  <2>6. Apart'
    BY <1>3, <2>3, <2>4
  <2>7. ASSUME NEW n \in 1..Len(askedIn) PROVE AnsweredOnce(n)'
    <3>1. Working(n)' <=> Working(n)
      BY <1>1, <1>6 DEF SharedReports, TeamReports, Working, Question, PageTyped
    <3> QED
      BY <1>1, <1>4, <2>5, <3>1, StaysAnswered DEF Stay
  <2> QED
    BY <1>1, <2>6, <2>7 DEF Stay
<1>7. CASE WorkerEnds
  <2>1. PICK w \in Seq(Signals) :
           /\ posted' = posted \o w
           /\ \/ w = <<Signal("error", Question, {})>>
              \/ w = <<Signal("context", Question, runner.with), Signal("error", Question, {})>>
              \/ w = WorkerAnswers
    BY <1>7, WorkerEndsAs
  <2> DEFINE m == ChatMessage("assistant", Question)
             e == Signal("error", Question, {})
             a == Signal("answer", Question, {})
             x == Signal("context", Question, runner.with)
             y == Signal("context", Question, runner.with \cup {m})
  <2>2. /\ e \in Signals /\ a \in Signals /\ x \in Signals /\ y \in Signals
        /\ WorkerAnswers = <<y, a>>
    BY EndsTyped
  <2>3. /\ e.of = Question /\ e.kind = "error" /\ e.with = {}
        /\ a.of = Question /\ a.kind = "answer" /\ a.with = {}
        /\ x.of = Question /\ x.kind = "context" /\ x.with = runner.with
        /\ y.of = Question /\ y.kind = "context" /\ y.with = runner.with \cup {m} /\ m.of = Question
    BY DEF Signal, ChatMessage
  <2>4. w = <<e>> \/ w = <<x, e>> \/ w = <<y, a>>
    BY <2>1, <2>2
  <2> HIDE DEF m, e, a, x, y
  <2>5. SignalOwn(e) /\ SignalOwn(a) /\ SignalOwn(x) /\ SignalOwn(y)
    BY <1>2, <2>3 DEF SignalOwn, Own
  <2>6. InQueue(w) \subseteq {e, a, x, y}
    BY <2>2, <2>4, QueueOne, QueueTwo
  <2>7. InQueue(posted') = InQueue(posted) \cup InQueue(w)
    BY <2>1, QueueLater DEF PageTyped
  <2>8. Apart'
    BY <1>3, <2>5, <2>6, <2>7
  <2>9. OneCloser(w, Question)
    <3>1. DOMAIN <<e>> = {1} /\ DOMAIN <<x, e>> = {1, 2} /\ DOMAIN <<y, a>> = {1, 2}
      OBVIOUS
    <3>2. Closes(e, Question) /\ Closes(a, Question) /\ ~Closes(x, Question) /\ ~Closes(y, Question)
      BY <2>3 DEF Closes
    <3>3. CASE w = <<e>>
      BY <3>1, <3>2, <3>3 DEF OneCloser
    <3>4. CASE w = <<x, e>>
      BY <3>1, <3>2, <3>4 DEF OneCloser
    <3>5. CASE w = <<y, a>>
      BY <3>1, <3>2, <3>5 DEF OneCloser
    <3> QED
      BY <2>4, <3>3, <3>4, <3>5
  <2>10. ASSUME NEW n \in 1..Len(askedIn) PROVE AnsweredOnce(n)'
    <3>1. CASE n = Question
      <4>1. Working(n) /\ ~Working(n)'
        BY <1>1, <1>7, <3>1 DEF WorkerEnds, Working, PageTyped
      <4>2. NoCloser(posted, n) /\ Answered(n)' = {}
        BY <1>4, <4>1 DEF Stay, AnsweredOnce
      <4>3. OneCloser(posted', n)
        BY <2>1, <2>9, <3>1, <4>2, ClosersLater DEF PageTyped
      <4> QED
        BY <4>1, <4>2, <4>3 DEF AnsweredOnce
    <3>2. CASE n # Question
      <4>1. NoCloser(w, n)
        BY <2>3, <2>6, <3>2, NoneCloses DEF Closes
      <4>2. SameEnd(n)
        BY <2>1, <4>1, ClosersLater DEF SameEnd, PageTyped
      <4>3. ~Working(n) /\ ~Working(n)'
        BY <1>1, <3>2 DEF Working, Question
      <4> QED
        BY <1>1, <1>4, <4>2, <4>3, StaysAnswered DEF Stay
    <3> QED
      BY <3>1, <3>2
  <2> QED
    BY <1>1, <2>8, <2>10 DEF Stay
<1> QED
  BY <1>5, <1>6, <1>7 DEF WorkerActs

\* What the window handles of the worker's reports.
LEMMA HandlerStays ==
  ASSUME PageTyped, Stay, OnNote \/ OnMessagesUpdated \/ OnResponse \/ OnError
  PROVE  Stay'
<1>1. UNCHANGED <<askedIn, runner, selected>> /\ Head(posted).kind \in Reports
  BY DEF OnNote, OnMessagesUpdated, OnResponse, OnError, Handles, IsFirst, Reports
<1>2. /\ posted # <<>> /\ Head(posted) \in InQueue(posted)
      /\ \A s \in InQueue(posted') : s \in InQueue(posted) \/ s.kind \notin Reports
      /\ \A n : ~Closes(Head(posted), n) => SameEnd(n)
      /\ \A n : Closes(Head(posted), n) => ~NoCloser(posted, n) /\ (OneCloser(posted, n) => NoCloser(posted', n))
  BY TakesNews DEF WindowActs
<1>3. /\ Of \in 1..Len(askedIn) /\ askedIn[Of] = selected /\ Own(Head(posted).with, selected)
  BY <1>1, <1>2, SavedIsOwn DEF Stay
<1>4. ASSUME Own(context', selected), \A c \in Chats : Own(rows'[c], c)
      PROVE  Apart'
  BY <1>1, <1>2, <1>4, StaysApart DEF Stay, SignalOwn
<1>5. \A n : Working(n)' <=> Working(n)
  BY <1>1 DEF Working, Question
<1>6. CASE OnMessagesUpdated
  <2>1. rows' = rows /\ context' = Head(posted).with /\ Head(posted).kind = "context"
    BY <1>6 DEF OnMessagesUpdated, Handles, IsFirst
  <2>2. Apart'
    BY <1>3, <1>4, <2>1 DEF Stay, Apart
  <2>3. ASSUME NEW n \in 1..Len(askedIn) PROVE AnsweredOnce(n)'
    <3>1. SameEnd(n) /\ Answered(n)' = Answered(n)
      BY <1>1, <1>2, <2>1 DEF Closes, Answered
    <3> QED
      BY <1>1, <1>5, <3>1, StaysAnswered DEF Stay
  <2> QED
    BY <1>1, <2>2, <2>3 DEF Stay
<1>7. CASE OnNote
  <2>1. rows' = Saved("note", Of) /\ context' = context /\ Head(posted).kind = "note"
    BY <1>7 DEF OnNote, Handles, IsFirst
  <2>2. Apart'
    BY <1>1, <1>2, <1>4, <2>1, SavedIsOwn DEF Stay, Apart
  <2>3. ASSUME NEW n \in 1..Len(askedIn) PROVE AnsweredOnce(n)'
    <3>1. SameEnd(n)
      BY <1>2, <2>1 DEF Closes
    <3>2. askedIn[n] \in Chats
      BY DEF PageTyped
    <3>3. Answered(n)' = Answered(n)
      BY <1>1, <2>1, <3>2 DEF Answered, Saved, ChatMessage
    <3> QED
      BY <1>1, <1>5, <3>1, <3>3, StaysAnswered DEF Stay
  <2> QED
    BY <1>1, <2>2, <2>3 DEF Stay
<1>8. ASSUME NEW k \in {"assistant", "error"}, rows' = Saved(k, Of), context' = context,
             Head(posted).kind \in {"answer", "error"}
      PROVE  Stay'
  <2>1. Apart'
    BY <1>1, <1>2, <1>4, <1>8, SavedIsOwn DEF Stay, Apart
  <2>2. ASSUME NEW n \in 1..Len(askedIn) PROVE AnsweredOnce(n)'
    <3>1. askedIn[n] \in Chats
      BY DEF PageTyped
    <3>2. CASE n = Of
      <4>1. Closes(Head(posted), n)
        BY <1>8, <3>2 DEF Closes, Of
      <4>2. ~NoCloser(posted, n) /\ (OneCloser(posted, n) => NoCloser(posted', n))
        BY <1>2, <4>1
      <4>3. ~Working(n) /\ NoCloser(posted', n) /\ Answered(n) = {}
        BY <4>2 DEF Stay, AnsweredOnce
      <4>4. rows'[askedIn[n]] = rows[askedIn[n]] \cup {ChatMessage(k, n)}
        BY <1>3, <1>8, <3>1, <3>2 DEF Saved
      <4>5. Answered(n)' = {ChatMessage(k, n)}
        BY <1>1, <1>8, <4>3, <4>4 DEF Answered, ChatMessage
      <4> QED
        BY <1>5, <4>3, <4>5 DEF AnsweredOnce
    <3>3. CASE n # Of
      <4>1. SameEnd(n)
        BY <1>2, <3>3 DEF Closes, Of
      <4>2. Answered(n)' = Answered(n)
        BY <1>1, <1>8, <3>1, <3>3 DEF Answered, Saved, ChatMessage
      <4> QED
        BY <1>1, <1>5, <4>1, <4>2, StaysAnswered DEF Stay
    <3> QED
      BY <3>2, <3>3
  <2> QED
    BY <1>1, <2>1, <2>2 DEF Stay
<1>9. CASE OnResponse
  BY <1>8, <1>9 DEF OnResponse, IsFirst
<1>10. CASE OnError
  BY <1>8, <1>10 DEF OnError, Handles, IsFirst
<1> QED
  BY <1>6, <1>7, <1>9, <1>10

\* Every step keeps the questions that are answered where they were asked.
LEMMA StayKept ==
  ASSUME PageTyped, Stay, [DesktopNext]_desktopVars, ~leftBehind'
  PROVE  Stay'
<1>1. CASE UNCHANGED desktopVars
  BY <1>1 DEF desktopVars, Stay, Apart, AnsweredOnce, Own, SignalOwn, Question, Working, Answered
<1>2. CASE OnNote \/ OnMessagesUpdated \/ OnResponse \/ OnError
  BY <1>2, HandlerStays
<1>3. ASSUME OnFinished \/ OnVoiceCommand \/ OnVoiceError \/ OnSpoken
      PROVE  /\ \A s \in InQueue(posted') : s \in InQueue(posted) \/ s.kind \notin Reports
             /\ \A n : SameEnd(n)
  <2>1. Head(posted).kind \notin Reports
    BY <1>3 DEF OnFinished, OnVoiceCommand, OnVoiceError, OnSpoken, Handles, IsFirst, Reports
  <2>2. \A n : ~Closes(Head(posted), n)
    BY <2>1 DEF Closes, Reports
  <2> QED
    BY <1>3, <2>2, TakesNews DEF WindowActs
<1>4. CASE OnFinished \/ OnVoiceError \/ OnSpoken
  <2>1. UNCHANGED <<askedIn, runner, rows, selected, context>>
    BY <1>4 DEF OnFinished, OnVoiceError, OnSpoken, chat
  <2> QED
    BY <1>3, <1>4, <2>1, QuietStays
<1>5. CASE OnVoiceCommand
  <2>1. QuestionGoes \/ UNCHANGED <<askedIn, runner, rows, selected, context>>
    BY <1>5 DEF OnVoiceCommand, CannotAsk, chat
  <2> QED
    BY <1>3, <1>5, <2>1, QuietStays, QuestionStays
<1>6. CASE WorkerActs
  BY <1>6, WorkerStays
<1>7. ASSUME PageUserActs \/ Hears \/ ListenerEnds \/ SpeechEnds
      PROVE  /\ \A s \in InQueue(posted') : s \in InQueue(posted) \/ s.kind \notin Reports
             /\ \A n : SameEnd(n)
  BY <1>7, PostsNews
<1>8. CASE UserSends
  <2>1. QuestionGoes \/ UNCHANGED <<askedIn, runner, rows, selected, context>>
    BY <1>8 DEF UserSends, CannotAsk, chat
  <2> QED
    BY <1>7, <1>8, <2>1, QuietStays, QuestionStays DEF PageUserActs
<1>9. CASE ClearChat \/ NewChat \/ \E c \in Chats : LoadChat(c)
  BY <1>9, TurnStays
<1>10. CASE ToggleVoice \/ Hears \/ ListenerEnds \/ SpeechEnds
  <2>1. UNCHANGED <<askedIn, runner, rows, selected, context>>
    BY <1>10 DEF ToggleVoice, Hears, ListenerEnds, SpeechEnds
  <2> QED
    BY <1>7, <1>10, <2>1, QuietStays DEF PageUserActs
<1> QED
  BY <1>1, <1>2, <1>4, <1>5, <1>6, <1>8, <1>9, <1>10 DEF DesktopNext, WindowActs, PageUserActs

\* Every step keeps the evidence with its chat.
LEMMA EvidenceKept ==
  ASSUME PageTyped, EvidenceOwn, [DesktopNext]_desktopVars
  PROVE  EvidenceOwn'
<1>1. CASE UNCHANGED <<askedIn, evidence>>
  BY <1>1 DEF EvidenceOwn
<1>2. CASE SharedReports
  <2>1. askedIn' = askedIn /\ runner.runs /\ Question \in 1..Len(askedIn) /\ askedIn[Question] \in Chats
    BY <1>2 DEF SharedReports, PageTyped, Question
  <2>2. evidence' = [evidence EXCEPT ![askedIn[Question]] = evidence[askedIn[Question]] \cup {Question}]
    BY <1>2, <2>1 DEF SharedReports, PageTyped
  <2> QED
    BY <2>1, <2>2 DEF EvidenceOwn, PageTyped
<1>3. CASE QuestionGoes /\ UNCHANGED evidence
  <2>1. /\ Len(askedIn') = Len(askedIn) + 1 /\ Len(askedIn) \in Nat
        /\ \A n \in 1..Len(askedIn) : askedIn'[n] = askedIn[n]
    BY <1>3, AskedGrows
  <2> QED
    BY <1>3, <2>1 DEF EvidenceOwn
<1>4. CASE UserSends \/ OnVoiceCommand
  BY <1>1, <1>3, <1>4 DEF UserSends, OnVoiceCommand, CannotAsk
<1>5. CASE UNCHANGED desktopVars
  BY <1>1, <1>5 DEF desktopVars
<1>6. CASE OnNote \/ OnMessagesUpdated \/ OnResponse \/ OnError \/ OnFinished \/ OnVoiceError \/ OnSpoken
           \/ TeamReports \/ WorkerEnds \/ ThreadFinishes
  BY <1>1, <1>6 DEF OnNote, OnMessagesUpdated, OnResponse, OnError, OnFinished, OnVoiceError, OnSpoken,
                    TeamReports, WorkerEnds, ThreadFinishes
<1>7. CASE ClearChat \/ NewChat \/ ToggleVoice \/ (\E c \in Chats : LoadChat(c)) \/ Hears \/ ListenerEnds
           \/ SpeechEnds
  BY <1>1, <1>7 DEF ClearChat, NewChat, ToggleVoice, LoadChat, Hears, ListenerEnds, SpeechEnds
<1> QED
  BY <1>2, <1>4, <1>5, <1>6, <1>7 DEF DesktopNext, WindowActs, WorkerActs, PageUserActs

\* Whether the user left is not forgotten.
LEMMA LeftStays ==
  ASSUME [DesktopNext]_desktopVars, ~leftBehind'
  PROVE  ~leftBehind
<1>1. CASE UNCHANGED leftBehind
  BY <1>1
<1>2. CASE NewChat \/ \E c \in Chats : LoadChat(c)
  BY <1>2 DEF NewChat, LoadChat
<1>3. CASE WindowActs
  BY <1>1, <1>3 DEF WindowActs, OnNote, OnMessagesUpdated, OnResponse, OnError, OnFinished, OnVoiceCommand,
                    OnVoiceError, OnSpoken, bounds
<1>4. CASE WorkerActs
  BY <1>1, <1>4 DEF WorkerActs, SharedReports, TeamReports, WorkerEnds, ThreadFinishes, bounds
<1>5. CASE UserSends \/ ClearChat \/ ToggleVoice \/ Hears \/ ListenerEnds \/ SpeechEnds
           \/ UNCHANGED desktopVars
  BY <1>1, <1>5 DEF UserSends, ClearChat, ToggleVoice, Hears, ListenerEnds, SpeechEnds, bounds, desktopVars
<1> QED
  BY <1>2, <1>3, <1>4, <1>5 DEF DesktopNext, PageUserActs

\* The three together hold in every state.
LEMMA ChatsInvariant == DesktopSpec => []ChatsInv
<1>1. DesktopInit => ChatsInv
  <2> SUFFICES ASSUME DesktopInit PROVE ChatsInv
    OBVIOUS
  <2>1. PageTyped
    BY PageStarts DEF SettleInv
  <2>2. InQueue(posted) = {} /\ Len(askedIn) = 0
    BY DEF DesktopInit, InQueue
  <2> QED
    BY <2>1, <2>2 DEF DesktopInit, ChatsInv, EvidenceOwn, Apart, Own, Question
<1>2. ChatsInv /\ [DesktopNext]_desktopVars => ChatsInv'
  BY PageTypedKept, EvidenceKept, StayKept, LeftStays DEF ChatsInv, Stay
<1> QED
  BY <1>1, <1>2, PTL DEF DesktopSpec

\* While the user stays, messages are those of their chat, and a question that is over has
\* one end; evidence is always the asking chat's (_send() and the handlers of chat_widget.py).
THEOREM ChatsKeepApart == DesktopSpec => []ChatsStayApart
<1>1. ChatsInv => ChatsStayApart
  <2> SUFFICES ASSUME ChatsInv PROVE ChatsStayApart
    OBVIOUS
  <2>1. \A c \in Chats : \A n \in evidence[c] : askedIn[n] = c
    BY DEF ChatsInv, EvidenceOwn
  <2> SUFFICES ASSUME ~leftBehind
               PROVE  /\ \A c \in Chats : BelongTo(rows[c], c)
                      /\ BelongTo(context, selected)
                      /\ Question > 0 => BelongTo(runner.with, askedIn[Question])
                      /\ ~OnItsWay => \A n \in DOMAIN askedIn :
                           Cardinality({m \in rows[askedIn[n]] : m.of = n /\ m.kind \in {"assistant", "error"}}) = 1
    BY <2>1 DEF ChatsStayApart
  <2>2. PageTyped /\ Apart /\ \A n \in 1..Len(askedIn) : AnsweredOnce(n)
    BY DEF ChatsInv
  <2>3. ASSUME ~OnItsWay, NEW n \in DOMAIN askedIn
        PROVE  Cardinality({m \in rows[askedIn[n]] : m.of = n /\ m.kind \in {"assistant", "error"}}) = 1
    <3>1. n \in 1..Len(askedIn) /\ n > 0
      BY <2>2, <2>3 DEF PageTyped
    <3>2. NoCloser(posted, n) /\ ~runner.runs
      BY <2>3, <3>1 DEF OnItsWay, NoCloser, Closes
    <3>3. ~OneCloser(posted, n)
      BY <3>2 DEF NoCloser, OneCloser
    <3>4. \E k : Answered(n) = {ChatMessage(k, n)}
      BY <2>2, <3>1, <3>2, <3>3 DEF AnsweredOnce, Working
    <3> QED
      BY <3>4, FS_Singleton DEF Answered
  <2> QED
    BY <2>2, <2>3 DEF Apart, Own, BelongTo
<1> QED
  BY <1>1, ChatsInvariant, PTL

--------------------------------------------------------------------------------
(* The change journal.  A record is written in several steps, between which   *)
(* others may change its target.  The invariant ties what the record holds to *)
(* what its call found and left, unless somebody came in between.             *)

HeldSets == SUBSET (Targets \X TargetValues)
Records == [kind : ChangeKinds \cup {"none"}, target : Targets, pre : HeldSets, set : HeldSets,
            post : TargetValues \cup {"none"}, ok : BOOLEAN,
            status : {"none", "unrecorded", "available", "unavailable", "failed", "completed"}]
Works == [pc : {"idle", "ready", "ran", "checked", "emptied"}, call : JournalCalls \cup {NoCall}]
AtWork == {"ready", "ran", "checked", "emptied"}
Known == {"available", "failed", "completed"}

\* The types the proofs need.
JournalTyped ==
  /\ state \in [Targets -> TargetValues]
  /\ job \in [Agents -> Works] /\ \A a \in Agents : job[a].pc \in AtWork => job[a].call \in JournalCalls
  /\ records \in [JournalCalls -> Records]
  /\ before \in [JournalCalls -> HeldSets] /\ left \in [JournalCalls -> HeldSets]
  /\ raced \subseteq JournalCalls

\* A value for a target: at most one.
Single(held) == \A p, q \in held : p[1] = q[1] => p[2] = q[2]

\* What a record's backup holds, against what its call found before it.
BackupFits(r, b) ==
  /\ r.kind \in {"file", "directory"} =>
       r.target \in Files /\ \E w \in TargetValues : b = {<<r.target, w>>} /\ r.pre = b
  /\ r.kind = "settings" =>
       /\ r.target = SettingsFile
       /\ \E w, x \in TargetValues :
            b = {<<SettingsFile, w>>} /\ r.pre = {<<SettingsFile, x>>} /\ (w \in Long \/ x = w)
  /\ r.kind = "workspace" =>
       /\ r.pre \subseteq b /\ Single(b)
       /\ \A tv \in b : tv[1] \in Files /\ (tv[1] \in LeftOut \/ tv[2] = Absent \/ tv \in r.pre)

\* What a record says its call left, against what the call left; out: somebody else changed
\* the target between two steps of the call.
ResultFits(r, l, out) ==
  /\ r.status \in Known => r.kind \in ChangeKinds
  /\ r.kind = "file" /\ r.ok /\ ~out =>
       \E x \in Contents : l = {<<r.target, x>>} /\ (r.status \in Known => r.post = x)
  /\ r.kind = "directory" /\ r.ok /\ ~out /\ r.pre = {<<r.target, Absent>>} =>
       l = {<<r.target, Directory>>}
  /\ r.kind = "directory" /\ r.status \in Known => r.pre = {<<r.target, Absent>>}
  /\ r.kind = "settings" =>
       \E v \in Contents : /\ r.set = {<<SettingsFile, v>>} /\ (r.ok => l = r.set)
                           /\ r.status \in Known => r.post = Cleaned(v)

RecordFits(c) == BackupFits(records[c], before[c]) /\ ResultFits(records[c], left[c], c \in raced)

\* What holds of an agent's call while the agent works on it.
JobFits(a) ==
  LET c == job[a].call
      r == records[c]
  IN job[a].pc \in AtWork =>
       /\ r.kind \in ChangeKinds
       /\ job[a].pc \in {"ready", "ran"} => r.status = "unrecorded"
       /\ job[a].pc = "ready" => ~r.ok
       /\ job[a].pc = "ran" /\ c \notin raced /\ r.kind # "workspace" =>
            left[c] = {<<r.target, state[r.target]>>}
       /\ job[a].pc \in {"checked", "emptied"} => r.status \in Known
       /\ job[a].pc = "checked" /\ c \notin raced => Allows(r)
       /\ job[a].pc = "emptied" => r.kind = "workspace"
       /\ job[a].pc = "emptied" /\ c \notin raced => \A f \in Files : state[f] = Absent

\* A call that runs is one agent's.
CallsApart ==
  \A a, b \in Agents : a # b /\ job[a].pc \in {"ready", "ran"} /\ job[b].pc \in AtWork =>
    job[a].call # job[b].call

JournalInv ==
  /\ JournalTyped /\ CallsApart
  /\ \A c \in JournalCalls : RecordFits(c)
  /\ \A a \in Agents : JobFits(a)

--------------------------------------------------------------------------------
\* What is put back stands on its target.
LEMMA PutsValue ==
  ASSUME NEW h, NEW t \in Targets, NEW v \in TargetValues, <<t, v>> \in h, Single(h)
  PROVE  Puts(h)[t] = v
<1>1. Puts(h)[t] = ValueIn(h, t)
  BY DEF Puts
<1>2. <<t, ValueIn(h, t)>> \in h
  BY DEF ValueIn
<1> QED
  BY <1>1, <1>2 DEF Single

\* Nothing else changes.
LEMMA PutsElsewhere ==
  ASSUME NEW h, NEW t \in Targets, \A v \in TargetValues : <<t, v>> \notin h
  PROVE  Puts(h)[t] = state[t]
BY DEF Puts

\* Putting back what was held leaves values.
LEMMA PutsTyped ==
  ASSUME state \in [Targets -> TargetValues], NEW h
  PROVE  Puts(h) \in [Targets -> TargetValues]
<1>1. ASSUME NEW t \in Targets, \E v \in TargetValues : <<t, v>> \in h
      PROVE  ValueIn(h, t) \in TargetValues
  BY <1>1 DEF ValueIn
<1> QED
  BY <1>1 DEF Puts

\* One value.
LEMMA OneIsSingle == ASSUME NEW t, NEW v PROVE Single({<<t, v>>})
BY DEF Single

\* One backup holds one value, ...
LEMMA OneValue ==
  ASSUME NEW t, NEW v, NEW w, {<<t, v>>} = {<<t, w>>}
  PROVE  v = w
<1>1. <<t, v>> \in {<<t, w>>}
  OBVIOUS
<1> QED
  BY <1>1

\* ... and puts it back.
LEMMA PutsOne ==
  ASSUME NEW t \in Targets, NEW v \in TargetValues
  PROVE  Puts({<<t, v>>})[t] = v
<1> DEFINE h == {<<t, v>>}
<1>1. <<t, v>> \in h
  OBVIOUS
<1>2. Single(h)
  BY OneIsSingle
<1> HIDE DEF h
<1>3. Puts(h)[t] = v
  BY <1>1, <1>2, PutsValue
<1> QED
  BY <1>3 DEF h

\* Who changes the target of another's call marks it.
LEMMA Undisturbed ==
  ASSUME NEW S, Disturbed(S) \subseteq raced', NEW a \in Agents \ S, job[a].pc \in AtWork,
         job[a].call \in JournalCalls, job[a].call \notin raced', NEW t \in Targets,
         t = records[job[a].call].target \/ records[job[a].call].kind = "workspace"
  PROVE  state'[t] = state[t]
BY DEF Disturbed, AtWork

\* The raced calls only grow in number.
LEMMA RacedStays ==
  ASSUME NEW r, NEW l, NEW c, NEW s, NEW s2, s \subseteq s2, ResultFits(r, l, c \in s)
  PROVE  ResultFits(r, l, c \in s2)
BY DEF ResultFits

--------------------------------------------------------------------------------
\* No call has changed anything yet.
LEMMA JournalInitInv == JournalInit => JournalInv
<1> SUFFICES ASSUME JournalInit PROVE JournalInv
  OBVIOUS
<1> USE DEF JournalInit
<1>1. state \in [Targets -> TargetValues]
  <2>1. (CHOOSE c \in Contents : c # Clipped) \in Contents
    BY JournalAssumption
  <2> QED
    BY <2>1 DEF Targets, TargetValues
<1>2. NoRecord \in Records /\ NoRecord.kind = "none" /\ NoJob \in Works /\ NoJob.pc = "idle"
  BY DEF NoRecord, Records, Targets, HeldSets, NoJob, Works
<1>3. JournalTyped
  BY <1>1, <1>2 DEF JournalTyped, HeldSets, AtWork
<1>4. CallsApart /\ \A a \in Agents : JobFits(a)
  BY <1>2 DEF CallsApart, JobFits, AtWork
<1>5. \A c \in JournalCalls : RecordFits(c)
  BY <1>2 DEF RecordFits, BackupFits, ResultFits, Known, NoRecord
<1> QED
  BY <1>3, <1>4, <1>5 DEF JournalInv

\* What an agent at work knows of its call.
LEMMA OwnCall ==
  ASSUME JournalInv, NEW a \in Agents, job[a].pc \in AtWork
  PROVE  /\ job[a] \in Works /\ job[a].call \in JournalCalls /\ records[job[a].call] \in Records
         /\ RecordFits(job[a].call) /\ JobFits(a)
         /\ records[job[a].call].target \in Targets
BY DEF JournalInv, JournalTyped, Records

\* What is known of an agent's work stays while others step: they may change its record's
\* status, once it undoes the call, and nobody but the agent a target that is not marked.
LEMMA WorkStays ==
  ASSUME JournalInv, NEW S, NEW b \in Agents \ S, job'[b] = job[b],
         raced \subseteq raced', Disturbed(S) \subseteq raced',
         job[b].pc \in AtWork =>
           \/ records'[job[b].call] = records[job[b].call] /\ left'[job[b].call] = left[job[b].call]
           \/ /\ job[b].pc \in {"checked", "emptied"} /\ records'[job[b].call].status \in Known
              /\ records'[job[b].call].kind = records[job[b].call].kind
              /\ records'[job[b].call].target = records[job[b].call].target
              /\ records'[job[b].call].post = records[job[b].call].post
  PROVE  JobFits(b)'
<1> USE DEF AtWork
<1> SUFFICES ASSUME job[b].pc \in AtWork PROVE JobFits(b)'
  BY DEF JobFits
<1>1. PICK d \in JournalCalls : d = job[b].call
  BY DEF JournalInv, JournalTyped
<1>2. JobFits(b) /\ records[d].target \in Targets /\ records[d].kind \in ChangeKinds
  BY <1>1, OwnCall DEF JobFits
<1>3. ASSUME d \notin raced', NEW t \in Targets,
             t = records[d].target \/ records[d].kind = "workspace"
      PROVE  state'[t] = state[t]
  BY <1>1, <1>3, Undisturbed
<1>4. /\ records'[d].kind = records[d].kind /\ records'[d].target = records[d].target
      /\ records'[d].post = records[d].post
  BY <1>1
<1>5. job[b].pc = "checked" /\ d \notin raced' => Allows(records[d])'
  <2> SUFFICES ASSUME job[b].pc = "checked", d \notin raced' PROVE Allows(records[d])'
    OBVIOUS
  <2>1. Allows(records[d])
    BY <1>1, <1>2 DEF JobFits
  <2>2. state'[records[d].target] = state[records[d].target]
    BY <1>2, <1>3
  <2>3. records[d].kind = "settings" => records[d].target = SettingsFile
    BY DEF JournalInv, RecordFits, BackupFits
  <2> QED
    BY <1>2, <1>4, <2>1, <2>2, <2>3 DEF Allows, Fits, ChangeKinds
<1>6. job[b].pc = "emptied" /\ d \notin raced' => \A f \in Files : state'[f] = Absent
  BY <1>1, <1>2, <1>3 DEF JobFits, Targets
<1>7. CASE records'[d] = records[d] /\ left'[d] = left[d]
  <2>1. job[b].pc = "ran" /\ d \notin raced' /\ records[d].kind # "workspace" =>
          left'[d] = {<<records[d].target, state'[records[d].target]>>}
    BY <1>1, <1>2, <1>3, <1>7 DEF JobFits
  <2> QED
    BY <1>1, <1>2, <1>5, <1>6, <1>7, <2>1 DEF JobFits
<1>8. CASE job[b].pc \in {"checked", "emptied"} /\ records'[d].status \in Known
  BY <1>1, <1>2, <1>4, <1>5, <1>6, <1>8 DEF JobFits
<1> QED
  BY <1>1, <1>7, <1>8

\* A step of agent a that leaves q as its work and r as the record of call c keeps the
\* invariant if it fits its own work and record.
LEMMA JournalStepKeeps ==
  ASSUME JournalInv, NEW a \in Agents, NEW c \in JournalCalls, NEW q \in Works, NEW r \in Records,
         job' = [job EXCEPT ![a] = q], records' = [records EXCEPT ![c] = r],
         raced \subseteq raced', Disturbed({a}) \subseteq raced', raced' \subseteq JournalCalls,
         \A b \in Agents \ {a} : job[b].pc \in AtWork /\ job[b].call = c =>
           /\ job[b].pc \in {"checked", "emptied"} /\ r.status \in Known
           /\ r.kind = records[c].kind /\ r.target = records[c].target /\ r.post = records[c].post
           /\ q.pc \notin {"ready", "ran"},
         state' \in [Targets -> TargetValues],
         before' \in [JournalCalls -> HeldSets], left' \in [JournalCalls -> HeldSets],
         \A d \in JournalCalls \ {c} : left'[d] = left[d] /\ before'[d] = before[d],
         q.pc \in AtWork => q.call = c, JobFits(a)',
         BackupFits(r, before'[c]), ResultFits(r, left'[c], c \in raced')
  PROVE  JournalInv'
<1>1. job'[a] = q /\ \A b \in Agents \ {a} : job'[b] = job[b]
  BY DEF JournalInv, JournalTyped
<1>2. records'[c] = r /\ \A d \in JournalCalls \ {c} : records'[d] = records[d]
  BY DEF JournalInv, JournalTyped
<1>3. JournalTyped'
  BY <1>1 DEF JournalInv, JournalTyped
<1>4. CallsApart'
  <2> SUFFICES ASSUME NEW x \in Agents, NEW y \in Agents, x # y,
                      job'[x].pc \in {"ready", "ran"}, job'[y].pc \in AtWork
               PROVE  job'[x].call # job'[y].call
    BY DEF CallsApart
  <2>1. CASE x = a
    BY <1>1, <2>1 DEF AtWork
  <2>2. CASE y = a
    BY <1>1, <2>2 DEF AtWork
  <2>3. CASE x # a /\ y # a
    BY <1>1, <2>3 DEF JournalInv, CallsApart
  <2> QED
    BY <2>1, <2>2, <2>3
<1>5. ASSUME NEW d \in JournalCalls PROVE RecordFits(d)'
  <2>1. CASE d = c
    BY <1>2, <2>1 DEF RecordFits
  <2>2. CASE d # c
    <3>1. RecordFits(d) /\ records'[d] = records[d] /\ left'[d] = left[d] /\ before'[d] = before[d]
      BY <1>2, <2>2 DEF JournalInv
    <3>2. ResultFits(records[d], left[d], d \in raced')
      BY <3>1, RacedStays DEF RecordFits
    <3> QED
      BY <3>1, <3>2 DEF RecordFits
  <2> QED
    BY <2>1, <2>2
<1>6. ASSUME NEW b \in Agents \ {a} PROVE JobFits(b)'
  <2>1. job'[b] = job[b]
    BY <1>1
  <2>2. CASE job[b].pc \in AtWork /\ job[b].call = c
    <3>1. /\ job[b].pc \in {"checked", "emptied"} /\ records'[c].status \in Known
          /\ records'[c].kind = records[c].kind /\ records'[c].target = records[c].target
          /\ records'[c].post = records[c].post
      BY <1>2, <2>2
    <3> QED
      BY <2>1, <2>2, <3>1, WorkStays
  <2>3. CASE job[b].pc \in AtWork /\ job[b].call # c
    <3>1. job[b].call \in JournalCalls
      BY <2>3 DEF JournalInv, JournalTyped
    <3>2. records'[job[b].call] = records[job[b].call] /\ left'[job[b].call] = left[job[b].call]
      BY <1>2, <2>3, <3>1
    <3> QED
      BY <2>1, <2>3, <3>2, WorkStays
  <2>4. CASE job[b].pc \notin AtWork
    BY <2>1, <2>4 DEF JobFits
  <2> QED
    BY <2>2, <2>3, <2>4
<1> QED
  BY <1>3, <1>4, <1>5, <1>6 DEF JournalInv

\* Where the targets stay as they are, nobody is disturbed.
LEMMA NobodyDisturbed == ASSUME NEW S, state' = state PROVE Disturbed(S) = {}
BY DEF Disturbed

\* A call that has no record is nobody's.
LEMMA FreshCall ==
  ASSUME JournalInv, NEW c \in JournalCalls, records[c] = NoRecord, NEW b \in Agents,
         job[b].pc \in AtWork
  PROVE  job[b].call # c
BY DEF JournalInv, JobFits, NoRecord, ChangeKinds

\* What stands on some targets is a held set with a value for each.
LEMMA HeldFits ==
  ASSUME state \in [Targets -> TargetValues], NEW ts \in SUBSET Targets
  PROVE  /\ Held(ts) \in HeldSets /\ Single(Held(ts))
         /\ \A tv \in Held(ts) : tv[1] \in ts /\ tv[2] = state[tv[1]]
BY DEF Held, HeldSets, Single

\* A call is prepared: what its target holds is kept as its backup.
LEMMA PrepareKeeps ==
  ASSUME JournalInv, NEW a \in Agents, NEW kind \in ChangeKinds, NEW t \in Targets,
         Prepare(a, kind, t)
  PROVE  JournalInv'
<1> USE DEF AtWork
<1>1. PICK c \in JournalCalls, v \in Contents :
        /\ records[c] = NoRecord
        /\ job' = [job EXCEPT ![a] = [pc |-> "ready", call |-> c]]
        /\ records' = [records EXCEPT ![c] =
                         [kind |-> kind, target |-> t, pre |-> Backup(kind, t),
                          set |-> IF kind = "settings" THEN {<<t, v>>} ELSE {}, post |-> "none",
                          ok |-> FALSE, status |-> "unrecorded"]]
        /\ before' = [before EXCEPT ![c] = Held(IF kind = "workspace" THEN Files ELSE {t})]
  BY DEF Prepare
<1> DEFINE b == Backup(kind, t)
           f == Held(IF kind = "workspace" THEN Files ELSE {t})
           s == IF kind = "settings" THEN {<<t, v>>} ELSE {}
           q == [pc |-> "ready", call |-> c]
           r == [kind |-> kind, target |-> t, pre |-> b, set |-> s, post |-> "none",
                 ok |-> FALSE, status |-> "unrecorded"]
<1>2. state' = state /\ left' = left /\ raced' = raced
  BY DEF Prepare
<1>3. JournalTyped /\ (kind \notin {"file", "directory"} => t = SettingsFile)
      /\ (kind \in {"file", "directory"} => t \in Files)
  BY DEF Prepare, Targets, JournalInv
<1>4. b \in HeldSets /\ f \in HeldSets
  BY <1>3, HeldFits DEF Backup, Archived, Targets, JournalTyped
<1>5. s \in HeldSets
  BY DEF HeldSets, TargetValues
<1>6. r \in Records /\ q \in Works
  BY <1>4, <1>5 DEF Records, Works
<1>7. BackupFits(r, f)
  <2>1. CASE kind \in {"file", "directory"}
    <3>1. b = {<<t, state[t]>>} /\ f = b
      BY <2>1 DEF Backup, Held
    <3> QED
      BY <1>3, <2>1, <3>1 DEF BackupFits, JournalTyped
  <2>2. CASE kind = "settings"
    <3>1. b = {<<t, state[t]>>} /\ f = b
      BY <1>3, <2>2 DEF Backup, Held
    <3> QED
      BY <1>3, <2>2, <3>1 DEF BackupFits, JournalTyped
  <2>3. CASE kind = "workspace"
    <3>1. f = Held(Files) /\ b = Held(Archived) /\ Files \subseteq Targets
      BY <2>3 DEF Backup, Targets
    <3>2. b \subseteq f
      BY <3>1 DEF Held, Archived
    <3>3. ASSUME NEW tv \in f PROVE tv[1] \in Files /\ (tv[1] \in LeftOut \/ tv[2] = Absent \/ tv \in b)
      BY <3>1 DEF Held, Archived
    <3> HIDE DEF b, f
    <3>4. Single(f)
      BY <1>3, <3>1, HeldFits DEF JournalTyped
    <3> QED
      BY <2>3, <3>2, <3>3, <3>4 DEF BackupFits
  <2> QED
    BY <2>1, <2>2, <2>3 DEF ChangeKinds
<1>8. ResultFits(r, left[c], c \in raced)
  BY <1>3 DEF ResultFits, Known
<1>9. job'[a] = q /\ records'[c] = r /\ before'[c] = f
  BY <1>1, <1>3 DEF JournalTyped
<1> HIDE DEF b, f, s
<1>10. JobFits(a)'
  BY <1>9 DEF JobFits
<1>11. Disturbed({a}) = {}
  BY <1>2, NobodyDisturbed
<1>12. job' = [job EXCEPT ![a] = q] /\ records' = [records EXCEPT ![c] = r]
       /\ before' = [before EXCEPT ![c] = f]
  BY <1>1 DEF b, s, f
<1>13. \A d \in Agents \ {a} : job[d].pc \in AtWork /\ job[d].call = c =>
         /\ job[d].pc \in {"checked", "emptied"} /\ r.status \in Known
         /\ r.kind = records[c].kind /\ r.target = records[c].target /\ r.post = records[c].post
         /\ q.pc \notin {"ready", "ran"}
  BY <1>1, FreshCall
<1>14. q.pc \in AtWork => q.call = c
  OBVIOUS
<1>15. before' \in [JournalCalls -> HeldSets] /\ \A d \in JournalCalls \ {c} : before'[d] = before[d]
  BY <1>3, <1>4, <1>12 DEF JournalTyped
<1>16. ResultFits(r, left'[c], c \in raced') /\ BackupFits(r, before'[c])
  BY <1>2, <1>7, <1>8, <1>9
<1>17. raced \subseteq raced' /\ Disturbed({a}) \subseteq raced' /\ raced' \subseteq JournalCalls
  BY <1>2, <1>3, <1>11 DEF JournalTyped
<1>18. /\ state' \in [Targets -> TargetValues] /\ left' \in [JournalCalls -> HeldSets]
       /\ \A d \in JournalCalls \ {c} : left'[d] = left[d] /\ before'[d] = before[d]
  BY <1>2, <1>3, <1>15 DEF JournalTyped
<1> HIDE DEF q, r
<1> QED
  BY <1>6, <1>10, <1>12, <1>13, <1>14, <1>15, <1>16, <1>17, <1>18, JournalStepKeeps

\* The call runs, and may change its target or fail.
LEMMA ExecuteKeeps ==
  ASSUME JournalInv, NEW a \in Agents, Execute(a)
  PROVE  JournalInv'
<1> USE DEF AtWork
<1> DEFINE c == job[a].call
           r == records[c]
           t == r.target
<1>1. PICK ok \in BOOLEAN :
        /\ state' \in Effects(r, ok)
        /\ records' = [records EXCEPT ![c].ok = ok]
        /\ job' = [job EXCEPT ![a].pc = "ran"]
        /\ left' = [left EXCEPT ![c] = {<<t, state'[t]>>}]
        /\ raced' = raced \cup Disturbed({a})
                      \cup (IF r.kind # "workspace" /\ before[c] # Held({t}) THEN {c} ELSE {})
  BY DEF Execute
<1> DEFINE q == [pc |-> "ran", call |-> c]
           r2 == [r EXCEPT !.ok = ok]
           l == {<<t, state'[t]>>}
<1>2. job[a].pc = "ready" /\ before' = before
  BY DEF Execute
<1>3. JournalTyped /\ c \in JournalCalls /\ r \in Records /\ t \in Targets
      /\ BackupFits(r, before[c]) /\ ResultFits(r, left[c], c \in raced)
  BY <1>2, OwnCall DEF JournalInv, RecordFits
<1>4. r.kind \in ChangeKinds /\ r.status = "unrecorded" /\ ~r.ok
  BY <1>2 DEF JournalInv, JobFits
<1>5. job' = [job EXCEPT ![a] = q] /\ records' = [records EXCEPT ![c] = r2]
  <2>1. job[a] \in Works
    BY <1>3 DEF JournalTyped
  <2>2. [job[a] EXCEPT !.pc = "ran"] = q
    BY <2>1 DEF Works
  <2>3. job' = [job EXCEPT ![a] = [job[a] EXCEPT !.pc = "ran"]]
    BY <1>1, <1>3 DEF JournalTyped
  <2>4. records' = [records EXCEPT ![c] = r2]
    BY <1>1, <1>3 DEF JournalTyped
  <2> QED
    BY <2>2, <2>3, <2>4
<1>6. q \in Works /\ r2 \in Records /\ r2.kind = r.kind /\ r2.target = t /\ r2.pre = r.pre
      /\ r2.set = r.set /\ r2.status = "unrecorded" /\ r2.ok = ok
  BY <1>3, <1>4 DEF Works, Records
<1>7. state' \in [Targets -> TargetValues]
  <2>1. state \in [Targets -> TargetValues]
    BY <1>3 DEF JournalTyped
  <2>2. CASE state' = state
    BY <2>1, <2>2
  <2>3. CASE r.kind = "file" /\ state' # state
    <3>1. PICK v \in Contents : state' = Puts({<<t, v>>})
      BY <1>1, <2>3 DEF Effects
    <3> QED
      BY <2>1, <3>1, PutsTyped
  <2>4. CASE r.kind = "directory" /\ state' # state
    <3>1. state' = Puts({<<t, Directory>>})
      BY <1>1, <2>4 DEF Effects
    <3> QED
      BY <2>1, <3>1, PutsTyped
  <2>5. CASE r.kind = "settings" /\ state' # state
    <3>1. state' = Puts(r.set)
      BY <1>1, <2>5 DEF Effects
    <3> QED
      BY <2>1, <3>1, PutsTyped
  <2>6. CASE r.kind = "workspace" /\ state' # state
    <3>1. PICK f \in Files, v \in TargetValues : state' = Puts({<<f, v>>})
      BY <1>1, <2>6 DEF Effects
    <3> QED
      BY <2>1, <3>1, PutsTyped
  <2> QED
    BY <1>4, <2>2, <2>3, <2>4, <2>5, <2>6 DEF ChangeKinds
<1>8. l \in HeldSets /\ left' \in [JournalCalls -> HeldSets]
  BY <1>1, <1>3, <1>7 DEF HeldSets, JournalTyped
<1>9. BackupFits(r2, before[c])
  BY <1>3, <1>6 DEF BackupFits
<1>10. ResultFits(r2, l, c \in raced')
  <2>1. ASSUME r.kind = "file", ok PROVE \E x \in Contents : l = {<<t, x>>}
    <3>1. PICK v \in Contents : state' = Puts({<<t, v>>})
      BY <1>1, <2>1 DEF Effects
    <3>2. v \in TargetValues /\ t \in Targets
      BY <1>3 DEF TargetValues
    <3>3. Puts({<<t, v>>})[t] = v
      BY <3>2, PutsOne
    <3> QED
      BY <3>1, <3>3
  <2>2. ASSUME r.kind = "directory", ok, c \notin raced', r.pre = {<<t, Absent>>}
        PROVE  l = {<<t, Directory>>}
    <3>1. before[c] = {<<t, state[t]>>}
      BY <1>1, <2>2 DEF Held
    <3>2. state[t] = Absent
      <4>1. r.pre = before[c]
        BY <1>3, <2>2 DEF BackupFits
      <4> QED
        BY <2>2, <3>1, <4>1, OneValue
    <3>3. state' = Puts({<<t, Directory>>})
      BY <1>1, <2>2, <3>2 DEF Effects
    <3>4. state'[t] = Directory
      BY <1>3, <3>3, PutsOne DEF TargetValues
    <3> QED
      BY <3>4
  <2>3. ASSUME r.kind = "settings"
        PROVE  \E v \in Contents : r.set = {<<SettingsFile, v>>} /\ (ok => l = r.set)
    <3>1. PICK v \in Contents : r.set = {<<SettingsFile, v>>}
      BY <1>3, <2>3 DEF ResultFits
    <3>2. t = SettingsFile
      BY <1>3, <2>3 DEF BackupFits
    <3>3. ok => state' = Puts({<<t, v>>})
      BY <1>1, <2>3, <3>1, <3>2 DEF Effects
    <3>4. Puts({<<t, v>>})[t] = v
      <4>1. v \in TargetValues /\ t \in Targets /\ <<t, v>> \in {<<t, v>>}
        BY <1>3 DEF TargetValues
      <4>2. Single({<<t, v>>})
        BY OneIsSingle
      <4> HIDE DEF t
      <4> QED
        BY <4>1, <4>2, PutsValue
    <3> QED
      BY <3>1, <3>2, <3>3, <3>4
  <2>4. r.kind = "directory" /\ r2.status \in Known => FALSE
    BY <1>6 DEF Known
  <2> HIDE DEF l, r2
  <2> QED
    BY <1>6, <2>1, <2>2, <2>3, <2>4 DEF ResultFits, Known
<1>11. job'[a] = q /\ records'[c] = r2 /\ left'[c] = l
  BY <1>1, <1>3, <1>5 DEF JournalTyped
<1>12. JobFits(a)'
  <2>1. job'[a].pc = "ran" /\ job'[a].call = c
    BY <1>11
  <2>2. /\ records'[c].kind \in ChangeKinds /\ records'[c].status = "unrecorded"
        /\ left'[c] = {<<records'[c].target, state'[records'[c].target]>>}
    BY <1>4, <1>6, <1>11
  <2> HIDE DEF c
  <2> QED
    BY <2>1, <2>2 DEF JobFits
<1>13. \A d \in Agents \ {a} : job[d].pc \in AtWork /\ job[d].call = c =>
         /\ job[d].pc \in {"checked", "emptied"} /\ r2.status \in Known
         /\ r2.kind = records[c].kind /\ r2.target = records[c].target /\ r2.post = records[c].post
         /\ q.pc \notin {"ready", "ran"}
  BY <1>2 DEF JournalInv, CallsApart
<1>14. raced \subseteq raced' /\ Disturbed({a}) \subseteq raced' /\ raced' \subseteq JournalCalls
  BY <1>1, <1>3 DEF JournalTyped, Disturbed
<1>15. /\ before' \in [JournalCalls -> HeldSets]
       /\ \A d \in JournalCalls \ {c} : left'[d] = left[d] /\ before'[d] = before[d]
  BY <1>1, <1>2, <1>3 DEF JournalTyped
<1>16. ResultFits(r2, left'[c], c \in raced') /\ BackupFits(r2, before'[c])
  BY <1>2, <1>9, <1>10, <1>11
<1>17. q.pc \in AtWork => q.call = c
  OBVIOUS
<1> HIDE DEF q, r2, l, c
<1> QED
  BY <1>3, <1>5, <1>6, <1>7, <1>8, <1>12, <1>13, <1>14, <1>15, <1>16, <1>17, JournalStepKeeps

\* The one value of a target.
LEMMA ValueOfOne ==
  ASSUME NEW t, NEW v \in TargetValues
  PROVE  ValueIn({<<t, v>>}, t) = v
<1>1. <<t, ValueIn({<<t, v>>}, t)>> \in {<<t, v>>}
  BY DEF ValueIn
<1> QED
  BY <1>1

\* A value cut down is a value.
LEMMA CleanedTyped == ASSUME NEW v \in TargetValues PROVE Cleaned(v) \in TargetValues
BY JournalAssumption DEF Cleaned, TargetValues

\* The result is recorded, when the backup and the result are as they should be.
LEMMA RecordKeeps ==
  ASSUME JournalInv, NEW a \in Agents, Record(a)
  PROVE  JournalInv'
<1> USE DEF AtWork
<1> DEFINE c == job[a].call
           r == records[c]
           t == r.target
           kept == IF r.kind = "settings"
                   THEN {<<u, Cleaned(ValueIn(r.pre, u))>> : u \in {SettingsFile}} ELSE r.pre
<1>1. PICK status \in {IF Reversible(r) THEN "available" ELSE "unavailable", "unrecorded"} :
        records' = [records EXCEPT ![c] = [r EXCEPT !.post = Hash(r), !.pre = kept, !.status = status]]
  BY DEF Record
<1> DEFINE r2 == [r EXCEPT !.post = Hash(r), !.pre = kept, !.status = status]
<1>2. /\ job[a].pc = "ran" /\ job' = [job EXCEPT ![a] = NoJob]
      /\ state' = state /\ before' = before /\ left' = left /\ raced' = raced
  BY DEF Record
<1>3. JournalTyped /\ c \in JournalCalls /\ r \in Records /\ t \in Targets
      /\ BackupFits(r, before[c]) /\ ResultFits(r, left[c], c \in raced)
  BY <1>2, OwnCall DEF JournalInv, RecordFits
<1>4. r.kind \in ChangeKinds /\ r.status = "unrecorded" /\ NoJob \in Works /\ NoJob.pc = "idle"
      /\ (c \notin raced /\ r.kind # "workspace" => left[c] = {<<t, state[t]>>})
  BY <1>2 DEF JournalInv, JobFits, NoJob, Works
<1>5. ASSUME r.kind = "settings"
      PROVE  /\ t = SettingsFile
             /\ \E w, x \in TargetValues :
                  before[c] = {<<SettingsFile, w>>} /\ kept = {<<SettingsFile, x>>} /\ (w \in Long \/ x = w)
             /\ \E v \in Contents : r.set = {<<SettingsFile, v>>} /\ (r.ok => left[c] = r.set)
                                    /\ Hash(r) = Cleaned(v)
  <2>1. PICK w \in TargetValues, x \in TargetValues :
          before[c] = {<<SettingsFile, w>>} /\ r.pre = {<<SettingsFile, x>>} /\ (w \in Long \/ x = w)
    BY <1>3, <1>5 DEF BackupFits
  <2>2. PICK v \in Contents : r.set = {<<SettingsFile, v>>} /\ (r.ok => left[c] = r.set)
    BY <1>3, <1>5 DEF ResultFits
  <2>3. Hash(r) = Cleaned(ValueIn(r.set, SettingsFile))
    BY <1>5 DEF Hash
  <2>4. ValueIn(r.set, SettingsFile) = v /\ ValueIn(r.pre, SettingsFile) = x
    BY <2>1, <2>2, ValueOfOne DEF TargetValues
  <2>5. kept = {<<SettingsFile, Cleaned(x)>>}
    BY <1>5, <2>4
  <2>6. Cleaned(x) \in TargetValues /\ (w \in Long \/ Cleaned(x) = w)
    BY <2>1, CleanedTyped DEF Cleaned
  <2> HIDE DEF kept
  <2> QED
    BY <1>3, <1>5, <2>1, <2>2, <2>3, <2>4, <2>5, <2>6 DEF BackupFits
<1>6. Hash(r) \in TargetValues \cup {"none"}
  <2>1. state[t] \in TargetValues
    BY <1>3 DEF JournalTyped
  <2>2. CASE r.kind = "settings"
    BY <1>5, <2>2, CleanedTyped DEF TargetValues
  <2>3. CASE r.kind # "settings"
    BY <2>1, <2>3 DEF Hash
  <2> QED
    BY <2>2, <2>3
<1>7. kept \in HeldSets
  <2>1. CASE r.kind = "settings"
    BY <1>3, <1>5, <2>1 DEF HeldSets
  <2>2. CASE r.kind # "settings"
    BY <1>3, <2>2 DEF Records
  <2> QED
    BY <2>1, <2>2
<1> HIDE DEF kept
<1>8. status \in {"unrecorded", "available", "unavailable"} /\ (status = "available" => Reversible(r))
  BY <1>1
<1>9. r2 \in Records /\ r2.kind = r.kind /\ r2.target = t /\ r2.set = r.set /\ r2.ok = r.ok
      /\ r2.post = Hash(r) /\ r2.pre = kept /\ r2.status = status
  BY <1>3, <1>6, <1>7, <1>8 DEF Records
<1>10. r.kind # "settings" => kept = r.pre
  BY DEF kept
<1> HIDE DEF r2
<1>11. BackupFits(r2, before[c])
  <2>1. CASE r.kind = "settings"
    BY <1>5, <1>9, <2>1 DEF BackupFits
  <2>2. CASE r.kind # "settings"
    BY <1>3, <1>9, <1>10, <2>2 DEF BackupFits
  <2> QED
    BY <2>1, <2>2
<1>12. ResultFits(r2, left[c], c \in raced)
  <2>1. ASSUME r.kind = "file", r.ok, c \notin raced
        PROVE  \E x \in Contents : left[c] = {<<t, x>>} /\ Hash(r) = x
    <3>1. PICK x \in Contents : left[c] = {<<t, x>>}
      BY <1>3, <2>1 DEF ResultFits
    <3>2. state[t] = x
      <4>1. <<t, state[t]>> \in {<<t, x>>}
        BY <1>4, <2>1, <3>1
      <4> QED
        BY <4>1
    <3>3. Hash(r) = x
      BY <2>1, <3>2, JournalAssumption DEF Hash, Regular
    <3> QED
      BY <3>1, <3>3
  <2>2. ASSUME r.kind = "directory"
        PROVE  /\ r.ok /\ c \notin raced /\ kept = {<<t, Absent>>} => left[c] = {<<t, Directory>>}
               /\ status = "available" => kept = {<<t, Absent>>}
    BY <1>3, <1>8, <1>10, <2>2 DEF ResultFits, Reversible
  <2>3. r2.status \in Known => status = "available"
    BY <1>8, <1>9 DEF Known
  <2> QED
    BY <1>4, <1>5, <1>9, <2>1, <2>2, <2>3 DEF ResultFits
<1>13. job'[a] = NoJob /\ records' = [records EXCEPT ![c] = r2]
  BY <1>1, <1>2, <1>3 DEF JournalTyped, r2
<1>14. JobFits(a)'
  BY <1>4, <1>13 DEF JobFits
<1>15. \A d \in Agents \ {a} : job[d].pc \in AtWork /\ job[d].call = c =>
         /\ job[d].pc \in {"checked", "emptied"} /\ r2.status \in Known
         /\ r2.kind = records[c].kind /\ r2.target = records[c].target /\ r2.post = records[c].post
         /\ NoJob.pc \notin {"ready", "ran"}
  BY <1>2 DEF JournalInv, CallsApart
<1>16. Disturbed({a}) = {}
  BY <1>2, NobodyDisturbed
<1>17. ResultFits(r2, left'[c], c \in raced') /\ BackupFits(r2, before'[c])
  BY <1>2, <1>11, <1>12
<1>18. raced \subseteq raced' /\ Disturbed({a}) \subseteq raced' /\ raced' \subseteq JournalCalls
  BY <1>2, <1>3, <1>16 DEF JournalTyped
<1>19. /\ state' \in [Targets -> TargetValues] /\ left' \in [JournalCalls -> HeldSets]
       /\ before' \in [JournalCalls -> HeldSets]
       /\ \A d \in JournalCalls \ {c} : left'[d] = left[d] /\ before'[d] = before[d]
  BY <1>2, <1>3 DEF JournalTyped
<1>20. NoJob.pc \in AtWork => NoJob.call = c
  BY <1>4
<1>21. job' = [job EXCEPT ![a] = NoJob]
  BY <1>2
<1> HIDE DEF c
<1> QED
  BY <1>3, <1>4, <1>9, <1>13, <1>14, <1>15, <1>17, <1>18, <1>19, <1>20, <1>21, JournalStepKeeps

\* A step of an undo: the record keeps all but its status.
LEMMA UndoStepKeeps ==
  ASSUME JournalInv, NEW a \in Agents, NEW c \in JournalCalls, records[c].status \in Known,
         NEW q \in Works, q.pc \notin {"ready", "ran"}, q.pc \in AtWork => q.call = c,
         NEW s \in Known, records' = [records EXCEPT ![c].status = s],
         job' = [job EXCEPT ![a] = q], JobFits(a)', state' \in [Targets -> TargetValues],
         raced' = raced \cup Disturbed({a}), before' = before, left' = left
  PROVE  JournalInv'
<1> USE DEF AtWork
<1> DEFINE r == records[c]
           r2 == [r EXCEPT !.status = s]
<1>1. JournalTyped /\ r \in Records /\ BackupFits(r, before[c]) /\ ResultFits(r, left[c], c \in raced)
  BY DEF JournalInv, JournalTyped, RecordFits
<1>2. r2 \in Records /\ r2.kind = r.kind /\ r2.target = r.target /\ r2.pre = r.pre
      /\ r2.set = r.set /\ r2.ok = r.ok /\ r2.post = r.post /\ r2.status = s
  BY <1>1 DEF Records, Known
<1>3. records' = [records EXCEPT ![c] = r2]
  BY <1>1 DEF JournalTyped
<1> HIDE DEF r2
<1>4. BackupFits(r2, before'[c])
  BY <1>1, <1>2 DEF BackupFits
<1>5. ResultFits(r2, left'[c], c \in raced)
  <2> HIDE DEF r
  <2> QED
    BY <1>1, <1>2 DEF ResultFits, r
<1>6. ResultFits(r2, left'[c], c \in raced')
  BY <1>5, RacedStays
<1>7. \A d \in Agents \ {a} : job[d].pc \in AtWork /\ job[d].call = c =>
         /\ job[d].pc \in {"checked", "emptied"} /\ r2.status \in Known
         /\ r2.kind = records[c].kind /\ r2.target = records[c].target /\ r2.post = records[c].post
         /\ q.pc \notin {"ready", "ran"}
  BY <1>2 DEF JournalInv, JobFits, Known
<1>8. raced \subseteq raced' /\ Disturbed({a}) \subseteq raced' /\ raced' \subseteq JournalCalls
  BY <1>1 DEF JournalTyped, Disturbed
<1>9. /\ left' \in [JournalCalls -> HeldSets] /\ before' \in [JournalCalls -> HeldSets]
      /\ \A d \in JournalCalls \ {c} : left'[d] = left[d] /\ before'[d] = before[d]
  BY <1>1 DEF JournalTyped
<1> QED
  BY <1>2, <1>3, <1>4, <1>6, <1>7, <1>8, <1>9, JournalStepKeeps

\* An undo checks that the target is as the call left it, ...
LEMMA UndoKeeps ==
  ASSUME JournalInv, NEW a \in Agents, NEW c \in JournalCalls, Undo(a, c)
  PROVE  JournalInv'
<1> USE DEF AtWork
<1>1. /\ job[a] = NoJob /\ records[c].status \in Known
      /\ state' = state /\ before' = before /\ left' = left /\ raced' = raced
  BY DEF Undo, Known
<1>2. JournalTyped /\ records[c] \in Records
  BY DEF JournalInv, JournalTyped
<1>3. raced' = raced \cup Disturbed({a})
  BY <1>1, NobodyDisturbed
<1>4. state' \in [Targets -> TargetValues]
  BY <1>1, <1>2 DEF JournalTyped
<1>5. CASE Allows(records[c])
  <2> DEFINE q == [pc |-> "checked", call |-> c]
  <2>1. job' = [job EXCEPT ![a] = q] /\ records' = records
    BY <1>5 DEF Undo
  <2>2. q \in Works /\ q.pc \notin {"ready", "ran"} /\ q.call = c /\ job'[a] = q
    BY <1>2, <2>1 DEF Works, JournalTyped
  <2>3. records[c].kind \in ChangeKinds
    BY <1>1 DEF JournalInv, RecordFits, ResultFits
  <2>4. Allows(records[c])'
    BY <1>1, <1>5, <2>1 DEF Allows, Fits
  <2>5. JobFits(a)'
    BY <1>1, <2>1, <2>2, <2>3, <2>4 DEF JobFits
  <2>6. records' = [records EXCEPT ![c].status = records[c].status]
    BY <1>2, <2>1 DEF JournalTyped, Records
  <2> HIDE DEF q
  <2> QED
    BY <1>1, <1>3, <1>4, <2>1, <2>2, <2>5, <2>6, UndoStepKeeps
<1>6. CASE ~Allows(records[c])
  <2>1. job' = [job EXCEPT ![a] = NoJob] /\ records' = [records EXCEPT ![c].status = "failed"]
    BY <1>6 DEF Undo, FinishUndo
  <2>2. NoJob \in Works /\ NoJob.pc \notin AtWork /\ job'[a] = NoJob
    BY <1>2, <2>1 DEF NoJob, Works, JournalTyped
  <2>3. JobFits(a)'
    BY <2>2 DEF JobFits
  <2> QED
    BY <1>1, <1>3, <1>4, <2>1, <2>2, <2>3, UndoStepKeeps DEF Known
<1> QED
  BY <1>5, <1>6

\* The last step of an undo.
LEMMA CallEndsKeeps ==
  ASSUME JournalInv, NEW a \in Agents, job[a].pc \in {"checked", "emptied"},
         NEW s \in {"failed", "completed"}, FinishUndo(a, job[a].call, s),
         state' = state \/ \E h : state' = Puts(h),
         raced' = raced \cup Disturbed({a}), before' = before, left' = left
  PROVE  JournalInv'
<1> USE DEF AtWork
<1>1. /\ JournalTyped /\ job[a].call \in JournalCalls /\ records[job[a].call].status \in Known
  BY OwnCall DEF JournalInv, JobFits
<1>2. state' \in [Targets -> TargetValues]
  BY <1>1, PutsTyped DEF JournalTyped
<1>3. NoJob \in Works /\ NoJob.pc \notin AtWork
  BY DEF NoJob, Works
<1>4. job' = [job EXCEPT ![a] = NoJob] /\ records' = [records EXCEPT ![job[a].call].status = s]
  BY DEF FinishUndo
<1>5. JobFits(a)'
  BY <1>1, <1>3, <1>4 DEF JobFits, JournalTyped
<1>6. s \in Known
  BY DEF Known
<1> QED
  BY <1>1, <1>2, <1>3, <1>4, <1>5, <1>6, UndoStepKeeps

\* ... puts back what was there, ...
LEMMA PutBackKeeps ==
  ASSUME JournalInv, NEW a \in Agents, PutBack(a)
  PROVE  JournalInv'
<1>1. job[a].pc = "checked"
  BY DEF PutBack, Undoing
<1>2. \E s \in {"failed", "completed"} : FinishUndo(a, job[a].call, s)
  BY DEF PutBack
<1>3. state' = state \/ state' = Puts(records[job[a].call].pre)
  BY DEF PutBack
<1>4. state' = state \/ \E h : state' = Puts(h)
  BY <1>3
<1>5. raced' = raced \cup Disturbed({a}) /\ before' = before /\ left' = left
  BY DEF PutBack
<1> QED
  BY <1>1, <1>2, <1>4, <1>5, CallEndsKeeps

\* ... extracts the workspace, or fails to, ...
LEMMA ExtractKeeps ==
  ASSUME JournalInv, NEW a \in Agents, Extract(a) \/ ExtractFails(a)
  PROVE  JournalInv'
<1>1. job[a].pc = "emptied"
  BY DEF Extract, ExtractFails
<1>2. \E s \in {"failed", "completed"} : FinishUndo(a, job[a].call, s)
  BY DEF Extract, ExtractFails
<1>3. \E h : state' = Puts(h)
  <2>1. CASE Extract(a)
    BY <2>1 DEF Extract
  <2>2. CASE ExtractFails(a)
    <3>1. PICK part \in SUBSET records[job[a].call].pre : state' = Puts(part)
      BY <2>2 DEF ExtractFails
    <3> QED
      BY <3>1
  <2> QED
    BY <2>1, <2>2
<1>4. raced' = raced \cup Disturbed({a}) /\ before' = before /\ left' = left
  BY DEF Extract, ExtractFails
<1> QED
  BY <1>1, <1>2, <1>3, <1>4, CallEndsKeeps

\* ... once it has emptied it.
LEMMA EmptyKeeps ==
  ASSUME JournalInv, NEW a \in Agents, EmptyWorkspace(a)
  PROVE  JournalInv'
<1> USE DEF AtWork
<1> DEFINE c == job[a].call
           q == [pc |-> "emptied", call |-> c]
<1>1. /\ job[a].pc = "checked" /\ records[c].kind = "workspace" /\ records' = records
      /\ state' = [t \in Targets |-> IF t \in Files THEN Absent ELSE state[t]]
      /\ job' = [job EXCEPT ![a].pc = "emptied"]
      /\ raced' = raced \cup Disturbed({a}) /\ before' = before /\ left' = left
  BY DEF EmptyWorkspace, Undoing
<1>2. JournalTyped /\ c \in JournalCalls /\ records[c] \in Records /\ records[c].status \in Known
      /\ job[a] \in Works
  BY <1>1, OwnCall DEF JournalInv, JobFits
<1>3. job' = [job EXCEPT ![a] = q]
  <2>1. [job[a] EXCEPT !.pc = "emptied"] = q
    BY <1>2 DEF Works
  <2>2. job' = [job EXCEPT ![a] = [job[a] EXCEPT !.pc = "emptied"]]
    BY <1>1, <1>2 DEF JournalTyped
  <2> QED
    BY <2>1, <2>2
<1>4. q \in Works /\ job'[a] = q
  BY <1>2, <1>3 DEF Works, JournalTyped
<1>5. state' \in [Targets -> TargetValues] /\ \A f \in Files : state'[f] = Absent
  BY <1>1, <1>2 DEF JournalTyped, Targets, TargetValues
<1>6. JobFits(a)'
  <2> HIDE DEF c
  <2> QED
    BY <1>1, <1>2, <1>4, <1>5 DEF JobFits, ChangeKinds
<1>7. records' = [records EXCEPT ![c].status = records[c].status]
  BY <1>1, <1>2 DEF JournalTyped, Records
<1>8. q.pc \notin {"ready", "ran"} /\ q.call = c
  OBVIOUS
<1>9. c \in JournalCalls /\ records[c].status \in Known
  BY <1>2
<1>10. raced' = raced \cup Disturbed({a}) /\ before' = before /\ left' = left
  BY <1>1
<1>11. q \in Works /\ state' \in [Targets -> TargetValues]
  BY <1>4, <1>5
<1> HIDE DEF q, c
<1> QED
  BY <1>3, <1>6, <1>7, <1>8, <1>9, <1>10, <1>11, UndoStepKeeps

\* Somebody else changes a target: calls at work on it are raced.
LEMMA UserEditsKeeps ==
  ASSUME JournalInv, UserEdits
  PROVE  JournalInv'
<1>1. /\ job' = job /\ records' = records /\ before' = before /\ left' = left
      /\ raced' = raced \cup Disturbed({}) /\ JournalTyped
  BY DEF UserEdits, JournalInv
<1>2. state' \in [Targets -> TargetValues]
  BY <1>1 DEF UserEdits, JournalTyped
<1>3. JournalTyped'
  BY <1>1, <1>2 DEF JournalTyped, Disturbed
<1>4. CallsApart'
  BY <1>1 DEF CallsApart, JournalInv
<1>5. ASSUME NEW c \in JournalCalls PROVE RecordFits(c)'
  <2>1. RecordFits(c)
    BY DEF JournalInv
  <2>2. ResultFits(records[c], left[c], c \in raced')
    BY <1>1, <2>1, RacedStays DEF RecordFits
  <2> QED
    BY <1>1, <2>1, <2>2 DEF RecordFits
<1>6. ASSUME NEW a \in Agents PROVE JobFits(a)'
  <2>1. raced \subseteq raced' /\ Disturbed({}) \subseteq raced' /\ job'[a] = job[a] /\ a \in Agents \ {}
    BY <1>1
  <2>2. records'[job[a].call] = records[job[a].call] /\ left'[job[a].call] = left[job[a].call]
    BY <1>1
  <2> QED
    BY <2>1, <2>2, WorkStays
<1> QED
  BY <1>3, <1>4, <1>5, <1>6 DEF JournalInv

\* What a record holds is what its call found and left, in every state.
LEMMA JournalInvariant == JournalSpec => []JournalInv
<1>1. JournalInv /\ [JournalNext]_journalVars => JournalInv'
  <2> SUFFICES ASSUME JournalInv, [JournalNext]_journalVars PROVE JournalInv'
    OBVIOUS
  <2>1. ASSUME NEW a \in Agents, AgentStep(a) PROVE JournalInv'
    BY <2>1, PrepareKeeps, ExecuteKeeps, RecordKeeps, UndoKeeps, PutBackKeeps, EmptyKeeps,
       ExtractKeeps DEF AgentStep
  <2>2. CASE UserEdits
    BY <2>2, UserEditsKeeps
  <2>3. CASE UNCHANGED journalVars
    BY <2>3 DEF journalVars, JournalInv, JournalTyped, CallsApart, RecordFits, JobFits, Allows, Fits
  <2> QED
    BY <2>1, <2>2, <2>3 DEF JournalNext
<1> QED
  BY <1>1, JournalInitInv, PTL DEF JournalSpec

--------------------------------------------------------------------------------
\* What an undo may replace.
LEMMA UndoKeepsNewer ==
  ASSUME JournalInv, NEW a \in Agents, Undoing(a, {"file", "directory", "settings"})
  PROVE  LET c == job[a].call
             t == records[c].target
         IN \/ <<t, state[t]>> \in left[c] \/ c \in raced \/ ~records[c].ok
            \/ t = SettingsFile /\ state[t] = Clipped
<1> USE DEF AtWork
<1> DEFINE c == job[a].call
           r == records[c]
           t == r.target
<1>1. /\ job[a].pc = "checked" /\ r.kind \in {"file", "directory", "settings"}
      /\ c \in JournalCalls /\ r \in Records /\ t \in Targets /\ RecordFits(c) /\ JobFits(a)
      /\ state \in [Targets -> TargetValues]
  BY OwnCall DEF Undoing, JournalInv, JournalTyped
<1> SUFFICES ASSUME c \notin raced, r.ok, ~(t = SettingsFile /\ state[t] = Clipped)
             PROVE  <<t, state[t]>> \in left[c]
  OBVIOUS
<1>2. r.status \in Known /\ Allows(r)
  BY <1>1 DEF JobFits
<1>3. BackupFits(r, before[c]) /\ ResultFits(r, left[c], FALSE)
  BY <1>1 DEF RecordFits, ResultFits
<1> HIDE DEF c, r
<1>4. CASE r.kind = "file"
  <2>1. PICK x \in Contents : left[c] = {<<t, x>>} /\ r.post = x
    BY <1>2, <1>3, <1>4 DEF ResultFits
  <2>2. state[t] = x
    BY <1>2, <1>4, <2>1, JournalAssumption DEF Allows, Fits
  <2> QED
    BY <2>1, <2>2
<1>5. CASE r.kind = "directory"
  BY <1>2, <1>3, <1>5 DEF ResultFits, Allows
<1>6. CASE r.kind = "settings"
  <2>1. PICK v \in Contents : left[c] = {<<SettingsFile, v>>} /\ r.post = Cleaned(v)
    BY <1>2, <1>3, <1>6 DEF ResultFits
  <2>2. t = SettingsFile
    BY <1>3, <1>6 DEF BackupFits
  <2>3. r.post # "none"
    BY <2>1, JournalAssumption DEF Cleaned
  <2>4. state[t] = Cleaned(v)
    BY <1>2, <1>6, <2>1, <2>2, <2>3 DEF Allows, Fits
  <2>5. state[t] = v
    BY <2>2, <2>4 DEF Cleaned
  <2> QED
    BY <2>1, <2>2, <2>5
<1> QED
  BY <1>1, <1>4, <1>5, <1>6

\* Who completes an undo: who puts its backup back.
LEMMA WhoCompletes ==
  ASSUME JournalInv, [JournalNext]_journalVars, NEW c \in JournalCalls,
         records[c].status # "completed", records'[c].status = "completed"
  PROVE  \E a \in Agents :
           /\ job[a].call = c /\ state' = Puts(records[c].pre)
           /\ raced' = raced \cup Disturbed({a})
           /\ \/ job[a].pc = "checked" /\ records[c].kind \in {"file", "directory", "settings"}
              \/ job[a].pc = "emptied"
<1> USE DEF AtWork
<1>1. records' # records /\ records \in [JournalCalls -> Records]
  BY DEF JournalInv, JournalTyped
<1>2. PICK a \in Agents : AgentStep(a)
  BY <1>1 DEF JournalNext, UserEdits, journalVars
<1> DEFINE d == job[a].call
<1>3. ~\E kind \in ChangeKinds, t \in Targets : Prepare(a, kind, t)
  <2> SUFFICES ASSUME NEW kind \in ChangeKinds, NEW t \in Targets, Prepare(a, kind, t) PROVE FALSE
    OBVIOUS
  <2>1. PICK e \in JournalCalls, v \in Contents : records' = [records EXCEPT ![e] =
             [kind |-> kind, target |-> t, pre |-> Backup(kind, t),
              set |-> IF kind = "settings" THEN {<<t, v>>} ELSE {}, post |-> "none",
              ok |-> FALSE, status |-> "unrecorded"]]
    BY DEF Prepare
  <2>2. CASE c = e
    BY <1>1, <2>1, <2>2
  <2>3. CASE c # e
    BY <1>1, <2>1, <2>3
  <2> QED
    BY <2>2, <2>3
<1>4. ~Execute(a)
  <2> SUFFICES ASSUME Execute(a) PROVE FALSE
    OBVIOUS
  <2>1. PICK ok \in BOOLEAN : records' = [records EXCEPT ![d].ok = ok]
    BY DEF Execute
  <2>2. records'[c].status = records[c].status
    BY <1>1, <2>1 DEF Records
  <2> QED
    BY <2>2
<1>5. ~Record(a)
  <2> SUFFICES ASSUME Record(a) PROVE FALSE
    OBVIOUS
  <2>1. d \in JournalCalls /\ records[d] \in Records
    BY OwnCall DEF Record
  <2>2. PICK kept, status :
          status \in {"available", "unavailable", "unrecorded"}
          /\ records' = [records EXCEPT ![d] = [records[d] EXCEPT !.post = Hash(records[d]), !.pre = kept,
                                                               !.status = status]]
    BY DEF Record
  <2>3. CASE c = d
    BY <1>1, <2>1, <2>2, <2>3 DEF Records
  <2>4. CASE c # d
    BY <1>1, <2>2, <2>4
  <2> QED
    BY <2>3, <2>4
<1>6. ASSUME NEW s, FinishUndo(a, d, s) PROVE c = d /\ s = "completed"
  BY <1>1, <1>6 DEF FinishUndo, Records
<1>7. ~\E e \in JournalCalls : Undo(a, e)
  <2> SUFFICES ASSUME NEW e \in JournalCalls, Undo(a, e) PROVE FALSE
    OBVIOUS
  <2>1. records' = [records EXCEPT ![e].status = "failed"]
    BY <1>1 DEF Undo, FinishUndo
  <2> QED
    BY <1>1, <2>1 DEF Records
<1>8. ~ExtractFails(a)
  BY <1>6 DEF ExtractFails
<1>9. ~EmptyWorkspace(a)
  BY <1>1 DEF EmptyWorkspace
<1>10. CASE PutBack(a)
  <2>1. /\ job[a].pc = "checked" /\ records[d].kind \in {"file", "directory", "settings"}
        /\ raced' = raced \cup Disturbed({a})
    BY <1>10 DEF PutBack, Undoing
  <2>2. FinishUndo(a, d, "failed") \/ (FinishUndo(a, d, "completed") /\ state' = Puts(records[d].pre))
    BY <1>10 DEF PutBack
  <2> HIDE DEF d
  <2>3. c = d /\ state' = Puts(records[d].pre)
    BY <1>6, <2>2
  <2> QED
    BY <2>1, <2>3 DEF d
<1>11. CASE Extract(a)
  BY <1>6, <1>11 DEF Extract
<1> QED
  BY <1>2, <1>3, <1>4, <1>5, <1>7, <1>8, <1>9, <1>10, <1>11 DEF AgentStep

\* What an undo that is completed leaves.
LEMMA UndoRestores ==
  ASSUME JournalInv, [JournalNext]_journalVars, NEW c \in JournalCalls \ raced',
         records[c].status # "completed", records'[c].status = "completed",
         NEW tv \in before[c], tv[1] \notin LeftOut, tv[2] \notin Long
  PROVE  state'[tv[1]] = tv[2]
<1> USE DEF AtWork
<1>1. PICK a \in Agents :
           /\ job[a].call = c /\ state' = Puts(records[c].pre)
           /\ raced' = raced \cup Disturbed({a})
           /\ \/ job[a].pc = "checked" /\ records[c].kind \in {"file", "directory", "settings"}
              \/ job[a].pc = "emptied"
  BY WhoCompletes
<1> DEFINE r == records[c]
<1>2. /\ BackupFits(r, before[c]) /\ before[c] \in HeldSets
      /\ state \in [Targets -> TargetValues] /\ JobFits(a)
  BY DEF JournalInv, JournalTyped, RecordFits
<1>3. PICK t \in Targets, v \in TargetValues : tv = <<t, v>>
  BY <1>2 DEF HeldSets
<1>4. CASE job[a].pc = "checked" /\ r.kind \in {"file", "directory", "settings"}
  <2>1. \E u \in Targets, x \in TargetValues : r.pre = {<<u, x>>} /\ t = u /\ v = x
    BY <1>2, <1>3, <1>4 DEF BackupFits, Targets
  <2>2. r.pre = {<<t, v>>} /\ <<t, v>> \in {<<t, v>>}
    BY <2>1
  <2>3. Puts({<<t, v>>})[t] = v
    BY <2>2, PutsOne
  <2> QED
    BY <1>1, <1>3, <2>2, <2>3
<1>5. CASE job[a].pc = "emptied"
  <2>1. r.kind = "workspace" /\ \A f \in Files : state[f] = Absent
    BY <1>1, <1>2, <1>5 DEF JobFits
  <2>2. r.pre \subseteq before[c] /\ Single(before[c]) /\ t \in Files /\ (v = Absent \/ tv \in r.pre)
    BY <1>2, <1>3, <2>1 DEF BackupFits
  <2>3. Single(r.pre)
    BY <2>2 DEF Single
  <2>4. CASE tv \in r.pre
    BY <1>1, <1>3, <2>3, <2>4, PutsValue
  <2>5. CASE tv \notin r.pre
    <3>1. ASSUME NEW w \in TargetValues PROVE <<t, w>> \notin r.pre
      BY <1>3, <2>2, <2>5 DEF Single
    <3>2. Puts(r.pre)[t] = state[t]
      BY <3>1, PutsElsewhere
    <3> QED
      BY <1>1, <1>3, <2>1, <2>2, <2>5, <3>2
  <2> QED
    BY <2>4, <2>5
<1> QED
  BY <1>1, <1>4, <1>5

\* An undo replaces only what its call left, and what it reports completed is as the call
\* found it (rollback() of change_journal.py).
THEOREM UndoTakesBack == JournalSpec => UndoIsExact
<1>1. ASSUME JournalInv, [JournalNext]_journalVars
      PROVE  /\ \A a \in Agents : Undoing(a, {"file", "directory", "settings"}) /\ job'[a] = NoJob =>
                  LET c == job[a].call
                      t == records[c].target
                  IN state'[t] # state[t] =>
                       \/ <<t, state[t]>> \in left[c] \/ c \in raced \/ ~records[c].ok
                       \/ t = SettingsFile /\ state[t] = Clipped
             /\ \A c \in JournalCalls \ raced' :
                  records[c].status # "completed" /\ records'[c].status = "completed" =>
                    \A tv \in before[c] :
                      (tv[1] \in LeftOut \/ tv[2] \in Long) \/ state'[tv[1]] = tv[2]
  BY <1>1, UndoKeepsNewer, UndoRestores
<1> QED
  BY <1>1, JournalInvariant, PTL DEF UndoIsExact, NewerWorkKept, UndoneIsAsBefore, JournalSpec

\* The journal's values, agents' steps and records are what the code can hold, and an undo
\* ends in one of the states a record knows (aicoder/change_journal.py).
THEOREM JournalTypes == JournalSpec => []JournalTypeOK
<1> DEFINE FewEdits == edits \in 0..MaxEdits
<1>1. JournalInit => FewEdits
  BY JournalAssumption DEF JournalInit
<1>2. FewEdits /\ [JournalNext]_journalVars => FewEdits'
  <2> SUFFICES ASSUME FewEdits, [JournalNext]_journalVars PROVE FewEdits'
    OBVIOUS
  <2>1. ASSUME NEW a \in Agents, AgentStep(a) PROVE UNCHANGED edits
    BY <2>1 DEF AgentStep, Prepare, Execute, Record, Undo, PutBack, EmptyWorkspace, Extract, ExtractFails
  <2>2. UNCHANGED edits \/ (edits < MaxEdits /\ edits' = edits + 1)
    BY <2>1 DEF JournalNext, UserEdits, journalVars
  <2> QED BY <2>2, JournalAssumption
<1>3. JournalInv /\ FewEdits => JournalTypeOK
  <2> SUFFICES ASSUME JournalInv, FewEdits PROVE JournalTypeOK
    OBVIOUS
  <2>1. \A a \in Agents : job[a] \in Works
    BY DEF JournalInv, JournalTyped
  <2>2. \A a \in Agents : job[a].pc \in {"idle", "ready", "ran", "checked", "emptied"}
    BY <2>1 DEF Works
  <2>3. \A c \in JournalCalls : records[c] \in Records
    BY DEF JournalInv, JournalTyped
  <2>4. \A c \in JournalCalls : records[c].status \in
          {"none", "unrecorded", "available", "unavailable", "failed", "completed"}
    BY <2>3 DEF Records
  <2> QED BY <2>2, <2>4 DEF JournalInv, JournalTyped, JournalTypeOK
<1> HIDE DEF FewEdits
<1> QED BY <1>1, <1>2, <1>3, JournalInvariant, PTL DEF JournalSpec

--------------------------------------------------------------------------------
(* The node.  What it is about to write over is backed up or was saved after  *)
(* the backup.                                                                *)

Text == [text : Nat, fits : 0..2]
Kinds == RemoteWrites \cup {"none", "read", "list", "state"}
At == {"idle", "called", "check", "backup", "read", "write", "compare", "record", "finish",
       "answer", "down"}
Node == [at : At, ok : BOOLEAN, old : Text, new : Nat]
RemoteCall == [kind : Kinds, repeats : BOOLEAN, open : BOOLEAN]
RemotePlan == [exists : BOOLEAN, status : {"running", "completed", "paused", "failed"},
               implement : BOOLEAN, verify : {"pending", "in_progress", "completed"}]

RemoteTypeInv ==
  /\ userFile \in Text /\ texts \in Nat /\ node \in Node
  /\ remoteCall \in RemoteCall /\ remotePlan \in RemotePlan /\ unread \in BOOLEAN

\* What the node is about to write over is backed up, or was saved after the backup.
CoverInv ==
  /\ node.at \in {"read", "write"} => userFile.text \in backups \cup meanwhile \cup {0}
  /\ node.at = "compare" => userFile.text \in meanwhile \cup {0, node.new}

\* A change is told to the server only with a plan that asks for its verification.
PlanInv ==
  /\ node.at = "check" => remoteCall.kind \in RemoteWrites
  /\ node.at = "finish" => remoteCall.kind = "state"
  /\ node.at = "answer" /\ node.ok /\ remoteCall.kind \in RemoteWrites =>
       remotePlan.verify # "completed"

RemoteInv == RemoteTypeInv /\ CoverInv /\ PlanInv /\ RemoteWorkIsCovered

\* The node takes up a call, ...
LEMMA NewHandling ==
  ASSUME NEW at \in At, NEW ok \in BOOLEAN
  PROVE  /\ Handling(at, ok) \in Node /\ Handling(at, ok).at = at
         /\ Handling(at, ok).ok = ok /\ Handling(at, ok).new = 0
BY DEF Handling, NoFile, Node, Text

\* ... and goes on with it.
LEMMA NodeMoves ==
  ASSUME RemoteTypeInv, NEW at \in At, NEW ok \in BOOLEAN, NodeGoes(at, ok)
  PROVE  /\ node' \in Node /\ node'.at = at /\ node'.ok = ok
         /\ node'.old = node.old /\ node'.new = node.new
BY DEF RemoteTypeInv, NodeGoes, Node

\* The node starts with nothing to do.
LEMMA RemoteInitInv == RemoteInit => RemoteInv
<1> SUFFICES ASSUME RemoteInit PROVE RemoteInv
  OBVIOUS
<1>1. node \in Node /\ node.at = "idle"
  BY NewHandling DEF RemoteInit, At
<1>2. RemoteTypeInv
  <2>1. userFile \in Text /\ texts \in Nat /\ unread \in BOOLEAN
    <3>1. userFile = [text |-> 1, fits |-> 1] /\ texts = 1 /\ unread = FALSE
      BY DEF RemoteInit
    <3>2. 1 \in Nat /\ 1 \in 0..2
      OBVIOUS
    <3>3. QED
      BY <3>1, <3>2 DEF Text
  <2>2. remoteCall \in RemoteCall
    BY DEF RemoteInit, RemoteCall, Kinds
  <2>3. remotePlan \in RemotePlan
    BY DEF RemoteInit, RemotePlan
  <2>4. QED
    BY <1>1, <2>1, <2>2, <2>3 DEF RemoteTypeInv
<1>3. CoverInv /\ PlanInv /\ RemoteWorkIsCovered
  BY <1>1 DEF RemoteInit, CoverInv, PlanInv, RemoteWorkIsCovered
<1>4. QED
  BY <1>2, <1>3 DEF RemoteInv

--------------------------------------------------------------------------------
\* Steps that change nothing but the node: what it has to say for its next place.
LEMMA OnlyNodeMoves ==
  ASSUME RemoteInv, NEW at \in At, NEW ok \in BOOLEAN, NodeGoes(at, ok),
         UNCHANGED <<disk, remoteCall, remotePlan, ghosts>>,
         at \in {"read", "write"} => userFile.text \in backups \cup meanwhile \cup {0},
         at # "compare", at = "check" => remoteCall.kind \in RemoteWrites,
         at = "finish" => remoteCall.kind = "state",
         at = "answer" /\ ok /\ remoteCall.kind \in RemoteWrites => remotePlan.verify # "completed"
  PROVE  RemoteInv'
<1>1. /\ node' \in Node /\ node'.at = at /\ node'.ok = ok
      /\ node'.old = node.old /\ node'.new = node.new
  BY NodeMoves DEF RemoteInv
<1>2. RemoteTypeInv'
  BY <1>1 DEF RemoteInv, RemoteTypeInv, disk, ghosts
<1>3. CoverInv' /\ PlanInv' /\ RemoteWorkIsCovered'
  BY <1>1 DEF RemoteInv, CoverInv, PlanInv, RemoteWorkIsCovered, disk, ghosts
<1>4. QED
  BY <1>2, <1>3 DEF RemoteInv

LEMMA ServerCallsKeeps == ASSUME RemoteInv, ServerCalls PROVE RemoteInv'
<1>1. node' \in Node /\ node'.at = "called"
  BY NodeMoves DEF ServerCalls, RemoteInv, At
<1>2. UNCHANGED <<disk, remotePlan, ghosts>>
  BY DEF ServerCalls
<1>3. remoteCall' \in RemoteCall
  BY DEF ServerCalls, RemoteCall, Kinds
<1>4. RemoteTypeInv'
  BY <1>1, <1>2, <1>3 DEF RemoteInv, RemoteTypeInv, disk, ghosts
<1>5. CoverInv' /\ PlanInv' /\ RemoteWorkIsCovered'
  BY <1>1, <1>2 DEF RemoteInv, CoverInv, PlanInv, RemoteWorkIsCovered, disk, ghosts
<1>6. QED
  BY <1>4, <1>5 DEF RemoteInv

LEMMA HandleCallKeeps == ASSUME RemoteInv, HandleCall PROVE RemoteInv'
<1>1. UNCHANGED <<disk, remoteCall, remotePlan, ghosts>>
  BY DEF HandleCall, callVars
<1>2. CASE remoteCall.kind \in RemoteWrites
  <2>1. node' = [node EXCEPT !.at = IF allowWrites THEN "check" ELSE "answer", !.ok = FALSE]
    BY <1>2 DEF HandleCall, NodeGoes, RemoteWrites
  <2>2. CASE allowWrites
    <3>1. NodeGoes("check", FALSE)
      BY <2>1, <2>2 DEF NodeGoes
    <3>2. QED
      BY <1>1, <1>2, <3>1, OnlyNodeMoves DEF At
  <2>3. CASE ~allowWrites
    <3>1. NodeGoes("answer", FALSE)
      BY <2>1, <2>3 DEF NodeGoes
    <3>2. QED
      BY <1>1, <3>1, OnlyNodeMoves DEF At
  <2>4. QED
    BY <2>2, <2>3
<1>3. CASE remoteCall.kind = "state"
  <2>1. NodeGoes("finish", FALSE)
    BY <1>3 DEF HandleCall, RemoteWrites
  <2>2. QED
    BY <1>1, <1>3, <2>1, OnlyNodeMoves DEF At
<1>4. CASE remoteCall.kind \notin RemoteWrites \cup {"state"}
  <2>1. PICK ok \in BOOLEAN : NodeGoes("record", ok)
    BY <1>4 DEF HandleCall
  <2>2. QED
    BY <1>1, <2>1, OnlyNodeMoves DEF At
<1>5. QED
  BY <1>2, <1>3, <1>4

LEMMA CheckWriteKeeps == ASSUME RemoteInv, CheckWrite PROVE RemoteInv'
<1>1. UNCHANGED <<disk, remoteCall, remotePlan, ghosts>>
  BY DEF CheckWrite, callVars
<1>2. CASE Applies /\ remoteCall.kind # "replace"
  <2>1. NodeGoes("read", FALSE)
    BY <1>2 DEF CheckWrite
  <2>2. userFile.text = 0
    BY <1>2 DEF Applies, CheckWrite, RemoteInv, PlanInv, RemoteWrites
  <2>3. QED
    BY <1>1, <2>1, <2>2, OnlyNodeMoves DEF At
<1>3. CASE ~Applies \/ remoteCall.kind = "replace"
  <2>1. PICK at \in {"record", "backup"} : NodeGoes(at, FALSE)
    BY <1>3 DEF CheckWrite
  <2>2. QED
    BY <1>1, <2>1, OnlyNodeMoves DEF At
<1>4. QED
  BY <1>2, <1>3

LEMMA BackUpKeeps == ASSUME RemoteInv, BackUp \/ BackUpFails PROVE RemoteInv'
<1>1. CASE BackUp
  <2>1. node' \in Node /\ node'.at = "read"
    BY <1>1, NodeMoves DEF BackUp, RemoteInv, At
  <2>2. UNCHANGED <<userFile, texts, remoteCall, remotePlan, ghosts>>
    BY <1>1 DEF BackUp, callVars
  <2>3. backups' = backups \cup ({userFile.text} \ {0})
    BY <1>1 DEF BackUp
  <2>4. RemoteTypeInv'
    BY <2>1, <2>2 DEF RemoteInv, RemoteTypeInv, ghosts
  <2>5. CoverInv' /\ PlanInv' /\ RemoteWorkIsCovered'
    BY <2>1, <2>2, <2>3 DEF RemoteInv, CoverInv, PlanInv, RemoteWorkIsCovered, ghosts
  <2>6. QED
    BY <2>4, <2>5 DEF RemoteInv
<1>2. CASE BackUpFails
  BY <1>2, OnlyNodeMoves DEF BackUpFails, callVars, At
<1>3. QED
  BY <1>1, <1>2

LEMMA ReadOldKeeps == ASSUME RemoteInv, ReadOld PROVE RemoteInv'
<1>1. UNCHANGED <<disk, remoteCall, remotePlan, ghosts>> /\ node.at = "read"
  BY DEF ReadOld, callVars
<1>2. CASE node' = [node EXCEPT !.at = "write", !.old = userFile]
  <2>1. node' \in Node /\ node'.at = "write"
    BY <1>2 DEF RemoteInv, RemoteTypeInv, Node, At
  <2>2. RemoteTypeInv'
    BY <1>1, <2>1 DEF RemoteInv, RemoteTypeInv, disk, ghosts
  <2>3. CoverInv' /\ PlanInv' /\ RemoteWorkIsCovered'
    BY <1>1, <2>1 DEF RemoteInv, CoverInv, PlanInv, RemoteWorkIsCovered, disk, ghosts
  <2>4. QED
    BY <2>2, <2>3 DEF RemoteInv
<1>3. CASE NodeGoes("record", FALSE)
  BY <1>1, <1>3, OnlyNodeMoves DEF At
<1>4. QED
  BY <1>2, <1>3 DEF ReadOld

LEMMA WriteNewKeeps == ASSUME RemoteInv, WriteNew PROVE RemoteInv'
<1>1. texts \in Nat /\ userFile \in Text /\ userFile.text \in backups \cup meanwhile \cup {0}
  BY DEF WriteNew, RemoteInv, RemoteTypeInv, CoverInv
<1>2. PICK fits \in 0..2 : userFile' = [text |-> texts + 1, fits |-> fits]
  BY DEF WriteNew
<1>3. userFile' \in Text /\ userFile'.text = texts + 1 /\ texts' = texts + 1
  BY <1>1, <1>2 DEF WriteNew, Text
<1>4. node' \in Node /\ node'.at = "compare" /\ node'.new = texts + 1
  <2>1. node' = [node EXCEPT !.at = "compare", !.new = texts + 1]
    BY DEF WriteNew
  <2>2. node \in Node /\ texts + 1 \in Nat
    BY <1>1 DEF RemoteInv, RemoteTypeInv
  <2>3. QED
    BY <2>1, <2>2 DEF Node, At
<1>5. /\ overwritten' = overwritten \cup ({userFile.text} \ {0})
      /\ UNCHANGED <<remoteCall, backups, remotePlan, meanwhile, unread>>
  BY DEF WriteNew, OverWrites, callVars
<1>6. RemoteTypeInv'
  BY <1>1, <1>3, <1>4, <1>5 DEF RemoteInv, RemoteTypeInv
<1>7. CoverInv' /\ PlanInv' /\ RemoteWorkIsCovered'
  BY <1>1, <1>3, <1>4, <1>5 DEF RemoteInv, CoverInv, PlanInv, RemoteWorkIsCovered
<1>8. QED
  BY <1>6, <1>7 DEF RemoteInv

LEMMA ReadBackKeeps == ASSUME RemoteInv, ReadBack PROVE RemoteInv'
<1>1. node.at = "compare" /\ UNCHANGED <<remoteCall, remotePlan, meanwhile, unread>>
  BY DEF ReadBack, callVars
<1>2. CASE userFile.text \in {0, node.new}
  <2>1. PICK ok \in BOOLEAN : NodeGoes("record", ok)
    BY <1>2 DEF ReadBack
  <2>2. UNCHANGED <<disk, ghosts>>
    BY <1>1, <1>2 DEF ReadBack, ghosts
  <2>3. QED
    BY <1>1, <2>1, <2>2, OnlyNodeMoves DEF At
<1>3. CASE userFile.text \notin {0, node.new}
  <2>1. userFile.text \in meanwhile
    BY <1>1, <1>3 DEF RemoteInv, CoverInv
  <2>2. node' \in Node /\ node'.at = "record"
    BY <1>3, NodeMoves DEF ReadBack, RemoteInv, At
  <2>3. /\ userFile' = node.old /\ UNCHANGED <<texts, backups>>
        /\ overwritten' = overwritten \cup ({userFile.text} \ {0})
    BY <1>3 DEF ReadBack, OverWrites
  <2>4. RemoteTypeInv'
    BY <1>1, <2>2, <2>3 DEF RemoteInv, RemoteTypeInv, Node
  <2>5. CoverInv' /\ PlanInv' /\ RemoteWorkIsCovered'
    BY <1>1, <2>1, <2>2, <2>3 DEF RemoteInv, CoverInv, PlanInv, RemoteWorkIsCovered
  <2>6. QED
    BY <2>4, <2>5 DEF RemoteInv
<1>4. QED
  BY <1>2, <1>3

\* The plan is told of a change before the server is, and of a reading with it.
LEMMA RecordCallKeeps == ASSUME RemoteInv, RecordCall PROVE RemoteInv'
<1>1. UNCHANGED <<disk, remoteCall, overwritten, meanwhile>>
  BY DEF RecordCall, callVars
<1>2. remotePlan \in RemotePlan /\ node \in Node /\ remoteCall \in RemoteCall
  BY DEF RemoteInv, RemoteTypeInv
<1>3. node' \in Node /\ node'.at = "answer" /\ node'.ok = node.ok
  <2>1. node.ok \in BOOLEAN
    BY <1>2 DEF Node
  <2>2. QED
    BY <2>1, NodeMoves DEF RecordCall, RemoteInv, At
<1> DEFINE told == IF node.ok THEN Told(remoteCall.kind, remotePlan.implement, remotePlan.verify)
                   ELSE [implement |-> remotePlan.implement, verify |-> remotePlan.verify]
<1>4. told.implement \in BOOLEAN /\ told.verify \in {"pending", "in_progress", "completed"}
  BY <1>2 DEF Told, RemotePlan
<1>5. /\ node.ok /\ remoteCall.kind \in RemoteWrites => told.verify = "in_progress"
      /\ told.verify = "completed" =>
           remotePlan.verify = "completed" \/ (node.ok /\ remoteCall.kind = "read")
  <2>1. CASE ~node.ok
    BY <2>1
  <2>2. CASE node.ok /\ remoteCall.kind \in RemoteWrites
    <3>1. told = [implement |-> TRUE, verify |-> "in_progress"]
      BY <2>2 DEF Told, RemoteWrites
    <3>2. QED
      BY <3>1
  <2>3. CASE node.ok /\ remoteCall.kind \notin RemoteWrites
    <3>1. \/ remoteCall.kind = "read"
          \/ told = [implement |-> remotePlan.implement, verify |-> remotePlan.verify]
      BY <2>3 DEF Told
    <3>2. QED
      BY <2>3, <3>1
  <2>4. QED
    BY <2>1, <2>2, <2>3
<1>6. remotePlan' = [exists |-> TRUE, status |-> "running",
                     implement |-> told.implement, verify |-> told.verify]
  BY DEF RecordCall
<1> HIDE DEF told
<1>7. remotePlan' \in RemotePlan /\ remotePlan'.verify = told.verify
  BY <1>4, <1>6 DEF RemotePlan
<1>8. unread' = (unread /\ ~(node.ok /\ remoteCall.kind = "read"))
  BY DEF RecordCall
<1>9. RemoteTypeInv'
  BY <1>1, <1>3, <1>7, <1>8 DEF RemoteInv, RemoteTypeInv, disk
<1>10. CoverInv' /\ PlanInv'
  BY <1>1, <1>3, <1>5, <1>7 DEF RemoteInv, CoverInv, PlanInv, disk
<1>11. RemoteWorkIsCovered'
  BY <1>1, <1>5, <1>7, <1>8 DEF RemoteInv, RemoteWorkIsCovered, disk
<1>12. QED
  BY <1>9, <1>10, <1>11 DEF RemoteInv

LEMMA RecordFailsKeeps == ASSUME RemoteInv, RecordFails PROVE RemoteInv'
BY OnlyNodeMoves DEF RecordFails, At

LEMMA FinishKeeps == ASSUME RemoteInv, Finish PROVE RemoteInv'
<1>1. node' \in Node /\ node'.at = "answer"
  BY NodeMoves DEF Finish, RemoteInv, At
<1>2. UNCHANGED <<disk, remoteCall, ghosts>>
  BY DEF Finish, callVars
<1>3. remotePlan' \in RemotePlan /\ remotePlan'.verify = remotePlan.verify
  BY DEF Finish, RemoteInv, RemoteTypeInv, RemotePlan
<1>4. remoteCall.kind \notin RemoteWrites
  BY DEF Finish, RemoteInv, PlanInv, RemoteWrites
<1>5. RemoteTypeInv'
  BY <1>1, <1>2, <1>3 DEF RemoteInv, RemoteTypeInv, disk, ghosts
<1>6. CoverInv' /\ PlanInv' /\ RemoteWorkIsCovered'
  BY <1>1, <1>2, <1>3, <1>4 DEF RemoteInv, CoverInv, PlanInv, RemoteWorkIsCovered, disk, ghosts
<1>7. QED
  BY <1>5, <1>6 DEF RemoteInv

LEMMA AnswerCallKeeps == ASSUME RemoteInv, AnswerCall PROVE RemoteInv'
<1>1. node' \in Node /\ node'.at = "idle" /\ node.at = "answer"
  BY NewHandling DEF AnswerCall, At
<1>2. UNCHANGED <<disk, remotePlan, overwritten, meanwhile>>
  BY DEF AnswerCall
<1>3. remoteCall' \in RemoteCall
  BY DEF AnswerCall, RemoteInv, RemoteTypeInv, RemoteCall
<1>4. unread' = (unread \/ (node.ok /\ remoteCall.kind \in RemoteWrites)) /\ node.ok \in BOOLEAN
  BY DEF AnswerCall, RemoteInv, RemoteTypeInv, Node
<1>5. RemoteTypeInv'
  BY <1>1, <1>2, <1>3, <1>4 DEF RemoteInv, RemoteTypeInv, disk
<1>6. CoverInv' /\ PlanInv' /\ RemoteWorkIsCovered'
  BY <1>1, <1>2, <1>4 DEF RemoteInv, CoverInv, PlanInv, RemoteWorkIsCovered, disk
<1>7. QED
  BY <1>5, <1>6 DEF RemoteInv

LEMMA EndsKeeps == ASSUME RemoteInv, NodeEnds \/ NodeStarts PROVE RemoteInv'
<1>1. PICK at \in {"down", "called", "idle"} : node' = Handling(at, FALSE)
  BY DEF NodeEnds, NodeStarts
<1>2. node' \in Node /\ node'.at = at
  BY <1>1, NewHandling DEF At
<1>3. UNCHANGED <<disk, remotePlan, ghosts>>
  BY DEF NodeEnds, NodeStarts
<1>4. remoteCall' \in RemoteCall
  BY DEF NodeEnds, NodeStarts, RemoteInv, RemoteTypeInv, RemoteCall
<1>5. RemoteTypeInv'
  BY <1>2, <1>3, <1>4 DEF RemoteInv, RemoteTypeInv, disk, ghosts
<1>6. CoverInv' /\ PlanInv' /\ RemoteWorkIsCovered'
  BY <1>2, <1>3 DEF RemoteInv, CoverInv, PlanInv, RemoteWorkIsCovered, disk, ghosts
<1>7. QED
  BY <1>5, <1>6 DEF RemoteInv

LEMMA UserSavesKeeps == ASSUME RemoteInv, UserSaves PROVE RemoteInv'
<1>1. UNCHANGED <<node, remoteCall, remotePlan, backups, overwritten, unread>>
  BY DEF UserSaves
<1>2. CASE userFile' = NoFile /\ UNCHANGED <<texts, meanwhile>>
  <2>1. userFile' \in Text /\ userFile'.text = 0
    BY <1>2 DEF NoFile, Text
  <2>2. RemoteInv'
    BY <1>1, <1>2, <2>1 DEF RemoteInv, RemoteTypeInv, CoverInv, PlanInv, RemoteWorkIsCovered
  <2>3. QED
    BY <2>2
<1>3. ASSUME NEW fits \in 0..2, userFile' = [text |-> texts + 1, fits |-> fits],
             texts' = texts + 1,
             meanwhile' = IF node.at \in {"read", "write", "compare"}
                          THEN meanwhile \cup {texts + 1} ELSE meanwhile
      PROVE  RemoteInv'
  <2>1. texts' \in Nat
    BY <1>3 DEF RemoteInv, RemoteTypeInv
  <2>2. userFile' \in Text /\ userFile'.text = texts + 1
    BY <1>3, <2>1 DEF Text
  <2>3. RemoteTypeInv'
    BY <1>1, <2>1, <2>2 DEF RemoteInv, RemoteTypeInv
  <2>4. CoverInv' /\ PlanInv' /\ RemoteWorkIsCovered'
    BY <1>1, <1>3, <2>2 DEF RemoteInv, CoverInv, PlanInv, RemoteWorkIsCovered
  <2>5. QED
    BY <2>3, <2>4 DEF RemoteInv
<1>4. QED
  BY <1>2, <1>3 DEF UserSaves

(* Whatever calls the server makes or repeats, wherever the node dies and whenever the    *)
(* user saves: what the node wrote over is in the backup store or was saved while it was  *)
(* writing, and its plan says "verified" only of changes read back since                  *)
(* (aicoder/remote_node.py).                                                              *)
THEOREM NodeCovers == RemoteSpec => []RemoteWorkIsCovered
<1>1. RemoteInv /\ [RemoteNext]_remoteVars => RemoteInv'
  <2>1. RemoteInv /\ UNCHANGED remoteVars => RemoteInv'
    BY DEF RemoteInv, RemoteTypeInv, CoverInv, PlanInv, RemoteWorkIsCovered, remoteVars
  <2>2. QED
    BY <2>1, ServerCallsKeeps, HandleCallKeeps, CheckWriteKeeps, BackUpKeeps, ReadOldKeeps,
       WriteNewKeeps, ReadBackKeeps, RecordCallKeeps, RecordFailsKeeps, FinishKeeps,
       AnswerCallKeeps, EndsKeeps, UserSavesKeeps
    DEF RemoteNext
<1>2. RemoteInv => RemoteWorkIsCovered
  BY DEF RemoteInv
<1>3. QED
  BY RemoteInitInv, <1>1, <1>2, PTL DEF RemoteSpec

================================================================================
