----------------------------- MODULE SettingsStore -----------------------------
(***************************************************************************)
(* The settings file (aicoder/settings.py), shared by the desktop, the     *)
(* command line and the agents: every store keeps a cache that is valid    *)
(* while the file's stamp is the one it was filled with; an update reads,  *)
(* changes and writes the file under a lock between processes.             *)
(*                                                                         *)
(* A stamp is the file's time and size: two writes differ in it here, as   *)
(* they do unless they fall in one tick of the clock and have one size.    *)
(***************************************************************************)
EXTENDS Naturals

CONSTANTS
  Stores,     \* the stores that share the file, one per process and facade
  Keys, Values, Default,
  Missing, Corrupt, \* no file; a file that cannot be read
  NoStore,
  MaxOps,     \* bound: operations begun
  MaxDamage   \* bound: times something else damages the file

ASSUME SettingsAssumption ==
  /\ Default \in Values /\ NoStore \notin Stores
  /\ Missing \notin [Keys -> Values] /\ Corrupt \notin [Keys -> Values] /\ Missing # Corrupt
  /\ MaxOps \in Nat /\ MaxDamage \in Nat

VARIABLES
  file, stamp,  \* state.json and its stamp
  lock,         \* who holds the lock
  cache,        \* each store's cache
  op,           \* what each store is doing
  ops, damage,
  \* History: what the last write or reset of each setting was; the stores whose
  \* cache may hold other data than its stamp stands for; such a cache was used to write,
  \* or the file was damaged.
  wanted, mixed, spoiled

settingsVars == <<file, stamp, lock, cache, op, ops, damage, wanted, mixed, spoiled>>

Data == [Keys -> Values]
Defaults == [k \in Keys |-> Default]
NoCache == [stamp |-> 0, data |-> Defaults]
NoOp == [pc |-> "idle", does |-> "none", patch |-> Defaults, data |-> Defaults, seen |-> 0]

SettingsTypeOK ==
  /\ file \in Data \cup {Missing, Corrupt} /\ stamp \in Nat \ {0}
  /\ lock \in Stores \cup {NoStore}
  /\ cache \in [Stores -> [stamp : Nat, data : Data]]
  /\ \A s \in Stores :
       /\ op[s].pc \in {"idle", "wait", "stat", "read", "quarantine", "fill", "write", "written"}
       /\ op[s].does \in {"none", "load", "update", "reset"} /\ op[s].data \in Data
       /\ op[s].seen \in 0..stamp
  /\ mixed \subseteq Stores /\ spoiled \in BOOLEAN /\ wanted \in Data

SettingsInit ==
  /\ file = Missing /\ stamp = 1 /\ lock = NoStore
  /\ cache = [s \in Stores |-> NoCache] /\ op = [s \in Stores |-> NoOp]
  /\ ops = 0 /\ damage = 0
  /\ wanted = Defaults /\ mixed = {} /\ spoiled = FALSE

--------------------------------------------------------------------------------
Begin(s, does, pc, patch) ==
  /\ op[s] = NoOp /\ ops < MaxOps /\ ops' = ops + 1
  /\ op' = [op EXCEPT ![s] = [NoOp EXCEPT !.pc = pc, !.does = does, !.patch = patch]]
  /\ UNCHANGED <<file, stamp, lock, cache, damage, wanted, mixed, spoiled>>

Load(s) == Begin(s, "load", "stat", Defaults)
Update(s, k, v) == Begin(s, "update", "wait", [x \in {k} |-> v])
ResetAll(s) == Begin(s, "reset", "wait", Defaults)  \* save(DEFAULTS)

\* Mutant: a lock between the threads of one process is enough.
LockFile_OwnProcess(s) ==
  /\ op[s].pc = "wait"
  /\ op' = [op EXCEPT ![s].pc = IF op[s].does = "reset" THEN "write" ELSE "stat"]
  /\ UNCHANGED <<file, stamp, lock, cache, ops, damage, wanted, mixed, spoiled>>

\* _file_lock(): update() holds it for all it does to the file, save() for the write.
LockFile(s) ==
  /\ op[s].pc = "wait" /\ lock = NoStore
  /\ lock' = s
  /\ op' = [op EXCEPT ![s].pc = IF op[s].does = "reset" THEN "write" ELSE "stat"]
  /\ UNCHANGED <<file, stamp, cache, ops, damage, wanted, mixed, spoiled>>

\* What follows a load: it was all, or an update goes on.
Loaded(s, data) ==
  IF op[s].does = "load" THEN NoOp
  ELSE [op[s] EXCEPT !.pc = "write", !.data = [k \in Keys |->
          IF k \in DOMAIN op[s].patch THEN op[s].patch[k] ELSE data[k]]]

\* load(): the cache, if the file's stamp is still that of the cache.
Stat(s) ==
  /\ op[s].pc = "stat"
  /\ op' = [op EXCEPT ![s] = IF cache[s].stamp = stamp THEN Loaded(s, cache[s].data)
                             ELSE [@ EXCEPT !.pc = "read"]]
  /\ UNCHANGED <<file, stamp, lock, cache, ops, damage, wanted, mixed, spoiled>>

Read(s) ==
  /\ op[s].pc = "read"
  /\ op' = [op EXCEPT ![s].pc = IF file = Corrupt THEN "quarantine" ELSE "fill",
                      ![s].data = IF file \in Data THEN file ELSE Defaults,
                      ![s].seen = stamp]
  /\ UNCHANGED <<file, stamp, lock, cache, ops, damage, wanted, mixed, spoiled>>

\* A file that could not be read is moved away: whatever file is there by now.
Quarantine(s) ==
  /\ op[s].pc = "quarantine"
  /\ IF file = Missing THEN UNCHANGED <<file, stamp>> ELSE file' = Missing /\ stamp' = stamp + 1
  /\ op' = [op EXCEPT ![s].pc = "fill", ![s].seen = stamp']
  /\ UNCHANGED <<lock, cache, ops, damage, wanted, mixed, spoiled>>

\* The cache is filled with what was read, and with the stamp the file has now.
Fill(s) ==
  /\ op[s].pc = "fill"
  /\ cache' = [cache EXCEPT ![s] = [stamp |-> stamp, data |-> op[s].data]]
  /\ mixed' = IF op[s].seen = stamp THEN mixed \ {s} ELSE mixed \cup {s}
  /\ op' = [op EXCEPT ![s] = Loaded(s, op[s].data)]
  /\ UNCHANGED <<file, stamp, lock, ops, damage, wanted, spoiled>>

\* The file is replaced as a whole and the lock released.
Write(s) ==
  /\ op[s].pc = "write"
  /\ file' = op[s].data /\ stamp' = stamp + 1
  /\ lock' = IF lock = s THEN NoStore ELSE lock
  /\ wanted' = [k \in Keys |-> IF k \in DOMAIN op[s].patch THEN op[s].patch[k] ELSE wanted[k]]
  /\ spoiled' = (spoiled \/ (s \in mixed /\ op[s].does = "update"))
  /\ op' = [op EXCEPT ![s].pc = "written", ![s].seen = stamp']
  /\ UNCHANGED <<cache, ops, damage, mixed>>

\* And the cache is filled, with the stamp the file has by then.
Written(s) ==
  /\ op[s].pc = "written"
  /\ cache' = [cache EXCEPT ![s] = [stamp |-> stamp, data |-> op[s].data]]
  /\ mixed' = IF op[s].seen = stamp THEN mixed \ {s} ELSE mixed \cup {s}
  /\ op' = [op EXCEPT ![s] = NoOp]
  /\ UNCHANGED <<file, stamp, lock, ops, damage, wanted, spoiled>>

\* Something else writes what cannot be read.
Damage ==
  /\ damage < MaxDamage /\ damage' = damage + 1
  /\ file' = Corrupt /\ stamp' = stamp + 1 /\ spoiled' = TRUE
  /\ UNCHANGED <<lock, cache, op, ops, wanted, mixed>>

StoreStep(s) ==
  \/ Load(s) \/ ResetAll(s) \/ \E k \in Keys, v \in Values : Update(s, k, v)
  \/ LockFile(s) \/ Stat(s) \/ Read(s) \/ Quarantine(s) \/ Fill(s) \/ Write(s) \/ Written(s)

SettingsNext == (\E s \in Stores : StoreStep(s)) \/ Damage

SettingsSpec == SettingsInit /\ [][SettingsNext]_settingsVars

--------------------------------------------------------------------------------
\* No update is lost to another process: the file holds of every setting what was set
\* last, unless a write of another store fell between a store's reading or writing the
\* file and its stamping its cache, and that cache was used for an update; or unless the
\* file was damaged.
UpdatesKept == ~spoiled => file = wanted \/ (file = Missing /\ wanted = Defaults)
================================================================================
