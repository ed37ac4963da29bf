----------------------------- MODULE ChangeJournal -----------------------------
(***************************************************************************)
(* Changes that can be taken back: a tool that may change something is     *)
(* preceded by a backup and followed by a record (run_tool() of            *)
(* aicoder/executor.py), and a record can be undone                        *)
(* (aicoder/change_journal.py, aicoder/workspace_backup.py).  Agents and   *)
(* the command line work on one workspace while the user edits it.         *)
(*                                                                         *)
(* A target is a path of the workspace or the settings file's value.  A    *)
(* tool that has no backup changes them as the user does.                  *)
(***************************************************************************)
EXTENDS Naturals, FiniteSets

CONSTANTS
  Agents,    \* processes that run tools or undo
  Files,     \* paths of the workspace
  LeftOut,   \* the paths a snapshot leaves out: .git, ignored data
  SettingsFile,  \* the settings, as one more target
  Contents, Absent, Directory, \* what a target may hold; Directory: an empty one
  Long, Clipped, \* contents a record cannot hold in full, and what it holds instead
  NoCall,
  MaxCalls,  \* bound: calls of tools
  MaxEdits   \* bound: edits of the user

Targets == Files \cup {SettingsFile}
TargetValues == Contents \cup {Absent, Directory}
ChangeKinds == {"file", "directory", "workspace", "settings"}
JournalCalls == 1..MaxCalls

ASSUME JournalAssumption ==
  /\ LeftOut \subseteq Files /\ SettingsFile \notin Files
  /\ Long \subseteq Contents /\ Clipped \in Contents \ Long
  /\ (\E c \in Contents : c # Clipped) /\ "none" \notin Contents
  /\ Absent \notin Contents /\ Directory \notin Contents /\ Absent # Directory
  /\ MaxCalls \in Nat /\ MaxEdits \in Nat

VARIABLES
  state,   \* what every target holds
  job,     \* what each agent is doing
  records, \* the journal: record of each call
  edits,
  \* History: what every call found before its backup and left behind; the calls
  \* whose target somebody else changed between two steps of theirs.
  before, left, raced

journalVars == <<state, job, records, edits, before, left, raced>>

NoRecord == [kind |-> "none", target |-> SettingsFile, pre |-> {}, set |-> {}, post |-> "none",
             ok |-> FALSE, status |-> "none"]
NoJob == [pc |-> "idle", call |-> NoCall]

JournalInit ==
  /\ state = [t \in Targets |-> IF t = SettingsFile \/ t \in LeftOut
                                THEN CHOOSE c \in Contents : c # Clipped ELSE Absent]
  /\ job = [a \in Agents |-> NoJob] /\ records = [c \in JournalCalls |-> NoRecord]
  /\ edits = 0
  /\ before = [c \in JournalCalls |-> {}] /\ left = [c \in JournalCalls |-> {}] /\ raced = {}

--------------------------------------------------------------------------------
\* What is held of targets: a set of <<target, value>>.
Held(ts) == {<<t, state[t]>> : t \in ts}
ValueIn(held, t) == CHOOSE v \in TargetValues : <<t, v>> \in held
Puts(held) ==
  [t \in Targets |-> IF \E v \in TargetValues : <<t, v>> \in held THEN ValueIn(held, t) ELSE state[t]]
Regular(v) == v \notin {Absent, Directory}

\* Everybody else with a call under way on one of the changed targets.
Disturbed(self) ==
  {c \in JournalCalls : \E a \in Agents \ self :
     /\ job[a].call = c /\ job[a].pc \in {"ready", "ran", "checked", "emptied"}
     /\ \E t \in Targets :
          state'[t] # state[t] /\ (t = records[c].target \/ records[c].kind = "workspace")}

Cleaned(v) == IF v \in Long THEN Clipped ELSE v

\* snapshot_workspace(): what the archive holds.
Archived == {f \in Files \ LeftOut : state[f] # Absent}

\* _prepare_change_restore(): the backup, and how it would be put back.
Backup(kind, t) ==
  CASE kind \in {"file", "directory"} -> Held({t})
    [] kind = "workspace" -> Held(Archived)
    [] OTHER -> Held({SettingsFile})

\* A call that policy, contract and approval let through makes its backup.  Where that
\* fails, the tool does not run.
Prepare(a, kind, t) ==
  /\ job[a] = NoJob
  /\ kind \in {"file", "directory"} <=> t \in Files
  /\ kind = "file" => (state[t] = Absent \/ Regular(state[t]))
  /\ \E c \in JournalCalls, v \in Contents :
       /\ records[c] = NoRecord /\ \A d \in JournalCalls : d < c => records[d] # NoRecord
       /\ job' = [job EXCEPT ![a] = [pc |-> "ready", call |-> c]]
       /\ records' = [records EXCEPT ![c] =
                        [kind |-> kind, target |-> t, pre |-> Backup(kind, t),
                         set |-> IF kind = "settings" THEN {<<t, v>>} ELSE {}, post |-> "none",
                         ok |-> FALSE, status |-> "unrecorded"]]
       /\ before' = [before EXCEPT ![c] = Held(IF kind = "workspace" THEN Files ELSE {t})]
  /\ UNCHANGED <<state, edits, left, raced>>

\* What a tool may leave: file_edit writes its file or, with an error, nothing;
\* directory_create makes the directory; a command does anything to the files.
Effects(r, ok) ==
  CASE r.kind = "file" -> IF ok THEN {Puts({<<r.target, v>>}) : v \in Contents} ELSE {state}
    [] r.kind = "directory" ->
         IF ok /\ state[r.target] = Absent THEN {Puts({<<r.target, Directory>>})} ELSE {state}
    [] r.kind = "settings" -> IF ok THEN {Puts(r.set)} ELSE {state}
    [] OTHER -> {state} \cup {Puts({<<f, v>>}) : f \in Files, v \in TargetValues}

\* The tool runs.
Execute(a) ==
  /\ job[a].pc = "ready"
  /\ LET c == job[a].call
         r == records[c]
     IN \E ok \in BOOLEAN :
          /\ state' \in Effects(r, ok)
          /\ records' = [records EXCEPT ![c].ok = ok]
          /\ job' = [job EXCEPT ![a].pc = "ran"]
          /\ left' = [left EXCEPT ![c] = {<<r.target, state'[r.target]>>}]
          /\ raced' = raced \cup Disturbed({a})
                        \cup (IF r.kind # "workspace" /\ before[c] # Held({r.target})
                              THEN {c} ELSE {})
  /\ UNCHANGED <<edits, before>>

\* Mutant: the record does not keep what the tool left.
Hash_Never(r) == "none"

\* finalize_restore_metadata(), after a success: a file's hash.  Of settings, the value
\* that was asked for.
Hash(r) ==
  CASE r.ok /\ r.kind = "file" /\ Regular(state[r.target]) -> state[r.target]
    [] r.kind = "settings" -> Cleaned(ValueIn(r.set, SettingsFile))
    [] OTHER -> "none"

\* No backup was made, or none was needed: the change is recorded as irreversible.
Reversible(r) ==
  CASE r.kind = "directory" -> r.pre = {<<r.target, Absent>>}
    [] r.kind = "settings" -> r.pre # r.set
    [] OTHER -> TRUE

\* The call is recorded, or the record fails and nobody hears of it; so it does if the
\* process dies here.
Record(a) ==
  /\ job[a].pc = "ran"
  /\ LET c == job[a].call
         r == records[c]
         kept == IF r.kind = "settings" THEN {<<t, Cleaned(ValueIn(r.pre, t))>> : t \in {SettingsFile}}
                 ELSE r.pre
     IN \E status \in {IF Reversible(r) THEN "available" ELSE "unavailable", "unrecorded"} :
          records' = [records EXCEPT ![c] = [r EXCEPT !.post = Hash(r), !.pre = kept, !.status = status]]
  /\ job' = [job EXCEPT ![a] = NoJob]
  /\ UNCHANGED <<state, edits, before, left, raced>>

--------------------------------------------------------------------------------
\* The record of a settings change holds both values; of a file, a hash.
Fits(r, t) == r.post = "none" \/ r.post = state[t]

\* What an undo looks at before it touches anything.
Allows(r) ==
  CASE r.kind = "file" -> Regular(state[r.target]) /\ Fits(r, r.target)
    [] r.kind = "directory" -> state[r.target] = Directory
    [] r.kind = "settings" -> Fits(r, SettingsFile)
    [] OTHER -> TRUE

FinishUndo(a, c, status) ==
  /\ records' = [records EXCEPT ![c].status = status]
  /\ job' = [job EXCEPT ![a] = NoJob]

\* Mutant: the check is the file's existence.
Undo_Unchecked(a, c) ==
  /\ job[a] = NoJob /\ records[c].status \in {"available", "failed"}
  /\ job' = [job EXCEPT ![a] = [pc |-> "checked", call |-> c]]
  /\ UNCHANGED <<state, records, edits, before, left, raced>>

\* rollback(), approved, of a record that was not rolled back: its checks.
Undo(a, c) ==
  /\ job[a] = NoJob /\ records[c].status \in {"available", "failed"}
  /\ IF Allows(records[c])
     THEN /\ job' = [job EXCEPT ![a] = [pc |-> "checked", call |-> c]] /\ UNCHANGED records
     ELSE FinishUndo(a, c, "failed")
  /\ UNCHANGED <<state, edits, before, left, raced>>

Undoing(a, kinds) == job[a].pc = "checked" /\ records[job[a].call].kind \in kinds

\* Put back a file or a setting, or remove what was created.  A directory with something
\* in it stays.
PutBack(a) ==
  /\ Undoing(a, {"file", "directory", "settings"})
  /\ LET c == job[a].call
         r == records[c]
         fails == CASE r.kind = "directory" -> state[r.target] # Directory
                    [] r.pre = {<<r.target, Absent>>} -> ~Regular(state[r.target])
                    [] OTHER -> state[r.target] = Directory
     IN /\ IF fails THEN UNCHANGED state ELSE state' = Puts(r.pre)
        /\ FinishUndo(a, c, IF fails THEN "failed" ELSE "completed")
  /\ raced' = raced \cup Disturbed({a})
  /\ UNCHANGED <<edits, before, left>>

\* Everything in the workspace is removed.
EmptyWorkspace(a) ==
  /\ Undoing(a, {"workspace"})
  /\ state' = [t \in Targets |-> IF t \in Files THEN Absent ELSE state[t]]
  /\ job' = [job EXCEPT ![a].pc = "emptied"]
  /\ raced' = raced \cup Disturbed({a})
  /\ UNCHANGED <<records, edits, before, left>>

\* The archive is unpacked; an error, also of one file, ends it there.
Extract(a) ==
  /\ job[a].pc = "emptied"
  /\ state' = Puts(records[job[a].call].pre) /\ FinishUndo(a, job[a].call, "completed")
  /\ raced' = raced \cup Disturbed({a})
  /\ UNCHANGED <<edits, before, left>>

ExtractFails(a) ==
  /\ job[a].pc = "emptied"
  /\ \E part \in SUBSET records[job[a].call].pre :
       state' = Puts(part) /\ FinishUndo(a, job[a].call, "failed")
  /\ raced' = raced \cup Disturbed({a})
  /\ UNCHANGED <<edits, before, left>>

\* The user, or a program of the user's, changes a path or a setting.
UserEdits ==
  /\ edits < MaxEdits /\ edits' = edits + 1
  /\ \E t \in Targets, v \in TargetValues :
       /\ t = SettingsFile => v \in Contents
       /\ state' = [state EXCEPT ![t] = v]
  /\ raced' = raced \cup Disturbed({})
  /\ UNCHANGED <<job, records, before, left>>

AgentStep(a) ==
  \/ \E kind \in ChangeKinds, t \in Targets : Prepare(a, kind, t)
  \/ Execute(a) \/ Record(a)
  \/ \E c \in JournalCalls : Undo(a, c)
  \/ PutBack(a) \/ EmptyWorkspace(a) \/ Extract(a) \/ ExtractFails(a)

JournalNext == (\E a \in Agents : AgentStep(a)) \/ UserEdits

JournalSpec == JournalInit /\ [][JournalNext]_journalVars

--------------------------------------------------------------------------------
JournalTypeOK ==
  /\ state \in [Targets -> TargetValues]
  /\ \A a \in Agents : job[a].pc \in {"idle", "ready", "ran", "checked", "emptied"}
  /\ \A c \in JournalCalls : records[c].status \in
       {"none", "unrecorded", "available", "unavailable", "failed", "completed"}
  /\ edits \in 0..MaxEdits /\ raced \subseteq JournalCalls

\* An undo replaces a file or a setting only while it holds what the call left there:
\* newer work stays (the hash of the record), but for work that falls between two steps
\* of the call or of the undo, for a call that failed, whose record has no hash, and for
\* settings too long for a record.
NewerWorkKept ==
  [][\A a \in Agents : Undoing(a, {"file", "directory", "settings"}) /\ job'[a] = NoJob =>
       LET c == job[a].call
           t == records[c].target
       IN state'[t] # state[t] =>
            \/ <<t, state[t]>> \in left[c] \/ c \in raced \/ ~records[c].ok
            \/ t = SettingsFile /\ state[t] = Clipped]_journalVars

\* What an undo reports completed is as the call found it: of a command, the files an
\* archive holds; of settings, values that a record can hold.
UndoneIsAsBefore ==
  [][\A c \in JournalCalls \ raced' :
       records[c].status # "completed" /\ records'[c].status = "completed" =>
         \A tv \in before[c] :
           (tv[1] \in LeftOut \/ tv[2] \in Long) \/ state'[tv[1]] = tv[2]]_journalVars

\* An undo takes back what its call did, all of it and nothing else.
UndoIsExact == NewerWorkKept /\ UndoneIsAsBefore
================================================================================
