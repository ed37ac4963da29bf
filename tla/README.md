# A verification development for AICoder

AICoder (`aicoder/`) is a local coding agent. It lets language models read and
change a project directory through typed tools, alone or as a *team run* in
which several models research, plan, code in parallel, merge and verify. What it
promises its user is about the directory and about not losing work: nothing
unverified reaches the disk, a failed or interrupted commit is undone, a paused
run can be resumed, a grave call is asked for, a change can be taken back, what
others do to shared files meanwhile is respected, and a run comes to an end and
says how.

This directory holds TLA+ models of the parts that keep these promises, the TLC
configurations that check them on small instances, and theorems that TLAPS
proves for all instances. `PROJECT.json` lists components, runs, theorems, the
hazards the properties are for, and for every definition the source lines it
translates.

    tlc -config TeamRun.cfg MCTeamRun     # any row of the table of runs
    tlapm RamWorkspaceProofs.tla          # any *Proofs.tla

Contents: [1 Inventory](#1-inventory), [2 Plan](#2-plan),
[3 Modules](#3-modules), [4 Runs](#4-runs-and-what-they-show),
[5 Where code and documents part](#5-where-code-and-documents-part),
[6 Proofs](#6-what-is-proved),
[7 Limits](#7-what-is-only-model-checked-and-what-is-not-modelled).

## 1 Inventory

Line counts are of the file. "State" is what outlives a call; the module is in
brackets.

### What happens to the user's work

**Transactional workspace** (`workspace_backend.py`, 1051; `workspace_backup.py`,
330) [`RamWorkspace`]. A run works on an isolated copy of the project directory.
State: the source directory, the copy, the baseline manifest taken with the
copy, a backup directory during a commit, a checkpoint archive per plan, an
archive snapshot per commit.
Operations: `prepare`, `delta_summary`, `checkpoint`, `_restore_checkpoint`,
`seed_from`, `finalize` (conflict check, snapshot, backup, install directories,
install leaves, delete, read back; on any exception roll back), `abort`.
Hard: failure, interrupt and kill between any two file operations; edits by
others before and after the conflict check; paths that change their kind; a
checkpoint older than the directory.
Correct when: a commit is all or nothing and exact; what it overwrites was at the
baseline; nothing of the user's is lost at any point; a resumed run finds its
work.

**Team run** (`team_orchestrator.py`, 4624; `team_pipeline.py`, 353)
[`TeamRun`]. One call of `run_team` takes a lock per directory and task, runs its
stages, and reports one terminal status.
State: the stage ledger, candidates and futures, the integration workspace, the
StageOff file, the lock file.
Hard: several copies of one directory taken at different times; other runs and
the user writing to it; stops and interrupts at any stage; failures after the
commit.
Correct when: only verified work is committed, only the run's own work is, a
stopped run leaves the disk alone as long as it can, and the status is true.

**Team planning stages** (`_call_stage_agent`, `_run_researcher`, `_coordinate_stageoff`
and `_run_team_pipeline` around them; `stage_context.py`)
[`TeamStages`]. Research planning, research, brainstorm rounds and code planning;
each ends with a coordinator that works its output into the StageOff.
Hard: models that fail, are paused, or answer after all repairs with what the
workspace shows to be untrue; a coordinator that fails; a stop in between.
Correct when: coding begins with the checked output of every stage and with no
model left at work.

**Team coding stage** (`_run_candidate` and the pool around it) [`TeamCoding`]. A
thread per lane, a slot per provider, two agent processes per lane (implementer,
then a fresh finisher), automatic resumption, a liveness timeout, a quorum that
stops the other variants.
State: semaphores, the stop event, each lane's workspace, phase, number of
resumes, cached verdict and time of last progress.
Hard: results in any order, a stop that arrives in a back-off, an exception in
one lane, an interrupt of the main thread, verdicts older than the workspace.
Correct when: what is offered to the merge is verified as it is, slots balance,
no workspace outlives the run, the stage ends.

**Agent runtime** (`agent_runtime.py`, 2584; `agent_plan.py`, 329) [`AgentLoop`].
The loop of one agent process: model turn, tool batch, plan progress,
verification before completion, hand-over of the workspace, pause and resume.
State: conversation, plan (two files), progress flags.
Hard: stop while a request or a tool is running, completion claimed before
verification, a crash between a tool and its record or inside a save.
Correct when: what is reported complete was checked after its last change to code and
handed over, the plan says what the caller was told, a stopped run stops, and a
run ends whatever the model says.

**Approval of calls** (`gui/chat_widget.py`, `agent.py`, `privileges.py`,
`task_contract.py`, `tool_policy.py`, the gates of `executor.py`) [`Approval`].
The list of tools, the task's contract, the workspace's bounds, the risk of the
call and the surface decide. On the desktop the agent thread waits at most two
minutes for the window's thread. Hard: an answer that comes after the wait.
Correct when: an answer is used for the request it was given to, and nothing
grave runs without one.

**Change journal** (`change_journal.py`, 317; `run_tool` of `executor.py`)
[`ChangeJournal`]. A backup before every tool that may change something, a record
after it, a checked undo. Hard: undoing out of order, over newer work, or half
way. Correct when: an undo restores the state before the change or refuses.

### What the parts share

**Settings store** (`settings.py`, 641) [`SettingsStore`]. `state.json` with a lock
between processes, atomic replacement, a cache keyed by a file stamp, quarantine
of damaged files. Hard: GUI and CLI write at once; a cache filled after the lock
is gone. Correct when: no update is lost.

**Project memory** (`project_memory.py`, 484) [`ProjectMemory`]. A SQLite database
per device, shared by all processes, synchronised with a server by revision
numbers: `store`, `update`, `sync` (`cursor`, `dirty_changes`, network,
`apply_sync`). Hard: four connections and a network call without a common lock;
lost requests and answers; other devices. Correct when: no write disappears, the
cursor skips nothing, replicas converge.

**Backend client** (`client.py`, 793; session file of `config.py`)
[`ClientSession`]. HTTP with a token that parallel lanes renew, retries, cancel by
request id. Hard: lanes that find the token old together; a broken connection
after the backend did what was asked. Correct when: a token is renewed once and
what must not be repeated is not.

**Model transports and account providers** (`model_transport.py`, 575;
`account_providers.py`, 2207) [`ModelRequests`, `ProviderAccounts`]. A routing
transport shared by a team, one request resource per call (an HTTP response, a
client program, an app server that shakes hands), cancel by walking over all
transports; linked accounts, whose clients and servers may disagree on whether
they are signed in. Hard: cancels racing the life of a request; a client that
believes in a refused session. Correct when: a cancel hits its own request only,
nothing stays open, a refused session is not linked again.

**MCP servers** (`mcp_service.py`, `mcp_registry.py`, `mcp_oauth.py`,
`mcp_credentials.py`) [`McpServers`]. A registry file and the keyring, changed
together without a lock and undone from copies; sessions and tokens renewed by
who uses them. Hard: a failure between the two or in the undo, a keyring whose reads
fail quietly, an interrupt. Correct when: a change that fails leaves both as they were, and
the keyring holds what the settings need and nothing else.

**Shared notify** (`shared_notify.py`, 701) [`SharedNotify`, `NotifyShares`].
Mailboxes with acknowledgement, a bounded queue a window drains, RPC by
correlation id; and a file of what this machine publishes, read and written
whole around network calls. Correct when: no message is acknowledged and lost,
and a share lasts until it is taken back.

**Remote node** (`remote_node.py`, 423) [`RemoteNode`]. Handles a server's tool
calls on the user's machine while the user edits; may end and be started again
with a call repeated. Correct when: what it writes over is backed up, and a change
does not count as verified by an older reading.

**Desktop** (`gui/chat_widget.py`, 1300; `gui/settings_widget.py`, 1291;
`chat_history.py`; `voice.py`) [`Desktop`, `SettingsWindow`]. A worker thread whose
signals the window handles later, chats the user may leave meanwhile, voice
control; settings controls over a file others change. Correct when: messages stay
with their chat, the page comes to rest, and the controls show the file.

### Not modelled

| Component | Files | Why |
|---|---|---|
| Local models, helper, log monitor | `local_models.py`, `helper_control.py`, `system_log_monitor.py`, `providers.py`, `model_capabilities.py` | starting of other programs, one reader thread, stateless tables |
| Credentials, browser login, setup | `provider_credentials.py`, `browser_auth.py`, `setup.py` | single writes, one request of a callback server, an installer dialogue |
| Command line and other widgets | `cli.py` (2211), `ui.py`, `repl_input.py`, `commands.py`, the other `gui/*.py` | parsing, output, layout; what they may call is in the modules above |
| Prompts, evidence, extensions | `team_handoff.py`, `docs_context.py`, `skills.py`, `optimizer.py`, `evidence_memory.py`, `audit.py`, `plugins.py`, `hooks.py`, ... | text for models, append-only records, optional hooks |

### How they interact

A GUI worker or the CLI calls either the agent runtime on a workspace of its own
(`open_workspace_for_run`, `runtime.run`, `finalize` as completion guard,
`preserve_workspace_for_resume` when it pauses) or `run_team`. A team run makes
one workspace per lane and one for the integration, and runs an agent runtime in
each; the lanes share the client, the transports, the provider slots and the
user's stop flag and nothing else. Only the integration workspace is ever
committed. Every tool call goes through `run_tool`: approval, backup, execution,
record. Agent runs and team stages write to project memory and start a sync. All
processes of a user share the project directory, `state.json`,
`shared_notify.json`, the registry of MCP servers and the keyring, the chat
database and the project memory database; the directory has no lock of its own,
and the team lock excludes the same task only.

## 2 Plan

The order of work was: what decides about the user's directory, then what decides
whether a call runs and can be undone, then the stores that processes share, then
the connections to the world, then the window.

1. *Done.* The commit protocol: `WorkspaceTree`, `RamWorkspace`, `AtomicCommit`
   and proofs, the refinement included.
2. *Done.* `ProjectMemory`, and its proofs.
3. *Done.* `TeamCoding`, and its proofs.
4. *Done.* `TeamRun`, composed with 1 by its promise (`finalize` is one step) and
   with 3 by its result (a lane is verified or not); `TeamStages` for the stages before
   the coding; proofs of both.
5. *Done.* `AgentLoop` with crash and resume, and its proofs; its promise is what
   `TeamCoding`'s `EndRun` uses.
6. *Done.* `Approval`, `ChangeJournal`: the gates before and the record after a
   tool, and proofs of both.
7. *Done.* `SettingsStore`, `ClientSession`, `SharedNotify`, `NotifyShares`,
   `ModelRequests`, `ProviderAccounts`, `McpServers`, `RemoteNode`, and proofs of all
   their properties.
8. *Done.* `Desktop`, `SettingsWindow`, and proofs of their properties.
9. *Left.* That a commit ends, as far as it can be proved: a measure that every step of
   `finalize` reduces, an action property beside `FinalizeEnds`.
10. *Left.* Verification plans and ranking as operators
    (`merge_verification_plans`, `objective_rank_key`) against reference
    definitions; the batch limit of project memory with several entries.

## 3 Modules

    WorkspaceTree ── RamWorkspace ── MCRamWorkspace ── RamWorkspaceClaims
             ├────── AtomicCommit (instantiated by RamWorkspace)
             └────── RamWorkspaceProofs
    ProjectMemory ── MCProjectMemory    ProjectMemory ── ProjectMemoryProofs
    TeamRun ── MCTeamRun          TeamRun ── TeamRunProofs
    TeamCoding ── MCTeamCoding    TeamCoding, TeamStages ── TeamCodingProofs
    AgentLoop ── MCAgentLoop      AgentLoop ── AgentLoopProofs

    Approval  ChangeJournal  SettingsStore  ClientSession  SharedNotify  NotifyShares
    TeamStages  ModelRequests  ProviderAccounts  McpServers  RemoteNode  Desktop
    SettingsWindow
         └─ all ── MCServices ── ServiceClaims
    Approval, ClientSession, ModelRequests, NotifyShares, SharedNotify ── ServiceProofs
    ChangeJournal, Desktop, RemoteNode, SettingsStore, SettingsWindow ── DesktopProofs
    McpServers, ProviderAccounts ── CredentialProofs

`MC...` modules give small instances; `...Claims` modules state what the
repository's documents say where the code does otherwise (section 5). A definition
`X_Something` before an `X` is a plausible bug of `X`, which breaks one property.

### WorkspaceTree, RamWorkspace, AtomicCommit

A directory is a function from paths to entries. A path is a model value with its
ancestors; an entry is a file, a directory (one value per mode), a symlink that
leaves the workspace, or nothing, as `_Entry` and `_iter_tree` distinguish them.
`RemovePath`, `MkParents` and `Install` are `_remove_path`, `mkdir(parents=True)`
and `_atomic_install`; `Erasures` is what a recursive removal has deleted when it
fails half way.

`pc` of `RamWorkspace` follows one run: `open` (the agent works; `Work` may leave
any tree of `Candidates`), then `finalize`: `FinalizeStart` is the conflict check,
`Snapshot`, one `Backup(p)` per affected path, then one `InstallDir`,
`InstallLeaf`, `Delete` per path in the code's order, the read-back, and
`CommitDone`. A failure or interrupt (`...Fails`, `...Refused`, `Interrupt`)
enters the rollback, itself a loop of `Undo(p)` and `Restore(p)` that may be
refused or interrupted; `Kill` may happen between any two steps. `Preserve` is
`checkpoint` and `OpenResumed`/`OpenDirect` are the next session. Somebody else
edits the source in `EditPhases`. History variables remember the source at the
conflict check (`pre`), outside edits (`user`, `raced`), and that the backup is
complete (`secured`).

`AtomicCommit` is the promise: a private view, then one step that puts the whole
delta in place onto unchanged paths, or nothing; torn only after a kill or a
reported rollback failure. `RamWorkspace!Promise` instantiates it: while a
transaction runs, the abstract directory is the one before it.

### ProjectMemory

A *session* is a process (or agent thread) on a *device*; `rows`, `cursor` and
`conflicts` are the tables. `sync` is four steps because the code makes them on
separate connections: `ReadCursor`, `ReadDirty`, the network (`Serve`, external,
or `NetworkFails`), `Apply` (one transaction). `update` is `UpdateReads` and
`UpdateWrites`. The content of an entry is, per field, the number of the write that
set it, so that a lost write is visible. The server accepts a change whose base
version is current; `ForeignPush` is another client, possibly of a version that
writes what this one rejects: `Apply` takes an answer if every item that is written can be
read (`Upserted`; rows that are dirty or newer are skipped, and so is the check of what the
server has for them), and otherwise nothing of it (`ApplyRefused`).

### TeamRun, TeamStages, TeamCoding

`at[r]` of `TeamRun` is the stage of a run, `lanes` and `integration` its isolated
copies with the tree each was copied from, `disk` the directory. `OpenLane` copies
the directory when a lane begins, `Integrate` copies it again and seeds the copy
with the winner's tree (`Seed`: plus the disjoint deltas of the other parts), agents
write into the copies (`LaneEdits`, `IntegrationEdits`), `Verify`, `VerifyFails`,
`Repaired` are the gate, `Commit` is `finalize`, `Complete`, `Fail`, `Interrupt`
and `Terminate` end the run. `UserEdits` is the user. `touched`, `skewed` and
`drifted` remember who changed what between which copies.

`TeamStages` is the part of `_run_team_pipeline` before: `planning` says at which
step of which stage the main thread is, `worker` what each model call does (it
`runs` in a throw-away copy, or `waits` for a resume), with the bounded
repairs of its contract. A report is sound, or lacks sections, recommends what the user has
forbidden, or says what is not so. What is not so is found by two checks (`Untrue`): a
research plan against a copy of the workspace with nothing in it, and a researcher's
sources, unless the researchers may use the web. Another test decides if models are asked
at all (`SelfContained`): a workspace may hold a readme and yet no project, so `sourceHas`
tells three cases apart. `Normalized` is what the code makes of the last answer;
`Coordinate` appends the stage to the StageOff whether or not the coordinator answers.

`lane[l]` of `TeamCoding` is the thread of a lane: where it is (`queued` in the pool,
`waiting` for its provider, `running` an agent, `ended` with a run to judge,
`backoff`, `returned`, `raised`, `cancelled`), its phase, what is in its workspace
(nothing changed, a change that fails, one that passes), its cached verdict, how its
last run ended, its resumes, and whether the liveness timeout has caught it. `Decide`
is the body of the loop of `_run_candidate` after `runtime.run()`: `GiveUp`,
`HandOver`, `Finish`, `BackOff`, `Exhausted`. The main thread `Collect`s and
`Discard`s futures as they finish, raises `quorumStop`, and `Select`s; `Interrupt`
is Ctrl+C, after which the pool is waited for, and `CleanUp` the `finally` block.

### AgentLoop

`pc` follows `_run_impl`: `turn` (limits, yield, stop), `asking` (a thread waits for
the model), `replied`, `calling` with the batch's `calls` still to run, `checked`
(the gates are passed), `ran` (the tool has had its effect, nothing is recorded),
`batch`, then `commit` (the completion guard), `complete` (the plan), `over`, `off`;
or `dead`.
A call is known by what it can do (`Calls`); the model may answer any batch of
`Batches`, a final text, or nothing. The flags have the code's names. `plans` are the
plans' files, `current` is `current.json`: `Save` writes the one and then the other, or
dies in between. `Resume` is another process
that takes a plan up. `unchecked` (a change to code waits for a check), `readback` (the last
change is a document that was read back), `untested` and `committed` record what really
happened, `lost` the runs that crashed between a tool and the record of it. The code has one
flag for all changes of a run, so the first two are kept apart from it.

### Approval, ChangeJournal

`Approval`: a call is the set of its `Facets` (it deletes, leaves the workspace,
...). `Request` is the way through the gates to the risk; `Unasked`, `Blocked`,
`AskTerminal`, `AskPolicy` decide without a dialog. On the desktop `AskWindow` clears
the event, `Emit` posts the signal, `Deliver` and `UserAnswers` are the dialog,
`SetResult` and `SetEvent` are two steps as in the code, `Wake`, `GiveUp` and
`Return` the agent's thread. The box belongs to the run, as `_approval_event` and
`_approval_result` do. `Delegate` is a sub-agent with a policy of its own.

`ChangeJournal`: a call of a tool is `Prepare` (the backup its kind has), `Execute`
(any effect the tool may have, or a failure half way), `Record`; an undo is checked
(`Undo`), then `PutBack`, or `EmptyWorkspace` and `Extract`, which may fail. `UserEdits`
at any point. `before` and `left` remember what each call found and left.

### SettingsStore, SettingsWindow

A store's operation is `LockFile`, `Stat` (the cache or the file), `Read`,
`Quarantine`, `Fill`, `Write`, `Written` (which stamps the cache, without the lock).
`SettingsWindow` has the controls (`shows`), what the user `entered`, the file, and
`lastTaken`, the snapshot `PollFile` compares with; a save is one write (`InForm`) or
several (`Paired`) and ends with `TakeState`. The model's list has a text field: `item` is
the chosen item, which a save prefers to the text (`Holds`) and which typing, the poll and
a click in the list of account models leave as it is; `LeaveField`, `ModelsLoaded` and
`EmptyLists` are the other ways it changes. `slipped` remembers that text and item came
apart.

### ClientSession, ModelRequests, ProviderAccounts, McpServers

`ClientSession`: `lane[l]` goes through `_ensure_token_fresh` (`LooksFresh`, `LockToken`,
`Renew`, `LoadSession`, `SaveSession`) and `_request` with its retries (`Send`,
`Answered`, `Lost`, `Expired`). Tokens age (`Ages`); the user logs in and out.

`ModelRequests`: a request is routed, gets a transport, opens its resource (`OpenHttp`,
`StartProgram`, `StartServer` and `Handshake`), registers it under its id (`List`),
reads, and finishes; the asker may time out or be stopped and walk over the transports
(`CancelAccount`, `CancelDirect`, or `WalkBreaks` when the table changes under it).

`ProviderAccounts`: of every account what its client and its server believe, the list
of linked accounts, read and written back by whoever probes, connects, disconnects or
meets a refusal (`TakesList`, `WriteList`). `McpServers`: of every server the registry's
entry, the keyring's secrets and what the server accepts; an operation of a user keeps
copies (`Keep`), goes on step by step, and on a failure undoes secrets and settings
(`UndoSecrets`, `UndoConfig`), each of which may fail too (`UndoSecretsFails`,
`UndoConfigFails`). A read of the keyring may always seem to find nothing (`Seen`), so a
copy may miss a secret and a cleanup or an undo leave one. `Interrupted` is Ctrl+C or a kill
at any step, after which nothing is undone, `TestStopped` the one test that undoes even then.
When a token runs out is left open.

### SharedNotify, NotifyShares, RemoteNode, Desktop

`SharedNotify`: a poller takes the rows of a mailbox (`Poll`), handles each (`Queue`,
`Store`, `Think`, `RunTool`, `Reply`) and acknowledges it; every step may fail after it
had its effect. `unheard` are the requests whose answer was not sent because their sender
is not in the directory. Processes `Exit` with their queue. `NotifyShares`: an operation reads
the file, `Ask`s the backend, and `Save`s the whole file; `Reconfigure` is the user's
change of the MCP servers meanwhile.

`RemoteNode`: one call after the other, `CheckWrite`, `BackUp`, `ReadOld`, `WriteNew`,
`ReadBack`, `RecordCall`, `AnswerCall`; `NodeEnds` at any point, `NodeStarts` with the
call repeated or not, `UserSaves` at any point.

`Desktop`: `runner` is the worker, `posted` its signals in order, `selected` and
`context` what the window shows and sends next; `OnResponse` and the like are the
window's slots, run later, in whatever chat is open then.

### MCServices

The thirteen modules of the services share no variable. Their composition would be a
product of independent state spaces, of which no property of one sees the other, so
`MCServices` explores the union: `focus` is chosen in the initial state, and the
components out of focus keep their initial values. Where they do interact in the code,
the interaction is a step of one module (a renewal during an MCP test, a key entered
while requests run, a stop while an approval waits).

## 4 Runs and what they show

| Run | Instance | Distinct states | Shows |
|---|---|---|---|
| `RamCommit` | a directory, a child, a cache beside it that is not copied; every kind of entry before and after; two sessions with a checkpoint, an edit in any phase; faults in backup, commit and rollback, kill | 1 770 000 | `ContentRecoverable`, `OutcomeIsExact`, `UnrelatedEditsSurvive`, `CommitsOntoBaseline`, `ResumeContinues`, `FinalizeEnds`: the protocol's own correctness for every change of kind, under edits and over a resumption |
| `RamRefines` | two children, an edit by somebody else, faults, kill | 53 000 | `ImplementsAtomicCommit` |
| `MemorySync` | one device with two processes, one entry of two fields, a lost message, a foreign push | 434 000 | `LocalEditKept`, `CursorSound`, `Converges` |
| `TeamCoding` | two lanes that share a provider or not, parts or variants, one resume | 397 000 | `MergeInputsVerified`, `LanesAreClosed`, `StageEnds` |
| `TeamRun` | two runs, of one task (one with two lanes) or of two tasks with a lane each; two files, one user edit | 425 000 | `CommitsOwnWork`, `VerifiedOnDisk`, `StatusTellsTheDisk`, `StoppedRunsStayOff`, `RunsEnd` |
| `AgentLoop` | two processes one after the other, two plans, batches of up to two calls, one crash | 1 840 000 | `CompletedIsSound`, `PlanTellsTheEnd`, `StopIsPrompt`, `CurrentIsBehind`, `RunEnds` |
| `Services` | the thirteen services, below | 3 470 000 | the seventeen properties below |
| `ClaimBackup`, `ClaimAnswer`, `ClaimSettings`, `ClaimRefresh`, `ClaimChecked` | | | counterexamples to what a document says, section 5 |

`Services` by focus:

| Focus | Instance | States | Property: what it says |
|---|---|---|---|
| settings | two stores, two settings, three operations, one damage | 90 000 | `UpdatesKept`: until a cache with a late stamp is used to write, no update is lost |
| journal | two agents, two files of which a snapshot leaves one out, the settings, two edits of the user | 58 000 | `UndoIsExact`: newer work stays, and what is reported undone is as before |
| approval | all nine surfaces, two calls, two runs, a stop | 62 000 | `AnswersFit`, `GraveIsConfirmed`: a call runs on its own answer; what is grave has one |
| client | two lanes of one client, three tokens, two requests, a login | 200 000 | `OnceOnly`: a token is renewed once, a request that must not be repeated done once |
| notify | a window and a command line, two messages, one call, one exit | 751 000 | `MailIsKept`: what has left the mailbox was taken care of before |
| shares | two actors, two servers, three operations, a poll | 9 000 | `ChosenAreShared`: what the user published is in the file |
| stages | a researcher, a thinker and the lead, two rounds, one resume; a coordinator and no web, or a task that needs the web and no coordinator | 917 000 | `PlanningIsSound`: what coding begins with is complete, checked, and nothing is at work |
| requests | two agents, one transport of each kind, two requests, a new key | 274 000 | `OnlyTheStopped`, `NothingStaysOpen` |
| accounts | three kinds of accounts, two threads, two operations, two sessions | 215 000 | `RefusedStaysOut`: a session found refused is not linked again |
| mcp | one server, a window and an agent, two operations, two keys or tokens | 180 000 | `FailedIsUndone`, `CredentialsFit`: after a failure both are as before; the keyring has what the settings need |
| desktop | two chats, two questions, one command heard | 376 000 | `ChatsStayApart`, `WindowSettles` |
| remote | three calls, one save of the user, one crash | 59 000 | `RemoteWorkIsCovered` |
| window | three settings, two saves, two outside changes | 283 000 | `ControlsFollow`: a control that does not show the file shows an entry of the user's or a setting changed since |

Every property has a mutant beside the definition it changes: replacing `X` by
`X_Something` makes TLC find the property violated.

**Bounds.** *Workspace*: an operation concerns a path, its ancestors and its
descendants; a directory, a child and the cache beside it have all three relations
(`RamCommit`), and two children and a path beside their directory show order among siblings
(`RamRefines`). Two sessions are one resumption; a
third repeats the second. One outside edit is the least that can conflict or be
lost, in each phase. *Memory*: two writes are needed for one to overwrite the
other, two processes to interleave; entries do not interact but through the cursor,
and the foreign push provides the second revision. *Coding*: two lanes are the
least that compete for a slot and where one's quorum stops the other; a third adds
no new relation, and one resume separates "may resume" from "exhausted". *Runs*:
two runs, and two files of which one needs the other (`Fitting`), so that two
commits that are each verified can be wrong together; one edit of the user is
enough to skew, drift or conflict. *Agent*: batches of one or two calls suffice for a change after a
verification, and two plans for a resume of one beside the other; `Limit` is 1, to which
`Grace` adds two turns, so that change, verification and ending fit in turns of their
own. *Services*: two actors are the least that interleave; each bound on operations is
the least with which the mutants' errors and the claims' counterexamples occur, plus
one where the time allows. A server of `McpServers` that is entangled is not followed
further, as its properties say nothing of it. Users, the two values of a setting, the
chats nothing was asked in yet, and the threads before their first request are
interchangeable; `MCServices` takes one of each to begin with. Proofs (section 6) remove the bounds for the properties
they cover.

**Fairness.** `RamWorkspace`: the process goes on with `finalize` (no fairness on
faults, kills or agents). `ProjectMemory`: each process goes on syncing, as every
agent run and stage starts one (`sync` is called fail-open after each), and ends an
`update` it began. `TeamCoding`: threads and the main thread go on, and an agent
process ends, since requests time out and its iterations are bounded; nothing
is assumed of timeouts, stops, edits or crashes. `TeamRun`: the same for runs.
`AgentLoop`: a tool ends, as it has a time limit, and the process goes on; nothing is
assumed of the model, which may never answer: `RunEnds` excepts waiting for it, but
not when the user stops. In all of them a provider may fail for ever and a user may
never press stop. The services have no liveness property: what must happen there waits
for a user, a server or a window.

**Conditions in the properties.** Some properties except a case; each exception is
one the code has, named in section 5 or here. `ContentRecoverable` and
`OutcomeIsExact` except things in an affected directory that are not part of the
transaction (`NoBystanders`), and the latter parents that did not have the mode
`mkdir` gives (`PlainParents`): the restore recreates removed parents with it.
`ResumeContinues` excepts directories whose mode changed: the archive's directories
are recreated by `mkdir`. `LocalEditKept` excepts writes made while another process
held an older copy. `MergeInputsVerified` excepts lanes whose finisher did not end by
itself or took every change back. `CommitsOwnWork` excepts paths that changed between
the copies, `VerifiedOnDisk` runs whose directory changed after the copy that was
verified. `CompletedIsSound` excepts plans whose run crashed between a tool and its
record, and code nothing has checked if a document was read back after it (`ClaimChecked`);
`UpdatesKept` what `ClaimSettings` shows, `UndoIsExact` changes by others
between two steps of a call or an undo, paths a snapshot leaves out, and settings too long
for a record. `AnswersFit` and `GraveIsConfirmed` except what `ClaimAnswer` shows;
`ChosenAreShared`, `RefusedStaysOut`, `CredentialsFit` and `FailedIsUndone` except two
actors at a time, as nothing excludes them (below), so `ChosenAreShared` is about retirements
that fail, not about the ones that cross another operation. The last two also except a server
of which a change was interrupted or its last undo failed, or of which the keyring did not
show a secret that was to be removed, kept or put back. `MailIsKept` counts a request as taken
care of that was run and whose sender is not in the directory: it gets no answer.
`PlanningIsSound` says nothing of sources where the researchers may use the web, nor of
research plans for a workspace that is not empty, as the code does not check them; `NothingStaysOpen` the app
server that does not shake hands; `ChatsStayApart` a chat the user left while its answer
was on its way; `RemoteWorkIsCovered` a save of the user between the node's reading and
writing; `ControlsFollow` what `ClaimRefresh` shows, and the model's list while its text and
item differ.

## 5 Where code and documents part

Each of these is a run that TLC ends with a counterexample, and a finding in
`PROJECT.json`.

- `ClaimBackup` (`workspace_backend.py:752`). *Documents*: the affected set is rolled
  back (README.md:170). *Code*: the backup is made inside the `try`; if it fails
  half way, the rollback removes every affected path and can restore only what was
  backed up. A candidate that puts a directory with children in the place of a
  file makes it fail always. The archive snapshot taken before still has the files.
- `ClaimAnswer` (`gui/chat_widget.py:136`). *Documents*: destructive operations always
  require explicit approval (`privileges.py:309`). *Code*: an answer given after the
  two minutes is taken for the next request, which deletes without having been asked.
- `ClaimSettings` (`settings.py:597`). *Documents*: concurrent processes cannot lose
  each other's update (`settings.py:14`). *Code*: a writer stamps its cache after it
  released the lock; another process's write in between is hidden, and written away.
- `ClaimRefresh` (`gui/settings_widget.py:701`). *Documents*: changes of the command
  line become visible in a running GUI (`:750`). *Code*: a save takes the whole file for
  what the controls show; a change made before it since the last comparison never
  appears.

- `ClaimChecked` (`agent_runtime.py:2266`). *Documents*: changes to code need an executable
  check before the run is done (docs/architecture.md:56, the comment at `:808`). *Code*: one
  flag says that the last change is verified. A document that is read back sets it for the
  edit of code before it, too, and the run may end.

Met on the way, without a run of their own:

*Workspace.* A deleted directory is compared by kind and mode and removed with all that
was put in it since (`workspace_backend.py:765`; README.md:92 says unrelated changes are
preserved). A rollback of a directory whose mode changed removes its unchanged files,
which are in no transaction backup (`:714`), and a restored checkpoint recreates it without
them (`:850`). An escaping symlink can be in the backup but not be installed back (`:654`).

*Team run.* The integration workspace is copied after the CODE stage and seeded from the
winner's older copy: a user's edit between the two copies is reverted by the commit, whose
check compares with the second copy only (`team_orchestrator.py:4207`; README.md:165). Two
runs with different tasks can each verify and commit, and what is on disk then was verified
by neither. A failure after the commit is reported as a failed run (`:4572`). A lane whose
finisher is stopped, refused or fruitless keeps the verdict on the implementer's workspace
(`:3053`; CHANGELOG.md:104 "verified-only merge inputs"); the final gate verifies again.
After a liveness timeout a lane without a change is resumed and stopped without end, since
the clock is not reset (`:3039`, comment `:3154`). Research is recorded completed even if every
researcher failed.

*Agent.* A plan may complete with verification skipped where a caller does not enforce it
(`agent_runtime.py:2264`). Sub-agents, and calls that fail half way, change the workspace
without the run's flags, and sub-agents are not given the stop function
(`executor.py:2744`).

*Memory, journal.* A checkpoint stored between another process's `dirty_changes` and its
`apply_sync` is overwritten and marked clean (`project_memory.py:459`; README.md:213). The undo
of a command does not restore paths its archive leaves out (`change_journal.py:268`), and the
command line refuses to undo one.

*Client and transports.* `_ensure_token_fresh` says "once per process", but the lock is one
client's. A renewal may write an old account's token into a new account's session. A lane's
`chat_with_timeout` restores a timeout another request set (`executor.py:219`). An app server
whose handshake fails is never closed. A cancel before a request is registered, on a replaced
transport, or while the table changes, misses it. Account transports keep the timeout of the
request they were made for.

*Accounts, MCP.* A status probe that a slow client does not answer counts as signed out and
unlinks. A session refused between a probe and the writing of the list is linked again. A
failed save or test after a renewal restores tokens the server has rotated away. Two users of
the registry lose updates. A stdio server whose `initialize` fails keeps its process. A read of
the keyring that fails counts as an empty one (`mcp_credentials.py:57`): a removal leaves that
secret, and the undo of a failed change deletes one its copy has missed (`:75`). Ctrl+C during
the test of a save leaves the new key with the old settings (`mcp_service.py:120`), and an undo
that cannot write the registry back says nothing of it (`:129`).

*Notify.* The unlocked reading and writing of `shared_notify.json` loses a share
(`shared_notify.py:290`). `aicoder notify poll` and `serve` queue and acknowledge chat messages
nobody drains there (`:36`). A request of a sender the directory does not list is run,
acknowledged and not answered (`:486`).

*Window and node.* Signals of a running worker are saved to the chat that is selected when they
are handled, and `_on_messages_updated` replaces another chat's context. A late response
disables "Stop" while the next worker, started by voice, runs. A voice command heard before the
voice was switched off is sent, and an old listener's error stops a new one. The poll of the
settings discards unsaved entries when anything changes outside, and sets only the text of the
model's list: the next save writes the item that was chosen before (`settings_widget.py:1273`). A node's replace whose new
text contains the old one applies twice when repeated, and `client_git_status` counts as
verification.

## 6 What is proved

TLAPS checks the following for every value of the constants (sets of paths, trees,
candidates, faults, runs, lanes, providers, plans, batches, stores, tokens, calls, ...),
from the `...Assumption` of the module. Most say that bounds are natural numbers, that constants
are of their kind and that values which stand for "none" are none of the others. The others are: of a
path's ancestors, that they are paths of less depth and that ancestors of an ancestor are ancestors
(`TreeAssumption`); that an agent's view has no transient paths, as `_iter_tree` leaves them out
(`RamAssumption`); that a device's memory has finitely many entries (`MemoryAssumption`); that a call
which deletes also writes, and one that reaches the user's directory leaves the workspace
(`ApprovalAssumption`); that a text clipped for a record is not one of those that are too long
for it, that the files a snapshot leaves out are files, and that the settings file is not the workspace's
(`JournalAssumption`). TLC evaluates every one of them in
the runs. In every module an inductive invariant is kept by one lemma per action; the safety properties
and the refinement that the runs check are all proved, in eight modules. So is every `...TypeOK`
(`TypeCorrect`, `TypesHold`, `...Types`); of `StagesTypeOK`, `ClientTypeOK`, `ApprovalTypeOK`
and `NotifyTypeOK` the invariant of the component alone does not give all: repairs and
rounds stay few (`StagesBounded`), a lock is its client's (`LocksOwn`), what waits is no more than was
asked (`FewWait`), and a full queue drops a message for each it takes (`QueuesFit`).

- `RamWorkspaceProofs!TypeCorrect`: the directory, the copy and the baseline are
  *trees*, whatever exists lies in directories. The invariant `TypeInv` adds that
  a checkpoint is one some session wrote. The argument is one lemma per file
  operation (removal, partial removal, installation and the making of parents map
  trees to trees) and one step per action.
- `GateIsComplete`: `CommitsOntoBaseline`. The check skips a child when a parent is
  replaced by something that is not a directory; `GateIsSound` shows that the
  parent's own check then covers the child, because a tree holds nothing below
  what is not a directory.
- `NothingIsLost`: `ContentRecoverable`. It is not inductive: the strengthening
  `SafeInv` says of each loop which paths are still in the source because they were
  not visited (`TodoInv`, `UntouchedInv`), which are in the backup (`BackupInv`),
  and how far a removal reaches (`ReachInv`). An action either leaves unaffected
  entries alone (`Spares`) or happens when everything affected is in the backup.
- `EditsSurvive`: `UnrelatedEditsSurvive`. What someone wrote away from the difference stays in
  every step (`KeepsEdits`): an installation reaches what is below its target and its parents
  (`InstallReach`), and the rollback restores affected paths and their parents only, since the
  backup holds nothing else (`BackupReach`).
- `OutcomeIsTrue`: `OutcomeIsExact`. A loop visits paths in an order of which only the depth is
  known, so `ExactInv` says what a path that was visited holds and what one still to be
  visited does (`CommitStands`, `RollbackStands`), that parents of what is to be installed
  stand (`ParentsStand`), that a loop has paths of its own kind only (`LoopKinds`), and that
  the backup has each affected entry as it was (`BackupExact`).
- `ResumedContinues`: `ResumeContinues`, an action property. A checkpoint is the difference of
  what its session left (`CheckpointMatches`); laid over the same baseline it gives that tree
  again (`RestoredIsWhatWasLeft`).
- `CommitIsAtomic`: `ImplementsAtomicCommit`, for behaviours in which every transaction is
  `Undisturbed`: nobody edits the directory from the conflict check on, the affected directories
  hold nothing but what the transaction knows, parents that a restore makes are as `mkdir` makes
  them, and a rollback is entered with the backup made. These are the conditions under which the outcome is exact, and each is one
  the code needs: without them `finalize` keeps less than its documents promise (section 5). The
  abstract tree is the one the conflict check saw as long as the transaction runs, so the steps inside are
  stutters (`InsideImplements`) and the ends are `Commit` or `GiveUp` by `OutcomeIsExact`
  (`EndImplements`). New is what is left when a kill or a failed rollback ends it, `Tear`: `PartsInv`
  adds to `ExactInv` that at each affected path is its old entry, its new one or none
  (`MixedStands`). An installation would break this where it makes a parent with a mode of its own;
  that it makes none needs that directories are visited from the top and stay (`DirsStand`,
  `ParentsWereVisited`).
- `ProjectMemoryProofs!EditsAreKept`, `CursorIsSound`: `LocalEditKept`, `CursorSound`. The
  invariant `MemoryInv` speaks of three places at once. A row (`RowOK`) has the last write or
  finds it elsewhere, and is no older than the cursor says; a copy that a process holds,
  read or sent (`CopyOf`), still has what the row has, or the server has what the row has; an
  answer under way (`ItemOK`) names the newest revisions as it was given, and all behind its
  cursor. The log only grows (`LogKept`), so all this survives the steps of others; that an answer's
  items are the newest needs that the server takes each accepted change in once
  (`ServeExtendsLog`). `apply_sync` is followed row by row, through the accepted, the pulled and
  the refused items (`RowStep`); a row that is skipped unread stays.
- `TeamRunProofs!OwnWork`, `VerifiedWork`: `CommitsOwnWork`, `VerifiedOnDisk`. The
  commit writes a difference of two trees of which neither is the directory, so the
  invariant `WorkInv` accounts for every difference from the time it arises: a lane
  differs from the directory only in paths that were written or skewed (`LaneInv`),
  so does the seeded workspace from its copy (`DeltaInv`), and that copy from the
  directory only in paths that drifted (`DriftInv`); what is about to be written
  passed verification (`GateInv`). One lemma per action keeps it; `ChangesKeepWork`
  serves both ways the directory changes, a commit of another run and a user's edit.
- `TrueStatus`: `StatusTellsTheDisk`, from who has committed at which stage
  (`StatusInv`). `StaysOff`: `StoppedRunsStayOff`, a temporal formula; once a run is
  stopped and not past its merge (`Off`), no step brings it there.
- `TeamCodingProofs!LanesClose`: `LanesAreClosed`. That slots balance counts the lanes
  that hold one; every action adds one lane to them, takes one from them or leaves them
  (`SlotTaken`, `SlotGivenBack`, `SlotsStay`). That no workspace is left needs where a lane
  with a workspace may be (`Closed`) and that the main thread collects every one
  (`Collected`). `OffersVerified`: `MergeInputsVerified`, from what the verdict of a lane
  that has returned says (`Verdicts`).
- `TeamCodingProofs!PlansAreSound`: `PlanningIsSound`. Each worker's report is followed from its run
  over repairs and resumes, with the switch that says which checks it meets (`WorkSound`); a worker runs only in the step it was begun for, and its
  copy of the project is there just as long (`WorkPlaced`), so none is left when coding begins; the
  StageOff has the stages that are over, in order (`StagesHanded`).
- `AgentLoopProofs!CompletionIsSound`: `CompletedIsSound`. What really happened is known to
  the stored plans (`StoreInv`) and to the run's flags (`FlagInv`), but for the one change
  that was made and is about to be recorded (`Unrecorded`), which a crash turns into a `lost`
  plan; the flag for verification stands for a check since the last change to code, or for a
  document that was the last change (`Waiting`); from the guard on a run is proven and then
  handed over (`EndInv`). `EndIsTold`,
  `CurrentStaysBehind`, `StopsAreSeen` come from the same invariant: a save writes the plan's
  own file first, and between a stop and the end of a run lies at most the call whose guards
  were passed (`CallInv`).
- `DesktopProofs!SettingsKept`: `UpdatesKept`. Who writes holds the lock, from its reading on
  (`LockInv`); a store that is not mixed has what was set last under the file's stamp
  (`CacheInv`) and is about to write it with its own change (`OpInv`). `WindowFollows`:
  `ControlsFollow`; a list whose item is another than its text is one of those that slipped
  (`WindowInv`).
- `ServiceProofs!OnceForAll`: `OnceOnly`. A lane that renews holds its client's lock and the
  client's token, which is old (`Holds`); a token renewed once is no longer its client's
  (`Renewals`); a request is one lane's, and one that must not be repeated has one attempt, not
  made yet or just made (`Does`, `OwnRequests`). `AnswersReachTheirCall`, `GraveCallsAsk`: a
  request is in one place at most of signal queue, dialogs and window (`Handed`), only the one
  asked now or those given up are (`Asker`), and the box holds an answer to one that is in none
  of them (`BoxFits`). `SharesLast`: while operations do not cross, whoever is at work has read
  the file as it is, but for the shares it retires.
  `MailIsNotLost`: `MailIsKept`. A thread acknowledges a row that it took from an answer several steps
  earlier; the invariant says of what is in its hand that it was taken care of (`InHand`, `Handled`), and
  nothing that others do undoes that; a request that was run has its answer sent, or its
  sender is not in the directory. A thread takes the rows of an answer in order; that there
  is a first one is proved from the well-foundedness of the natural numbers (`LeastExists`).
  `CancelsAreOwn`, `RequestsClose`: `OnlyTheStopped`, `NothingStaysOpen`. A request is one
  agent's (`OwnRequest`), and has nothing open before it is opened and after it is over
  (`ClosedOutside`).
- `CredentialProofs!RefusedIsNotLinked`: `RefusedStaysOut`. One worker of the window at a time
  works on an account (`OneWorker`), a session that is signed in was never refused
  (`RefusedAreOver`), and who finds one refused is on the way to unlink it (`ActOK`).
- `CredentialsStayFit`, `FailuresAreUndone`: `CredentialsFit`, `FailedIsUndone`. Settings and secrets
  fit but in the middle of an operation (`Midway`). Of an operation the invariant knows, for each
  step, how long its list of undo steps is and what they hold (`Placed`, `Shaped`), and that what
  it has undone is as it was found and what is left holds the rest (`Traced`): the save within
  a sign-in has copies of its own on top of the sign-in's, whose undo may fail, as the outermost
  copies are written back after it. `StillSo` says what it has found out and relies on. It holds
  of a server with one operation at a time of which the keyring has shown what it had to
  (`entangled` is what is not covered), and operations on other servers leave it alone.
- `DesktopProofs!PageSettles`: `WindowSettles`. What the page waits for is running or has posted its end
  (`EndsArePosted`). `ChatsKeepApart`: `ChatsStayApart`. Signals and messages of a question
  belong to the chat it was asked in while the user stays (`Apart`), and of a question that is over the
  queue and the chat's rows have together one end (`AnsweredOnce`); once the user has left,
  only the evidence is claimed (`EvidenceOwn`).
- `UndoTakesBack`: `UndoIsExact`, an action property. A record ties three moments: the backup made
  before the call holds what was there (`BackupFits`), the result what the call left
  (`ResultFits`), and an undo between its steps knows what it has checked or removed (`JobFits`);
  whoever changes the target between two steps of a call marks it (`raced`), and two agents never
  work on one call (`CallsApart`), except that an undo may meet another undo.
- `NodeCovers`: `RemoteWorkIsCovered`. From the reading to the writing the
  file's text is in the backup or was saved meanwhile (`CoverInv`); a change is told to the
  server only with a plan that asks for its verification (`PlanInv`).

## 7 What is only model-checked, and what is not modelled

Liveness (`FinalizeEnds`, `Converges`, `StageEnds`, `RunsEnd`, `RunEnds`) and everything that
rests on fairness stays with TLC: the prover has no rules for it. So does `ImplementsAtomicCommit`
for transactions in which a fault comes before the backup is complete, or with other modes: the
instance of `RamRefines` is undisturbed by its choice of candidates and faults, and what can happen
elsewhere is what `ClaimBackup` and section 5 show. That the models' runs end, that a lane's result
is what `AgentLoop` promises and that `TeamRun` may take `finalize` as one step is argued by the
modules' texts, not by a composition: the joint state space is out of TLC's reach.

Not modelled in the modelled components: free memory and budgets, the choice of the workspace
mode, symlinks that stay inside the workspace (they are replaced and compared as files are), hard
links, file times, the archive snapshot's content, what models say, token budgets, the wording of
prompts, hand-offs and reports, the order in which candidates are ranked, project memory's search
and its limit of 100 rows, the continuation journal's content, publishing a model over the shared
notify, conversations, a stdio MCP server's process, tool schemas, the thread that loads the list
of models, and the window's layout. Two writes of `state.json` are taken to differ in stamp, as they do
unless they fall in one tick of the clock and have one size. Only one client is instantiated in
`Services`; `OnceForAll` covers any number. Components without a model are in section 1, with the
reasons.
