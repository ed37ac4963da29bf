------------------------------- MODULE TeamCoding -------------------------------
(***************************************************************************)
(* The CODE stage of a team run (aicoder/team_orchestrator.py): a thread   *)
(* pool runs one coding lane per assignment, each under its provider's     *)
(* slot, each in a workspace of its own and as two agent processes, the    *)
(* implementer and the finisher.  The main thread collects finished lanes, *)
(* stops the others once a quorum is verified, and selects the base of the *)
(* merge.  The user may stop the run (GUI) or interrupt it (CLI).          *)
(*                                                                         *)
(* Of a lane's workspace only what the verification tells apart is kept:   *)
(* no change, a change that fails, a change that passes.  Of an agent      *)
(* process, how it ends.                                                   *)
(***************************************************************************)
EXTENDS Naturals, FiniteSets

CONSTANTS
  Lanes,        \* number of assignments; lanes are 1..Lanes in submission order
  Provider,
  Assignments,  \* the ways lanes may be spread over providers
  Coders,       \* number of configured coders
  Limit,        \* slots of a provider
  TeamQuorum,   \* team_candidate_quorum
  MaxResumes    \* _TEAM_CANDIDATE_MAX_AUTO_RESUMES

Lane == 1..Lanes

ASSUME CodingAssumption ==
  /\ Lanes \in Nat \ {0} /\ Assignments \subseteq [Lane -> Provider]
  /\ Coders \in 1..Lanes /\ Limit \in Nat \ {0} /\ TeamQuorum \in 1..Lanes
  /\ MaxResumes \in Nat

VARIABLES
  adaptive,    \* lanes are parts of the task, not variants of it
  providerOf,  \* of each lane
  lane,        \* what each lane's thread is doing and what it knows
  slots,       \* free slots of each provider
  open,        \* lanes whose isolated workspace exists
  main,        \* what the main thread is doing
  consumed,    \* futures the main thread has taken
  candidates,  \* lanes in the main thread's list of results
  quorumStop,  \* candidate_quorum_stop
  userStop,    \* what stop_requested() returns
  base         \* the winner, 0 while there is none

plan == <<adaptive, providerOf>>
vars == <<plan, lane, slots, open, main, consumed, candidates, quorumStop, userStop, base>>

Work == {"none", "failing", "passing"}
Verdict == {"none", "failed", "passed"}
\* How an agent process ends: "halted" is a pause for good (stopped, refused, or
\* the same verification failure again), "provider" one the provider caused.
Outcome == {"completed", "paused", "provider", "halted", "failed"}
Threaded == {"waiting", "running", "ended", "backoff"}
Finished == {"returned", "raised", "cancelled"}

TypeOK ==
  /\ adaptive \in BOOLEAN /\ providerOf \in Assignments
  /\ lane \in [Lane -> [at : {"queued"} \cup Threaded \cup Finished,
                        phase : {"implementer", "finisher"}, work : Work, eval : Verdict,
                        run : Outcome \cup {"none"}, resumes : 0..MaxResumes, quiet : BOOLEAN]]
  /\ slots \in [Provider -> 0..Limit]
  /\ open \subseteq Lane /\ candidates \subseteq consumed /\ consumed \subseteq Lane
  /\ main \in {"collecting", "interrupted", "selected", "failed", "over"}
  /\ quorumStop \in BOOLEAN /\ userStop \in BOOLEAN
  /\ base \in 0..Lanes

Fresh == [at |-> "queued", phase |-> "implementer", work |-> "none", eval |-> "none",
          run |-> "none", resumes |-> 0, quiet |-> FALSE]

Init ==
  /\ adaptive \in BOOLEAN /\ providerOf \in Assignments
  /\ lane = [l \in Lane |-> Fresh]
  /\ slots = [p \in Provider |-> Limit]
  /\ open = {} /\ main = "collecting" /\ consumed = {} /\ candidates = {}
  /\ quorumStop = FALSE /\ userStop = FALSE /\ base = 0

\* candidate_quorum and max_workers: every part is needed; of variants one per
\* coder runs, and some are enough.
Quorum == IF adaptive THEN Lanes ELSE TeamQuorum
MaxWorkers == IF adaptive THEN Coders ELSE Lanes

\* Mutant: the user's stop reaches variants only.
Stopped_VariantsOnly == (quorumStop \/ userStop) /\ ~adaptive

\* candidate_stop_requested()
Stopped == (quorumStop /\ ~adaptive) \/ userStop

\* What the agent process of a lane polls: a lane without progress for the
\* liveness timeout is stopped too.
StopSeen(l) == Stopped \/ lane[l].quiet

MainUnchanged == UNCHANGED <<plan, main, consumed, candidates, quorumStop, userStop, base>>
At(l, where) == lane[l].at = where

--------------------------------------------------------------------------------
(* Worker threads.                                                            *)

\* A free thread takes the next future.
Take(l) ==
  /\ At(l, "queued") /\ \A k \in 1..(l - 1) : ~At(k, "queued")
  /\ Cardinality({k \in Lane : lane[k].at \in Threaded}) < MaxWorkers
  /\ lane' = [lane EXCEPT ![l].at = "waiting"]
  /\ UNCHANGED <<slots, open>> /\ MainUnchanged

\* The provider's slot is free and the workspace is prepared.
Enter(l) ==
  /\ At(l, "waiting") /\ slots[providerOf[l]] > 0
  /\ slots' = [slots EXCEPT ![providerOf[l]] = @ - 1]
  /\ lane' = [lane EXCEPT ![l].at = "running"]
  /\ open' = open \cup {l}
  /\ MainUnchanged

\* ... or cannot be prepared: the slot comes back and the future holds an exception.
EnterFails(l) ==
  /\ At(l, "waiting") /\ slots[providerOf[l]] > 0
  /\ lane' = [lane EXCEPT ![l].at = "raised"]
  /\ UNCHANGED <<slots, open>> /\ MainUnchanged

\* The agent edits the workspace.
Edit(l, w) ==
  /\ At(l, "running") /\ ~StopSeen(l)
  /\ lane[l].work # w
  /\ lane' = [lane EXCEPT ![l].work = w]
  /\ UNCHANGED <<slots, open>> /\ MainUnchanged

\* The agent process finds the liveness timeout passed: it makes no request any
\* more, so that nothing sets last_progress_at again.
GoesQuiet(l) ==
  /\ At(l, "running") /\ ~lane[l].quiet
  /\ lane' = [lane EXCEPT ![l].quiet = TRUE]
  /\ UNCHANGED <<slots, open>> /\ MainUnchanged

\* runtime.run() returns.
EndRun(l, outcome) ==
  /\ At(l, "running")
  /\ StopSeen(l) => outcome = "halted"
  /\ lane' = [lane EXCEPT ![l].at = "ended", ![l].run = outcome]
  /\ UNCHANGED <<slots, open>> /\ MainUnchanged

Release(l) == slots' = [slots EXCEPT ![providerOf[l]] = @ + 1]

\* The CandidateResult: how the last run ended, the workspace and the verdict.
Return(l, run, verdict) ==
  /\ lane' = [lane EXCEPT ![l] = [Fresh EXCEPT !.at = "returned", !.run = run,
                                               !.work = lane[l].work, !.eval = verdict]]
  /\ Release(l) /\ UNCHANGED open /\ MainUnchanged

\* Mutant: a slot is given back by lanes that return only.
Crash_KeepsSlot(l) ==
  /\ At(l, "running")
  /\ lane' = [lane EXCEPT ![l] = [Fresh EXCEPT !.at = "raised"]]
  /\ open' = open \ {l}
  /\ UNCHANGED slots /\ MainUnchanged

\* Something in the lane raises: its workspace is removed.
Crash(l) ==
  /\ At(l, "running")
  /\ lane' = [lane EXCEPT ![l] = [Fresh EXCEPT !.at = "raised"]]
  /\ Release(l)
  /\ open' = open \ {l}
  /\ MainUnchanged

\* evaluate_candidate(): the verification of the workspace as it is.
Evaluated(work) == IF work = "passing" THEN "passed" ELSE "failed"

\* How the lane's loop sees the run it has just ended: a quiet lane nobody stopped
\* counts as paused by its provider.
Ending(l) == IF lane[l].quiet /\ ~Stopped /\ lane[l].run # "completed" THEN "provider"
             ELSE lane[l].run

\* _candidate_pause_is_resumable()
Resumable(l) == Ending(l) \in {"paused", "provider"} /\ ~Stopped

\* The run is over for good: neither complete nor resumable.  What was evaluated
\* before stays the lane's verdict.
GiveUp(l) ==
  /\ At(l, "ended") /\ ~Resumable(l) /\ Ending(l) # "completed"
  /\ Return(l, Ending(l), lane[l].eval)

GoesOn(l) == At(l, "ended") /\ (Resumable(l) \/ Ending(l) = "completed")

\* The implementer has changed something, or says it is complete: a fresh process
\* tests and repairs.
HandOver(l) ==
  /\ GoesOn(l) /\ lane[l].phase = "implementer"
  /\ lane[l].work # "none" \/ Ending(l) = "completed"
  /\ lane' = [lane EXCEPT ![l].at = "running", ![l].phase = "finisher", ![l].resumes = 0,
                          ![l].eval = Evaluated(lane[l].work), ![l].run = "none"]
  /\ UNCHANGED <<slots, open>> /\ MainUnchanged

\* Mutant: a verdict the lane has already is not renewed.
Finish_TrustsVerdict(l) ==
  /\ GoesOn(l) /\ lane[l].phase = "finisher" /\ lane[l].work # "none"
  /\ Return(l, Ending(l), IF lane[l].eval = "passed" THEN "passed" ELSE Evaluated(lane[l].work))

\* The finisher ended and there is a change: the verification decides.
Finish(l) ==
  /\ GoesOn(l) /\ lane[l].phase = "finisher" /\ lane[l].work # "none"
  /\ Return(l, Ending(l), Evaluated(lane[l].work))

Retries(l) ==
  \/ Ending(l) = "provider"
  \/ lane[l].phase = "implementer" /\ lane[l].resumes < MaxResumes

\* Nothing changed and the implementer did not complete: wait and resume ...
Nothing(l) ==
  /\ GoesOn(l) /\ lane[l].work = "none"
  /\ lane[l].phase = "finisher" \/ Ending(l) # "completed"

BackOff(l) ==
  /\ Nothing(l) /\ Retries(l)
  /\ lane' = [lane EXCEPT ![l].at = "backoff", ![l].run = Ending(l)]
  /\ UNCHANGED <<slots, open>> /\ MainUnchanged

\* ... or return with nothing.
Exhausted(l) ==
  /\ Nothing(l) /\ ~Retries(l)
  /\ Return(l, Ending(l), lane[l].eval)

\* _wait_before_resume() returns; without a delay it does not look at the stop.
\* Only the comparison with MaxResumes looks at the number of resumes.
Resume(l) ==
  /\ At(l, "backoff")
  /\ lane' = [lane EXCEPT ![l].at = "running", ![l].run = "none",
                          ![l].resumes = IF @ < MaxResumes THEN @ + 1 ELSE @]
  /\ UNCHANGED <<slots, open>> /\ MainUnchanged

WaitStopped(l) ==
  /\ At(l, "backoff") /\ Stopped
  /\ Return(l, lane[l].run, lane[l].eval)

Decide(l) == GiveUp(l) \/ HandOver(l) \/ Finish(l) \/ BackOff(l) \/ Exhausted(l)

--------------------------------------------------------------------------------
(* Main thread.                                                               *)

\* _candidate_is_mergeable()
Mergeable(l, verdict) ==
  lane[l].run \in Outcome \ {"failed"} /\ verdict = "passed"
Viable == {l \in candidates : Mergeable(l, lane[l].eval)}

\* A finished lane becomes a candidate, evaluated now if it never was; enough
\* verified candidates stop the others and cancel what no thread has taken.
Collect(l) ==
  LET verdict == IF lane[l].eval # "none" THEN lane[l].eval
                 ELSE IF lane[l].run = "failed" THEN "failed" ELSE Evaluated(lane[l].work)
      verified == Viable \cup (IF Mergeable(l, verdict) THEN {l} ELSE {})
      reached == Cardinality(verified) >= Quorum /\ ~quorumStop
  IN /\ main = "collecting" /\ At(l, "returned") /\ l \notin consumed
     /\ consumed' = consumed \cup {l} /\ candidates' = candidates \cup {l}
     /\ quorumStop' = (quorumStop \/ reached)
     /\ lane' = [k \in Lane |->
          IF k = l THEN [lane[l] EXCEPT !.eval = verdict]
          ELSE IF reached /\ ~adaptive /\ At(k, "queued") THEN [lane[k] EXCEPT !.at = "cancelled"]
          ELSE lane[k]]
     /\ UNCHANGED <<plan, slots, open, main, userStop, base>>

\* A future that was cancelled or that holds an exception.
Discard(l) ==
  /\ main = "collecting" /\ lane[l].at \in {"raised", "cancelled"} /\ l \notin consumed
  /\ consumed' = consumed \cup {l}
  /\ UNCHANGED <<plan, lane, slots, open, main, candidates, quorumStop, userStop, base>>

\* Every lane of an adaptive run must be verified, one variant is enough; the
\* ranking prefers the ones in Viable with the best evidence.
Select(l) ==
  /\ main = "collecting" /\ consumed = Lane
  /\ l \in Viable /\ (adaptive => Viable = Lane)
  /\ main' = "selected" /\ base' = l
  /\ UNCHANGED <<plan, lane, slots, open, consumed, candidates, quorumStop, userStop>>

SelectFails ==
  /\ main = "collecting" /\ consumed = Lane
  /\ Viable = {} \/ (adaptive /\ Viable # Lane)
  /\ main' = "failed"
  /\ UNCHANGED <<plan, lane, slots, open, consumed, candidates, quorumStop, userStop, base>>

\* Ctrl+C: the main thread leaves the loop and waits for every thread of the pool,
\* which goes on taking futures.
Interrupt ==
  /\ main = "collecting" /\ main' = "interrupted"
  /\ UNCHANGED <<plan, lane, slots, open, consumed, candidates, quorumStop, userStop, base>>

UserStops ==
  /\ ~userStop /\ main # "over" /\ userStop' = TRUE
  /\ UNCHANGED <<plan, lane, slots, open, main, consumed, candidates, quorumStop, base>>

\* The finally block: results the loop never consumed are recovered first.
CleanUp ==
  /\ main \in {"selected", "failed"} \/ (main = "interrupted" /\ \A l \in Lane : lane[l].at \in Finished)
  /\ candidates' = candidates \cup {l \in Lane : At(l, "returned")}
  /\ consumed' = consumed \cup candidates'
  /\ open' = open \ candidates' /\ main' = "over"
  /\ UNCHANGED <<plan, lane, slots, quorumStop, userStop, base>>

--------------------------------------------------------------------------------
Worker(l) ==
  \/ Take(l) \/ Enter(l) \/ Decide(l) \/ Resume(l) \/ WaitStopped(l)
  \/ \E outcome \in Outcome : EndRun(l, outcome)
Main == (\E l \in Lane : Collect(l) \/ Discard(l) \/ Select(l)) \/ SelectFails \/ CleanUp

Next ==
  \/ \E l \in Lane : Worker(l) \/ EnterFails(l) \/ GoesQuiet(l) \/ Crash(l)
  \/ \E l \in Lane, w \in Work : Edit(l, w)
  \/ Main \/ Interrupt \/ UserStops

Spec == Init /\ [][Next]_vars

\* Threads run, an agent process ends (requests time out and its iterations are
\* bounded), and the main thread goes on.
FairSpec == Spec /\ WF_vars(Main) /\ \A l \in Lane : WF_vars(Worker(l))

--------------------------------------------------------------------------------
(* Properties.                                                                *)

\* The workspaces offered to the merge pass verification as they are, whatever
\* was resumed, handed over and retried on the way; except for lanes whose finisher
\* was stopped, was refused something or took every change back: these keep the
\* verdict on the implementer's work.
EndedByItself(l) ==
  \/ lane[l].run = "completed"
  \/ lane[l].run \in {"paused", "provider"} /\ ~Stopped
MergeInputsVerified ==
  \A l \in Viable : EndedByItself(l) /\ lane[l].work # "none" => lane[l].work = "passing"

\* No slot of a provider is lost or given back twice, also by lanes that raise:
\* so calls to a provider stay serialised and no lane waits forever.
SlotsBalanced ==
  \A p \in Provider :
    slots[p] + Cardinality({l \in Lane : providerOf[l] = p
                                          /\ lane[l].at \in {"running", "ended", "backoff"}}) = Limit

\* When the run is over no isolated workspace is left, also if it was interrupted
\* before the results of the threads were collected.
WorkspacesReleased == main = "over" => open = {}

\* A lane leaves nothing behind, however it ends: neither a slot nor a workspace.
LanesAreClosed == SlotsBalanced /\ WorkspacesReleased

\* The stage comes to an end, in particular when the user stops it, unless a lane
\* without any change is resumed for ever: its provider keeps failing, or it is
\* quiet, and nobody stops it.
Retrying == ~userStop /\ ~quorumStop /\ \E l \in Lane : At(l, "backoff")
StageEnds == []<>(main = "over" \/ Retrying)
================================================================================
