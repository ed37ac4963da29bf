------------------------------- MODULE AgentLoop -------------------------------
(***************************************************************************)
(* One agent working on one task (NativeLightRuntime of                    *)
(* aicoder/agent_runtime.py): it asks the model, runs the tools the model  *)
(* calls, remembers which changes were verified, refuses to end before     *)
(* they are, hands its workspace over and writes its progress to a plan    *)
(* from which another process may resume (aicoder/agent_plan.py).          *)
(*                                                                         *)
(* The model may answer anything.  A tool call is known by what it can do; *)
(* which calls repeat, fail for the same reason or are answered from a     *)
(* cache is left to the choice of what happens.  The continuation journal  *)
(* feeds only the messages of a resumed run and is left out; that saving   *)
(* it saves the plan is not.                                               *)
(***************************************************************************)
EXTENDS Integers, Sequences, FiniteSets

CONSTANTS
  Options,    \* configurations of a run: [plan, enforce, test, change, audit : BOOLEAN]
  Batches,    \* sequences of calls a reply may hold
  Limit,      \* max_iterations
  MaxPlans,   \* bound: plans created
  MaxCrashes, \* bound: crashes of the process
  MaxStarts   \* bound: processes started

\* What a tool call can do: look; change code; change a document and read it
\* back; run a check; run the test tool; let a sub-agent work; end the run.
Calls == {"read", "code", "doc", "check", "test", "delegate", "complete"}
Changing == {"code", "doc"}
Checking == {"check", "test"}
Grace == 2
PlanId == 1..MaxPlans

ASSUME AgentAssumption ==
  /\ Options \subseteq [plan : BOOLEAN, enforce : BOOLEAN, test : BOOLEAN,
                        change : BOOLEAN, audit : BOOLEAN]
  /\ Batches \subseteq Seq(Calls)
  /\ Limit \in Nat \ {0} /\ MaxPlans \in Nat \ {0} /\ MaxCrashes \in Nat /\ MaxStarts \in Nat

VARIABLES
  opt, pc, end, i,
  sent,       \* the follow-ups the host has asked for once
  reply,      \* the model's answer being worked on
  calls,      \* its calls still to run
  result,     \* how the call that has just run ended
  mutation_seen, verification_seen, test_verification_seen, tool_was_called,
  fresh_inspection_after_resume,
  stop,       \* stop_requested
  id, plans, current, \* the run's plan; the plan files; current.json
  starts, crashes,
  \* History, as sets of plans (0: the run without one): a change to code waits for a
  \* check; its last change is a document that was read back; a change waits for the
  \* test tool; its workspace was handed over since; a crash kept a change from its
  \* record.
  unchecked, readback, untested, committed, lost,
  late        \* calls begun under a stop

control == <<pc, end, i, sent, reply, calls, result>>
flags == <<mutation_seen, verification_seen, test_verification_seen, tool_was_called,
           fresh_inspection_after_resume>>
stored == <<id, plans, current, crashes, lost>>
world == <<unchecked, readback, untested, committed>>
vars == <<opt, control, flags, stop, stored, starts, world, late>>

NoPlan == [id |-> 0, status |-> "none", mutated |-> FALSE, verified |-> FALSE]
Plan == [id : PlanId, status : {"running", "paused", "failed", "completed"},
         mutated : BOOLEAN, verified : BOOLEAN]
NoReply == [kind |-> "none", sole |-> FALSE, done |-> FALSE]
Reply == [kind : {"none", "unusable", "final", "no_change", "calls"},
          sole : BOOLEAN, done : BOOLEAN]
FollowUps == {"repair", "change", "verify", "tool", "audit"}

TypeOK ==
  /\ opt \in Options
  /\ pc \in {"off", "dead", "turn", "asking", "replied", "calling", "checked", "ran", "batch", "commit",
             "complete", "over"}
  /\ end \in {"none", "completed", "paused", "failed", "yielded", "crashed"}
  /\ i \in 0..(Limit + Grace) /\ sent \subseteq FollowUps
  /\ reply \in Reply /\ calls \in Seq(Calls) /\ result \in {"none", "ok", "error"}
  /\ mutation_seen \in BOOLEAN /\ verification_seen \in BOOLEAN
  /\ test_verification_seen \in BOOLEAN /\ tool_was_called \in BOOLEAN
  /\ fresh_inspection_after_resume \in BOOLEAN /\ stop \in BOOLEAN
  /\ id \in 0..MaxPlans /\ plans \in [PlanId -> Plan \cup {NoPlan}]
  /\ current \in Plan \cup {NoPlan}
  /\ starts \in 0..MaxStarts /\ crashes \in 0..MaxCrashes
  /\ unchecked \subseteq 0..MaxPlans /\ readback \subseteq 0..MaxPlans
  /\ untested \subseteq 0..MaxPlans /\ committed \subseteq 0..MaxPlans
  /\ lost \subseteq PlanId /\ late \in Nat

Init ==
  /\ opt \in Options
  /\ pc = "off" /\ end = "none" /\ i = 0 /\ sent = {} /\ reply = NoReply
  /\ calls = <<>> /\ result = "none"
  /\ mutation_seen = FALSE /\ verification_seen = FALSE /\ test_verification_seen = FALSE
  /\ tool_was_called = FALSE /\ fresh_inspection_after_resume = FALSE
  /\ stop = FALSE /\ id = 0 /\ plans = [p \in PlanId |-> NoPlan] /\ current = NoPlan
  /\ starts = 0 /\ crashes = 0
  /\ unchecked = {} /\ readback = {} /\ untested = {} /\ committed = {} /\ lost = {}
  /\ late = 0

--------------------------------------------------------------------------------
Goto(next) == pc' = next /\ UNCHANGED stored

Call == Head(calls)
Changed == result = "ok" /\ Call \in Changing

\* History: the process dies with what it has not recorded of its last tool.
Forgets == lost' = lost \cup {p \in {id} : opt.plan /\ pc = "ran" /\ Changed}

\* Mutant: current.json is written first.
Save_CurrentFirst(plan, next) ==
  IF ~opt.plan THEN Goto(next) ELSE
  /\ current' = plan /\ id' = plan.id
  /\ \/ /\ plans' = [plans EXCEPT ![plan.id] = plan] /\ pc' = next
        /\ UNCHANGED <<crashes, lost>>
     \/ /\ crashes < MaxCrashes /\ crashes' = crashes + 1 /\ pc' = "dead" /\ Forgets
        /\ UNCHANGED plans

\* PlanStore.save(): the plan's own file, then current.json.  The process may die
\* between the two.
Save(plan, next) ==
  IF ~opt.plan THEN Goto(next) ELSE
  /\ plans' = [plans EXCEPT ![plan.id] = plan] /\ id' = plan.id
  /\ \/ current' = plan /\ pc' = next /\ UNCHANGED <<crashes, lost>>
     \/ /\ crashes < MaxCrashes /\ crashes' = crashes + 1 /\ pc' = "dead" /\ Forgets
        /\ UNCHANGED current

ThePlan == plans[id]
Progress == Save(ThePlan, "turn")  \* _save_journal() saves the plan
Ends(how, plan) == end' = how /\ Save(plan, "over")
Pauses == Ends("paused", [ThePlan EXCEPT !.status = "paused"])
Fails == Ends("failed", [ThePlan EXCEPT !.status = "failed"])

\* A run begins: its flags are those of the plan it resumes.  The messages it is given
\* may show tools called before.
Begins(plan, resumed) ==
  /\ starts' = starts + 1 /\ end' = "none" /\ i' = 0
  /\ tool_was_called' \in BOOLEAN /\ sent' = IF tool_was_called' THEN {"tool"} ELSE {}
  /\ reply' = NoReply /\ calls' = <<>> /\ result' = "none"
  /\ mutation_seen' = plan.mutated /\ verification_seen' = (plan.mutated /\ plan.verified)
  /\ test_verification_seen' = FALSE /\ fresh_inspection_after_resume' = ~resumed
  /\ stop' = FALSE /\ late' = 0 /\ UNCHANGED opt
  /\ Save(plan, "turn")

Resumable(plan) == plan.status \in {"running", "paused", "failed"}
Stored == {current} \cup {plans[p] : p \in PlanId}
Resumed(plan) == [plan EXCEPT !.status = "running"]

\* _prepare_plan() with a plan that can be resumed: the current one, or one named.
Resume(plan) ==
  /\ pc = "off" /\ starts < MaxStarts /\ opt.plan /\ Resumable(plan)
  /\ Begins(Resumed(plan), TRUE)
  /\ UNCHANGED world

\* A new task; or `continue' with no plan that can be resumed.  It begins with a
\* workspace of its own.
StartNew ==
  /\ pc = "off" /\ starts < MaxStarts
  /\ \E p \in PlanId :
       /\ plans[p] = NoPlan /\ \A q \in PlanId : q < p => plans[q] # NoPlan
       /\ Begins([id |-> p, status |-> "running", mutated |-> FALSE, verified |-> FALSE], FALSE)
  /\ unchecked' = unchecked \ {0} /\ readback' = readback \ {0}
  /\ untested' = untested \ {0} /\ committed' = committed \ {0}

--------------------------------------------------------------------------------
\* Two turns more are granted when the host itself asked for a follow-up.
MayTurn ==
  \/ i < Limit
  \/ i < Limit + Grace /\ sent \cap {"repair", "verify", "audit"} # {}

Quiet == UNCHANGED <<opt, stop, starts, world, late>>

\* yield_requested(): the run ends and its plan stays "running".
Yield ==
  /\ pc = "turn" /\ MayTurn
  /\ Ends("yielded", ThePlan)
  /\ UNCHANGED <<i, sent, reply, calls, result, flags>> /\ Quiet

StopAtTurn ==
  /\ pc = "turn" /\ MayTurn /\ stop
  /\ Pauses
  /\ UNCHANGED <<i, sent, reply, calls, result, flags>> /\ Quiet

\* Save the iteration and send the request.
Ask ==
  /\ pc = "turn" /\ MayTurn /\ ~stop
  /\ i' = i + 1 /\ Save(ThePlan, "asking")
  /\ UNCHANGED <<end, sent, reply, calls, result, flags>> /\ Quiet

\* Mutant: the safety pause is forgotten.
Exhausted_Asks ==
  /\ pc = "turn" /\ ~MayTurn
  /\ Save(ThePlan, "asking")
  /\ UNCHANGED <<end, i, sent, reply, calls, result, flags>> /\ Quiet

Exhausted ==
  /\ pc = "turn" /\ ~MayTurn
  /\ Pauses
  /\ UNCHANGED <<i, sent, reply, calls, result, flags>> /\ Quiet

\* The model's answer: no call at all, or a batch and perhaps the word DONE with it.
Answers ==
  /\ pc = "asking"
  /\ \/ \E kind \in {"unusable", "final", "no_change"} :
          /\ reply' = [kind |-> kind, sole |-> FALSE, done |-> FALSE]
          /\ calls' = <<>>
     \/ \E batch \in Batches, done \in BOOLEAN :
          /\ reply' = [kind |-> "calls", sole |-> Len(batch) = 1, done |-> done]
          /\ calls' = batch
  /\ Goto("replied")
  /\ UNCHANGED <<end, i, sent, result, flags>> /\ Quiet

\* _chat_interruptibly() sees the stop while the request runs; its answer is dropped.
AskStopped ==
  /\ pc = "asking" /\ stop
  /\ Pauses
  /\ UNCHANGED <<i, sent, reply, calls, result, flags>> /\ Quiet

\* The request fails: for now, or for good.
AskFails ==
  /\ pc = "asking" /\ (Pauses \/ Fails)
  /\ UNCHANGED <<i, sent, reply, calls, result, flags>> /\ Quiet

--------------------------------------------------------------------------------
Ready == verification_seen /\ (opt.test => test_verification_seen)
Unproven == opt.enforce /\ mutation_seen /\ ~Ready
Audits == opt.audit /\ mutation_seen /\ tool_was_called /\ "audit" \notin sent

\* The first thing that keeps a reply without calls from ending the run.
Missing ==
  CASE reply.kind = "unusable" -> "repair"
    [] opt.change /\ ~mutation_seen /\ reply.kind = "final" -> "change"
    [] Unproven -> "verify"
    [] ~tool_was_called /\ "tool" \notin sent -> "tool"
    [] opt.enforce /\ Audits -> "audit"
    [] OTHER -> "nothing"

\* Ask for what is missing once; the second time, pause.
AskFor(what) ==
  \/ what \notin sent /\ sent' = sent \cup {what} /\ UNCHANGED end /\ Progress
  \/ what \in sent /\ UNCHANGED sent /\ Pauses

Final ==
  /\ pc = "replied" /\ reply.kind # "calls"
  /\ IF Missing = "nothing" THEN Goto("commit") /\ UNCHANGED <<end, sent>> ELSE AskFor(Missing)
  /\ UNCHANGED <<i, reply, calls, result, flags>> /\ Quiet

\* A batch that repeats the last one: another turn, or a pause.
Repeats ==
  /\ pc = "replied" /\ reply.kind = "calls"
  /\ (Progress /\ UNCHANGED end) \/ Pauses
  /\ UNCHANGED <<i, sent, reply, calls, result, flags>> /\ Quiet

TakeCalls ==
  /\ pc = "replied" /\ reply.kind = "calls"
  /\ tool_was_called' = TRUE /\ Goto("calling")
  /\ UNCHANGED <<end, i, sent, reply, calls, result, mutation_seen, verification_seen,
                 test_verification_seen, fresh_inspection_after_resume>> /\ Quiet

Calling == pc = "calling" /\ calls # <<>>
AtCall == pc = "checked"

StopAtCall ==
  /\ Calling /\ stop
  /\ Pauses
  /\ UNCHANGED <<i, sent, reply, calls, result, flags>> /\ Quiet

\* Mutant: only the first call of a batch looks at the stop.
NextCall_Ignores ==
  /\ Calling /\ (stop => ~reply.sole)
  /\ Goto("checked")
  /\ UNCHANGED <<end, i, sent, reply, calls, result, flags>> /\ Quiet

NextCall ==
  /\ Calling /\ ~stop
  /\ Goto("checked")
  /\ UNCHANGED <<end, i, sent, reply, calls, result, flags>> /\ Quiet

\* runtime_complete: the host accepts it only on its own terms.
CompleteMissing(no_change) ==
  CASE ~reply.sole -> "batch"
    [] opt.change /\ ~mutation_seen /\ ~no_change -> "change"
    [] Unproven -> "verify"
    [] opt.enforce /\ Audits -> "audit"
    [] OTHER -> "nothing"

Complete ==
  /\ AtCall /\ Call = "complete"
  /\ \E no_change \in BOOLEAN :
       LET missing == CompleteMissing(no_change)
       IN /\ sent' = sent \cup ({missing} \cap {"audit"})
          /\ IF missing = "nothing" THEN Goto("commit") /\ UNCHANGED calls
             ELSE Goto("calling") /\ calls' = Tail(calls)
  /\ UNCHANGED <<end, i, reply, result, flags>> /\ Quiet

\* Not allowed, malformed, blocked by a hook or the failure circuit, answered from
\* the run's cache; and every change of a resumed run before it has looked.
Refused ==
  /\ AtCall /\ Call # "complete"
  /\ calls' = Tail(calls) /\ Goto("calling")
  /\ UNCHANGED <<end, i, sent, reply, result, flags>> /\ Quiet

\* The approval is refused ("aborted by user").
Rejected ==
  /\ AtCall /\ Call \in Changing \cup Checking
  /\ Pauses
  /\ UNCHANGED <<i, sent, reply, calls, result, flags>> /\ Quiet

\* What a call does to the workspace.  A sub-agent, or a change that fails half-way,
\* may leave code changed that the run does not hear of.
Effect ==
  \/ /\ result' = "ok" /\ Call \in Changing
     /\ IF Call = "doc" THEN readback' = readback \cup {id} /\ UNCHANGED unchecked
        ELSE readback' = readback \ {id} /\ unchecked' = unchecked \cup {id}
     /\ untested' = untested \cup {id} /\ committed' = committed \ {id}
  \/ /\ result' = "ok" /\ Call \in Checking
     /\ unchecked' = unchecked \ {id}
     /\ untested' = IF Call = "test" THEN untested \ {id} ELSE untested
     /\ UNCHANGED <<readback, committed>>
  \/ /\ Call = "delegate" \/ (result' = "error" /\ Call \in Changing)
     /\ committed' = committed \ {id} /\ UNCHANGED <<unchecked, readback, untested>>
  \/ /\ result' = "error" \/ Call \in {"read", "delegate"}
     /\ UNCHANGED world

\* run_tool() or run_subagent().  The stop may come while it runs.
Execute ==
  /\ AtCall /\ Call # "complete"
  /\ Call \in Changing => fresh_inspection_after_resume
  /\ result' \in {"ok", "error"} /\ Goto("ran")
  /\ fresh_inspection_after_resume' =
       (fresh_inspection_after_resume \/ (Call = "read" /\ result' = "ok"))
  /\ Effect
  /\ late' = IF stop THEN late + 1 ELSE late
  /\ UNCHANGED <<end, i, sent, reply, calls, mutation_seen, verification_seen,
                 test_verification_seen, tool_was_called, opt, stop, starts>>

\* What the tool that ran says of progress (_record_tool_progress() and its caller).
Checked == result = "ok" /\ Call \in Checking /\ mutation_seen

\* Mutant: a later change does not revoke the verification.
StillVerified_Keeps == verification_seen \/ Checked \/ (Changed /\ Call = "doc")

\* A change revokes the verification, a document that was read back grants it: for
\* all changes before it too, code among them, that nothing has checked.
StillVerified == IF Changed THEN Call = "doc" ELSE verification_seen \/ Checked

\* Mutant: a later change does not revoke the test.
StillTested_Keeps == test_verification_seen \/ (Checked /\ Call = "test")

StillTested == ~Changed /\ (test_verification_seen \/ (Checked /\ Call = "test"))

RecordedPlan ==
  [ThePlan EXCEPT
     !.mutated = @ \/ Changed,
     !.verified = IF Changed THEN Call = "doc" ELSE @ \/ Checked]

Record ==
  /\ pc = "ran"
  /\ mutation_seen' = (mutation_seen \/ Changed)
  /\ verification_seen' = StillVerified /\ test_verification_seen' = StillTested
  /\ sent' = IF Changed THEN sent \ {"verify"} ELSE sent
  /\ calls' = Tail(calls) /\ result' = "none"
  /\ Save(RecordedPlan, "calling")
  /\ UNCHANGED <<end, i, reply, tool_was_called, fresh_inspection_after_resume>> /\ Quiet

\* The batch is done.  A stall pauses the run; DONE with the calls may end it.
BatchDone ==
  /\ pc = "calling" /\ calls = <<>>
  /\ IF reply.done THEN Save(ThePlan, "batch") ELSE Progress
  /\ UNCHANGED <<end, i, sent, reply, calls, result, flags>> /\ Quiet

Stalls ==
  /\ pc = "calling" /\ calls = <<>>
  /\ Pauses
  /\ UNCHANGED <<i, sent, reply, calls, result, flags>> /\ Quiet

\* Here the audit is asked for whether or not verification is enforced, and no
\* change is required.
Done ==
  /\ pc = "batch"
  /\ IF Unproven THEN AskFor("verify") ELSE
     IF Audits THEN AskFor("audit") ELSE Goto("commit") /\ UNCHANGED <<end, sent>>
  /\ UNCHANGED <<i, reply, calls, result, flags>> /\ Quiet

--------------------------------------------------------------------------------
\* completion_guard(): finalize() of the workspace commits everything or raises.
Commit ==
  /\ pc = "commit"
  /\ committed' = committed \cup {id} /\ Goto("complete")
  /\ UNCHANGED <<end, i, sent, reply, calls, result, flags, opt, stop, starts, unchecked,
                 readback, untested, late>>

\* Mutant: the caller hears of the failure and the plan does not.
CommitFails_Untold ==
  /\ pc = "commit"
  /\ Ends("failed", ThePlan)
  /\ UNCHANGED <<i, sent, reply, calls, result, flags>> /\ Quiet

CommitFails ==
  /\ pc = "commit"
  /\ Fails
  /\ UNCHANGED <<i, sent, reply, calls, result, flags>> /\ Quiet

\* _complete_plan().
CompletePlan ==
  /\ pc = "complete"
  /\ Ends("completed", [ThePlan EXCEPT !.status = "completed"])
  /\ UNCHANGED <<i, sent, reply, calls, result, flags>> /\ Quiet

\* The process has returned its result, or died: nothing of the run is left but what
\* is stored.
Return ==
  /\ pc \in {"over", "dead"}
  /\ end' = (IF pc = "dead" THEN "crashed" ELSE "none") /\ i' = 0 /\ sent' = {}
  /\ reply' = NoReply /\ calls' = <<>> /\ result' = "none"
  /\ mutation_seen' = FALSE /\ verification_seen' = FALSE /\ test_verification_seen' = FALSE
  /\ tool_was_called' = FALSE /\ fresh_inspection_after_resume' = FALSE
  /\ stop' = FALSE /\ late' = 0
  /\ Goto("off") /\ UNCHANGED <<opt, starts, world>>

UserStops ==
  /\ pc \notin {"off", "over", "dead"} /\ ~stop /\ stop' = TRUE
  /\ UNCHANGED <<opt, control, flags, stored, starts, world, late>>

\* The process dies, and what it knew with it.  The workspace stays.
Crash ==
  /\ pc \notin {"off", "over", "dead"} /\ crashes < MaxCrashes
  /\ pc' = "dead" /\ crashes' = crashes + 1
  /\ Forgets
  /\ UNCHANGED <<opt, end, i, sent, reply, calls, result, flags, stop, id, plans, current, starts,
                 world, late>>

RunStep ==
  \/ Yield \/ StopAtTurn \/ Ask \/ Exhausted \/ AskStopped
  \/ Final \/ Repeats \/ TakeCalls
  \/ StopAtCall \/ NextCall \/ Complete \/ Refused \/ Rejected \/ Execute \/ Record
  \/ BatchDone \/ Stalls \/ Done
  \/ Commit \/ CommitFails \/ CompletePlan \/ Return

Next ==
  \/ \E plan \in Stored : Resume(plan)
  \/ StartNew \/ RunStep \/ Answers \/ AskFails \/ UserStops \/ Crash

Spec == Init /\ [][Next]_vars

\* A tool ends (it has a time limit) and the process goes on; nothing is assumed of
\* the model, nor of the user.
FairSpec == Spec /\ WF_vars(RunStep)

--------------------------------------------------------------------------------
Completed == {p \in PlanId : plans[p].status = "completed"}
               \cup {p \in {id} : pc = "over" /\ end = "completed"}

\* What a run reports complete, in whatever process and after however many resumes,
\* carries no change a successful call of its own made to code after the last check,
\* nor any after the last test where one is required.  Two exceptions: a crash fell
\* between a tool and the record of it, and the last change is a document that was
\* read back, which CodeIsChecked is about (the final reply, runtime_complete and DONE
\* with calls).
CompletedIsVerified ==
  opt.enforce => \A p \in Completed \ lost :
    /\ p \in unchecked => p \in readback
    /\ opt.test => p \notin untested

\* Claim: code needs an executable check before a run is done, whatever documents it
\* changes (_record_tool_progress() and its caller).  The code does not keep it.
CodeIsChecked == opt.enforce => Completed \cap unchecked \subseteq lost

\* A run is complete, in its result and in its plan, only with its workspace handed
\* over as it is: the guard comes first, and no change after it.
CompletedIsCommitted == Completed \subseteq committed

\* What a run reports complete is verified and handed over.
CompletedIsSound == CompletedIsVerified /\ CompletedIsCommitted

\* The stored plan agrees with the result the caller was given.
PlanTellsTheEnd ==
  (pc = "over" /\ opt.plan) =>
    /\ end = "yielded" => plans[id].status = "running"
    /\ end # "yielded" => plans[id].status = end
    /\ current = plans[id]

\* At most the call at hand begins after the user's stop.
StopIsPrompt == late <= 1

\* Whatever current.json says, the plan it names is at least as far: it is never
\* resumed with a change that the plan's file does not know.
CurrentIsBehind ==
  current # NoPlan =>
    /\ plans[current.id] # NoPlan
    /\ current.mutated => plans[current.id].mutated
    /\ current.status = "completed" => plans[current.id].status = "completed"

\* A run ends unless it waits for the model for good, and a stopped run even then.
RunEnds ==
  /\ []<>(pc = "off") \/ <>[](pc = "asking")
  /\ stop ~> (pc = "off")
================================================================================
