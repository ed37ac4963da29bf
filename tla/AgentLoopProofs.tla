---------------------------- MODULE AgentLoopProofs ----------------------------
(***************************************************************************)
(* Theorems about AgentLoop for every configuration, every set of batches  *)
(* and every limit: however often runs crash, stop and resume.             *)
(***************************************************************************)
EXTENDS AgentLoop, TLAPS

\* Where a run is under way.
Active == {"turn", "asking", "replied", "calling", "checked", "ran", "batch", "commit",
           "complete"}

\* The parts of TypeOK that only say how far the turn is.
TurnOK ==
  /\ end \in {"none", "completed", "paused", "failed", "yielded", "crashed"}
  /\ i \in 0..(Limit + Grace) /\ sent \subseteq FollowUps
  /\ reply \in Reply /\ calls \in Seq(Calls) /\ result \in {"none", "ok", "error"}
  /\ tool_was_called \in BOOLEAN /\ fresh_inspection_after_resume \in BOOLEAN

\* The plans whose change to code waits for verification, as the run counts it.
Waiting == unchecked \ readback

\* A plan knows of the changes that wait for verification.
Knows(plan, p) ==
  p \notin lost =>
    /\ p \in Waiting => plan.mutated /\ ~plan.verified
    /\ p \in untested => plan.mutated

Proven(p) ==
  opt.enforce /\ p \notin lost => p \notin Waiting /\ (opt.test => p \notin untested)

\* A change that has been made and is about to be recorded.
Unrecorded(p) == pc = "ran" /\ p = id /\ Changed

\* What is stored knows of every change but one about to be recorded; current.json is
\* behind the plan it names; a completed plan is proven and handed over.
StoreInv ==
  /\ \A p \in PlanId :
       /\ plans[p] = NoPlan \/ (plans[p] \in Plan /\ plans[p].id = p)
       /\ plans[p] = NoPlan => p \notin Waiting \cup untested
       /\ plans[p] # NoPlan /\ ~Unrecorded(p) => Knows(plans[p], p)
       /\ plans[p].status = "completed" => p \in committed /\ Proven(p)
  /\ current = NoPlan \/ current \in Plan
  /\ current # NoPlan /\ ~Unrecorded(current.id) => Knows(current, current.id)
  /\ CurrentIsBehind

\* The plan of a run under way is its own and runs.
RunInv ==
  /\ ~opt.plan => id = 0 /\ current = NoPlan /\ \A p \in PlanId : plans[p] = NoPlan
  /\ opt.plan /\ pc \in Active =>
       id \in PlanId /\ plans[id] # NoPlan /\ plans[id].status = "running"
  /\ opt.plan /\ pc = "over" => id \in PlanId /\ plans[id] # NoPlan
  /\ PlanTellsTheEnd

\* The flags of a run know of its changes; one that is about to be recorded excepted.
Cleared == result = "ok" /\ Call \in Checking
FlagInv ==
  pc \in Active /\ id \notin lost =>
    /\ Unrecorded(id) => (Call = "doc" => id \notin Waiting)
    /\ ~Unrecorded(id) =>
         /\ id \in Waiting =>
              mutation_seen /\ ~verification_seen /\ ~(pc = "ran" /\ Cleared)
         /\ id \in untested =>
              mutation_seen /\ ~test_verification_seen
                /\ ~(pc = "ran" /\ Cleared /\ Call = "test")

\* From the completion guard on a run is proven, and then handed over.
EndInv ==
  /\ pc \in {"commit", "complete"} \/ (pc = "over" /\ end = "completed") => Proven(id)
  /\ pc = "complete" \/ (pc = "over" /\ end = "completed") => id \in committed

\* A call begins with a call at hand and, but for one, before the stop.
CallInv ==
  /\ late \in 0..1 /\ (late = 1 => stop /\ pc # "checked")
  /\ pc \in {"checked", "ran"} => calls # <<>>

IInv == TypeOK /\ StoreInv /\ RunInv /\ FlagInv /\ EndInv /\ CallInv

--------------------------------------------------------------------------------
LEMMA OptionTypes ==
  ASSUME TypeOK
  PROVE  /\ opt.plan \in BOOLEAN /\ opt.enforce \in BOOLEAN /\ opt.test \in BOOLEAN
         /\ opt.change \in BOOLEAN /\ opt.audit \in BOOLEAN
BY AgentAssumption DEF TypeOK

LEMMA NoPlanIsNone ==
  NoPlan \notin Plan /\ NoPlan.status = "none" /\ NoPlan.id = 0 /\ 0 \notin PlanId
BY AgentAssumption DEF NoPlan, Plan, PlanId

LEMMA PlanFields ==
  ASSUME NEW plan \in Plan
  PROVE  /\ plan.id \in PlanId /\ plan.mutated \in BOOLEAN /\ plan.verified \in BOOLEAN
         /\ plan.status \in {"running", "paused", "failed", "completed"}
BY DEF Plan

LEMMA WithStatus ==
  ASSUME NEW plan \in Plan, NEW status \in {"running", "paused", "failed", "completed"}
  PROVE  LET new == [plan EXCEPT !.status = status]
         IN /\ new \in Plan /\ new.id = plan.id /\ new.status = status
            /\ new.mutated = plan.mutated /\ new.verified = plan.verified
BY DEF Plan

\* How saving a plan ends.
LEMMA SaveCases ==
  ASSUME NEW plan, NEW next, Save(plan, next), opt.plan
  PROVE  /\ plans' = [plans EXCEPT ![plan.id] = plan] /\ id' = plan.id
         /\ \/ current' = plan /\ pc' = next /\ UNCHANGED <<crashes, lost>>
            \/ /\ UNCHANGED current /\ pc' = "dead" /\ Forgets
               /\ crashes < MaxCrashes /\ crashes' = crashes + 1
BY DEF Save

\* What a plan must be to be saved.
Fits(plan) ==
  /\ plan \in Plan
  /\ Knows(plan, plan.id)
  /\ current # NoPlan /\ current.id = plan.id =>
       /\ current.mutated => plan.mutated
       /\ current.status = "completed" => plan.status = "completed"
  /\ plan.status = "completed" => plan.id \in committed /\ Proven(plan.id)

\* What a step did to the work of a plan's run: nothing.
SameWork ==
  \A p \in PlanId : /\ p \in Waiting' <=> p \in Waiting
                    /\ p \in untested' <=> p \in untested
                    /\ p \in committed' <=> p \in committed

\* Saving a plan that knows of the run's changes keeps the store.
LEMMA SaveKeepsStore ==
  ASSUME TypeOK, StoreInv, NEW plan, NEW next, Save(plan, next), opt.plan, Fits(plan),
         pc = "ran" => id = plan.id, next # "ran", UNCHANGED opt, SameWork
  PROVE  StoreInv'
<1>1. /\ plans' = [plans EXCEPT ![plan.id] = plan] /\ plan \in Plan /\ plan.id \in PlanId
      /\ pc' # "ran" /\ plan # NoPlan
  BY SaveCases, PlanFields, NoPlanIsNone DEF Fits
<1>2. lost \subseteq lost'
  BY SaveCases DEF Forgets
<1>3. \A p \in PlanId : plans'[p] = IF p = plan.id THEN plan ELSE plans[p]
  BY <1>1 DEF TypeOK
<1>4. \A q : \A p \in PlanId : Knows(q, p) => Knows(q, p)'
  BY <1>2 DEF Knows, SameWork
<1>5. \A p \in PlanId : Proven(p) => Proven(p)'
  BY <1>2 DEF Proven, SameWork
<1>6. ASSUME NEW p \in PlanId
      PROVE  /\ plans'[p] = NoPlan \/ (plans'[p] \in Plan /\ plans'[p].id = p)
             /\ plans'[p] = NoPlan => p \notin Waiting' \cup untested'
             /\ plans'[p] # NoPlan /\ ~Unrecorded(p)' => Knows(plans[p], p)'
             /\ plans'[p].status = "completed" => p \in committed' /\ Proven(p)'
  <2>1. CASE p = plan.id
    BY <1>1, <1>3, <1>4, <1>5, <2>1 DEF Fits, SameWork
  <2>2. CASE p # plan.id
    BY <1>1, <1>3, <1>4, <1>5, <2>2 DEF StoreInv, Unrecorded, SameWork
  <2>3. QED
    BY <2>1, <2>2
<1>7. /\ current' = NoPlan \/ current' \in Plan
      /\ current' # NoPlan /\ ~Unrecorded(current.id)' => Knows(current, current.id)'
  <2>1. CASE current' = plan
    BY <1>1, <1>4, <2>1 DEF Fits
  <2>2. CASE current' = current /\ ~(current # NoPlan /\ Unrecorded(current.id))
    BY <1>4, <2>2, PlanFields DEF StoreInv
  <2>3. CASE current' = current /\ current # NoPlan /\ Unrecorded(current.id)
    <3>1. current.id \in lost' \/ current' = plan
      BY <2>3, SaveCases DEF Unrecorded, Forgets
    <3>2. QED
      BY <2>1, <2>3, <3>1 DEF StoreInv, Knows
  <2>4. QED
    BY <2>1, <2>2, <2>3, SaveCases
<1>8. CurrentIsBehind'
  <2>1. CASE current' = plan
    BY <1>1, <1>3, <2>1 DEF CurrentIsBehind
  <2>2. CASE current' = current
    <3> SUFFICES ASSUME current # NoPlan
                 PROVE  /\ plans'[current.id] # NoPlan
                        /\ current.mutated => plans'[current.id].mutated
                        /\ current.status = "completed" =>
                             plans'[current.id].status = "completed"
      BY <2>2 DEF CurrentIsBehind
    <3>1. current.id \in PlanId
      BY PlanFields DEF StoreInv
    <3>2. QED
      BY <1>1, <1>3, <3>1 DEF Fits, StoreInv, CurrentIsBehind
  <2>3. QED
    BY <2>1, <2>2, SaveCases
<1>9. QED
  BY <1>6, <1>7, <1>8 DEF StoreInv

--------------------------------------------------------------------------------
\* What is stored keeps its types.
LEMMA SaveTypes ==
  ASSUME TypeOK, NEW plan, NEW next, Save(plan, next), opt.plan => plan \in Plan,
         pc = "ran" /\ opt.plan => id \in PlanId
  PROVE  /\ pc' \in {next, "dead"} /\ id' \in 0..MaxPlans
         /\ plans' \in [PlanId -> Plan \cup {NoPlan}] /\ current' \in Plan \cup {NoPlan}
         /\ crashes' \in 0..MaxCrashes /\ lost' \subseteq PlanId
<1>1. CASE ~opt.plan
  BY <1>1 DEF Save, Goto, stored, TypeOK
<1>2. CASE opt.plan
  <2>1. plan \in Plan /\ plan.id \in PlanId
    BY <1>2, PlanFields
  <2>2. pc' \in {next, "dead"} /\ current' \in {current, plan} /\ lost' \subseteq lost \cup PlanId
    BY <1>2, SaveCases DEF Forgets
  <2>3. crashes' = crashes \/ (crashes < MaxCrashes /\ crashes' = crashes + 1)
    BY <1>2, SaveCases
  <2>4. crashes' \in 0..MaxCrashes
    BY <2>3, AgentAssumption DEF TypeOK
  <2>5. plans' = [plans EXCEPT ![plan.id] = plan] /\ id' = plan.id
    BY <1>2, SaveCases
  <2>6. QED
    BY <2>1, <2>2, <2>4, <2>5 DEF TypeOK, PlanId
<1>3. QED
  BY <1>1, <1>2, OptionTypes

\* A step that moves the run, or ends it, and changes nothing of what it has done:
\* it saves the plan as it is, or with the status of the end.
Moves(plan, next) ==
  /\ pc \in Active \ {"ran"}
  /\ UNCHANGED <<opt, stop, starts, world, late, mutation_seen, verification_seen,
                 test_verification_seen>>
  /\ TurnOK'
  /\ (Goto(next) /\ next # "over") \/ Save(plan, next)
  /\ next \in (Active \ {"ran", "complete"}) \cup {"over"}
  /\ opt.plan => /\ plan \in Plan /\ plan.id = id
                 /\ plan.mutated = plans[id].mutated /\ plan.verified = plans[id].verified
                 /\ next # "over" => plan.status = "running"
                 /\ next = "over" =>
                      plan.status = IF end' = "yielded" THEN "running" ELSE end'
                 /\ plan.status = "completed" => pc = "complete"
  /\ next = "checked" => ~stop /\ calls' # <<>>
  /\ next = "commit" => Proven(id)
  /\ next = "over" /\ end' = "completed" => pc = "complete"

\* The plan such a step saves fits.
LEMMA MovesFits ==
  ASSUME IInv, NEW plan, NEW next, Moves(plan, next), opt.plan
  PROVE  Fits(plan) /\ plan.id = id /\ plans[id] # NoPlan
<1>1. /\ id \in PlanId /\ plans[id] # NoPlan /\ plans[id] \in Plan
      /\ plans[id].status = "running" /\ ~Unrecorded(id)
  BY DEF Moves, IInv, RunInv, StoreInv, Unrecorded
<1>2. /\ plan \in Plan /\ plan.id = id
      /\ plan.mutated = plans[id].mutated /\ plan.verified = plans[id].verified
      /\ plan.status = "completed" => pc = "complete"
  BY DEF Moves
<1>3. Knows(plan, id)
  BY <1>1, <1>2 DEF IInv, StoreInv, Knows
<1>4. current # NoPlan /\ current.id = id =>
        /\ current.mutated => plan.mutated
        /\ current.status # "completed"
  BY <1>1, <1>2 DEF IInv, StoreInv, CurrentIsBehind
<1>5. plan.status = "completed" => id \in committed /\ Proven(id)
  BY <1>2 DEF IInv, EndInv
<1>6. QED
  BY <1>1, <1>2, <1>3, <1>4, <1>5 DEF Fits

LEMMA MovesKeeps ==
  ASSUME IInv, NEW plan, NEW next, Moves(plan, next)
  PROVE  IInv'
<1>1. /\ pc' \in {next, "dead"} /\ (opt.plan => id' = id)
      /\ (Save(plan, next) \/ (Goto(next) /\ next # "over"))
      /\ next # "ran" /\ pc # "ran" /\ pc \in Active /\ next \in Active \cup {"over"}
      /\ next # "complete"
  <2>1. Goto(next) => pc' = next /\ id' = id
    BY DEF Goto, stored
  <2>2. Save(plan, next) => pc' \in {next, "dead"} /\ (opt.plan => id' = id)
    BY SaveCases DEF Save, Goto, Moves
  <2>3. QED
    BY <2>1, <2>2 DEF Moves
<1>2. UNCHANGED <<opt, stop, starts, world, late, mutation_seen, verification_seen,
                  test_verification_seen>> /\ TurnOK'
  BY DEF Moves
<1>3. pc' \in Active \cup {"over", "dead"} /\ pc' # "ran"
  BY <1>1
<1>4. TypeOK'
  <2>1. /\ id' \in 0..MaxPlans
        /\ plans' \in [PlanId -> Plan \cup {NoPlan}] /\ current' \in Plan \cup {NoPlan}
        /\ crashes' \in 0..MaxCrashes /\ lost' \subseteq PlanId
    <3>1. CASE Goto(next)
      BY <3>1 DEF Goto, stored, IInv, TypeOK
    <3>2. CASE Save(plan, next)
      BY <3>2, <1>1, SaveTypes DEF IInv, Moves
    <3>3. QED
      BY <1>1, <3>1, <3>2
  <2>2. QED
    BY <1>2, <1>3, <2>1 DEF IInv, TypeOK, TurnOK, Active, world
<1>5. StoreInv' /\ RunInv' /\ id' = id /\ lost \subseteq lost'
  <2>1. CASE UNCHANGED stored /\ pc' = next /\ (opt.plan => next # "over")
    <3>1. UNCHANGED <<id, plans, current, lost>>
      BY <2>1 DEF stored
    <3>2. StoreInv'
      BY <1>1, <1>2, <3>1
      DEF IInv, StoreInv, Unrecorded, Knows, Proven, CurrentIsBehind, world, Waiting
    <3>3. RunInv'
      BY <1>1, <1>2, <1>3, <2>1, <3>1 DEF IInv, RunInv, PlanTellsTheEnd, Active
    <3>4. QED
      BY <3>1, <3>2, <3>3
  <2>2. CASE opt.plan /\ Save(plan, next)
    <3>1. Fits(plan) /\ plan.id = id /\ plans[id] # NoPlan
      BY <2>2, MovesFits
    <3>2. StoreInv'
      BY <1>1, <1>2, <2>2, <3>1, SaveKeepsStore DEF IInv, SameWork, world, Waiting
    <3>3. id' = id /\ plans' = [plans EXCEPT ![id] = plan] /\ lost \subseteq lost'
      BY <2>2, <3>1, SaveCases DEF Forgets
    <3>4. (pc' = next /\ current' = plan) \/ pc' = "dead"
      BY <2>2, SaveCases
    <3>5. id \in PlanId /\ plans'[id] = plan /\ plan # NoPlan
      BY <1>1, <2>2, <3>1, <3>3, NoPlanIsNone DEF IInv, RunInv, TypeOK, Fits
    <3>6. /\ next # "over" => plan.status = "running"
          /\ next = "over" => plan.status = IF end' = "yielded" THEN "running" ELSE end'
      BY <2>2 DEF Moves
    <3>7. RunInv'
      BY <1>2, <2>2, <3>3, <3>4, <3>5, <3>6 DEF RunInv, PlanTellsTheEnd, Active
    <3>8. QED
      BY <3>2, <3>3, <3>7
  <2>3. QED
    BY <1>1, <2>1, <2>2 DEF Goto, Save
<1>6. FlagInv'
  BY <1>1, <1>2, <1>3, <1>5 DEF IInv, FlagInv, Unrecorded, world, Waiting
<1>7. EndInv'
  <2>1. Proven(id) => Proven(id)'
    BY <1>2, <1>5 DEF Proven, world, Waiting
  <2>2. pc' = "commit" => Proven(id)
    BY <1>1 DEF Moves
  <2>3. pc' = "over" /\ end' = "completed" => Proven(id) /\ id \in committed'
    BY <1>1, <1>2 DEF Moves, IInv, EndInv, Active, world
  <2>4. pc' # "complete"
    BY <1>1
  <2>5. QED
    BY <1>5, <2>1, <2>2, <2>3, <2>4 DEF EndInv
<1>8. CallInv'
  BY <1>1, <1>2 DEF Moves, IInv, CallInv
<1>9. QED
  BY <1>4, <1>5, <1>6, <1>7, <1>8 DEF IInv

--------------------------------------------------------------------------------
\* The steps of a turn.
LEMMA ThePlanRuns ==
  ASSUME IInv, pc \in Active, opt.plan
  PROVE  ThePlan \in Plan /\ ThePlan.id = id /\ ThePlan.status = "running"
BY DEF IInv, RunInv, StoreInv, ThePlan

LEMMA TypesOfTurn == TypeOK => TurnOK
BY DEF TypeOK, TurnOK

LEMMA PausesKeeps ==
  ASSUME IInv, pc \in Active \ {"ran"}, Pauses \/ Fails, Quiet,
         UNCHANGED <<i, sent, reply, calls, result, flags>>
  PROVE  IInv'
<1>1. PICK how \in {"paused", "failed"} :
        end' = how /\ Save([ThePlan EXCEPT !.status = how], "over")
  BY DEF Pauses, Fails, Ends
<1> DEFINE new == [ThePlan EXCEPT !.status = how]
<1>2. opt.plan => /\ new \in Plan /\ new.id = id /\ new.status = how
                  /\ new.mutated = plans[id].mutated /\ new.verified = plans[id].verified
  <2> SUFFICES ASSUME opt.plan
               PROVE  /\ new \in Plan /\ new.id = id /\ new.status = how
                      /\ new.mutated = plans[id].mutated /\ new.verified = plans[id].verified
    OBVIOUS
  <2>1. ThePlan \in Plan /\ ThePlan.id = id
    BY ThePlanRuns
  <2>2. /\ new \in Plan /\ new.id = ThePlan.id /\ new.status = how
        /\ new.mutated = ThePlan.mutated /\ new.verified = ThePlan.verified
    <3>1. how \in {"running", "paused", "failed", "completed"}
      OBVIOUS
    <3>2. QED
      BY <2>1, <3>1, WithStatus
  <2>3. QED
    BY <2>1, <2>2 DEF ThePlan
<1>3. TurnOK'
  BY <1>1, TypesOfTurn DEF IInv, TurnOK, flags
<1> HIDE DEF new
<1>4. Save(new, "over")
  BY <1>1 DEF new
<1>5. Moves(new, "over")
  BY <1>1, <1>2, <1>3, <1>4 DEF Moves, Quiet, flags
<1>6. QED
  BY <1>5, MovesKeeps

LEMMA GoesOn ==
  ASSUME IInv, pc \in Active \ {"ran"}, NEW next \in Active \ {"ran", "complete"},
         Goto(next) \/ Save(ThePlan, next), Quiet, TurnOK',
         UNCHANGED <<mutation_seen, verification_seen, test_verification_seen>>,
         next = "checked" => ~stop /\ calls' # <<>>, next = "commit" => Proven(id)
  PROVE  IInv'
<1>1. opt.plan => ThePlan \in Plan /\ ThePlan.id = id /\ ThePlan.status = "running"
  BY ThePlanRuns
<1>2. opt.plan => ThePlan.mutated = plans[id].mutated /\ ThePlan.verified = plans[id].verified
  BY DEF ThePlan
<1>3. next # "over"
  BY DEF Active
<1>4. Moves(ThePlan, next)
  BY <1>1, <1>2, <1>3 DEF Moves, Quiet
<1>5. QED
  BY <1>4, MovesKeeps

LEMMA YieldKeeps == ASSUME IInv, Yield PROVE IInv'
<1>1. pc \in Active \ {"ran"} /\ end' = "yielded" /\ Save(ThePlan, "over")
  BY DEF Yield, Ends, Active
<1>2. opt.plan => ThePlan \in Plan /\ ThePlan.id = id /\ ThePlan.status = "running"
  BY <1>1, ThePlanRuns
<1>3. TurnOK'
  BY <1>1, TypesOfTurn DEF Yield, IInv, TurnOK, flags
<1>4. Moves(ThePlan, "over")
  BY <1>1, <1>2, <1>3 DEF Moves, Yield, Quiet, flags, ThePlan
<1>5. QED
  BY <1>4, MovesKeeps

LEMMA AskKeeps == ASSUME IInv, Ask PROVE IInv'
<1>1. i' \in 0..(Limit + Grace)
  BY AgentAssumption DEF Ask, MayTurn, IInv, TypeOK, Grace
<1>2. TurnOK'
  BY <1>1, TypesOfTurn DEF Ask, IInv, TurnOK, flags
<1>3. QED
  BY <1>2, GoesOn DEF Ask, Active, flags

LEMMA AnswersKeeps == ASSUME IInv, Answers PROVE IInv'
<1>1. reply' \in Reply /\ calls' \in Seq(Calls)
  <2>1. <<>> \in Seq(Calls)
    OBVIOUS
  <2>2. ASSUME NEW kind \in {"unusable", "final", "no_change"},
               reply' = [kind |-> kind, sole |-> FALSE, done |-> FALSE]
        PROVE  reply' \in Reply
    BY <2>2 DEF Reply
  <2>3. ASSUME NEW batch \in Batches, NEW done \in BOOLEAN,
               reply' = [kind |-> "calls", sole |-> Len(batch) = 1, done |-> done]
        PROVE  reply' \in Reply
    <3>1. (Len(batch) = 1) \in BOOLEAN
      OBVIOUS
    <3>2. QED
      BY <2>3, <3>1 DEF Reply
  <2>4. QED
    BY <2>1, <2>2, <2>3, AgentAssumption DEF Answers
<1>2. TurnOK'
  BY <1>1, TypesOfTurn DEF Answers, IInv, TurnOK, flags
<1>3. QED
  BY <1>2, GoesOn DEF Answers, Active, flags

\* What completes a run has proven its changes.
LEMMA GuardProves ==
  ASSUME IInv, pc \in Active \ {"ran"}, ~Unproven
  PROVE  Proven(id)
<1>1. opt.enforce /\ id \notin lost =>
        /\ id \in Waiting => mutation_seen /\ ~verification_seen
        /\ id \in untested => mutation_seen /\ ~test_verification_seen
  BY DEF IInv, FlagInv, Unrecorded
<1>2. QED
  BY <1>1 DEF Unproven, Ready, Proven

LEMMA AskForKeeps ==
  ASSUME IInv, pc \in Active \ {"ran"}, NEW what \in FollowUps, AskFor(what), Quiet,
         UNCHANGED <<i, reply, calls, result, flags>>
  PROVE  IInv'
<1>1. CASE sent' = sent \cup {what} /\ UNCHANGED end /\ Progress
  <2>1. TurnOK'
    BY <1>1, TypesOfTurn DEF IInv, TurnOK, flags
  <2>2. QED
    BY <1>1, <2>1, GoesOn DEF Progress, Active, flags
<1>2. CASE UNCHANGED sent /\ Pauses
  BY <1>2, PausesKeeps
<1>3. QED
  BY <1>1, <1>2 DEF AskFor

LEMMA FinalKeeps == ASSUME IInv, Final PROVE IInv'
<1>1. pc \in Active \ {"ran"} /\ Quiet /\ UNCHANGED <<i, reply, calls, result, flags>>
  BY DEF Final, Active
<1>2. CASE Missing = "nothing"
  <2>1. ~Unproven
    BY <1>2 DEF Missing
  <2>2. TurnOK'
    BY <1>1, <1>2, TypesOfTurn DEF Final, IInv, TurnOK, flags
  <2>3. QED
    BY <1>1, <1>2, <2>1, <2>2, GoesOn, GuardProves DEF Final, Active, flags
<1>3. CASE Missing # "nothing"
  <2>1. Missing \in FollowUps
    BY <1>3 DEF Missing, FollowUps
  <2>2. QED
    BY <1>1, <1>3, <2>1, AskForKeeps DEF Final
<1>4. QED
  BY <1>2, <1>3

LEMMA RepeatsKeeps == ASSUME IInv, Repeats PROVE IInv'
<1>1. pc \in Active \ {"ran"} /\ Quiet /\ UNCHANGED <<i, sent, reply, calls, result, flags>>
  BY DEF Repeats, Active
<1>2. CASE Progress /\ UNCHANGED end
  <2>1. TurnOK'
    BY <1>1, <1>2, TypesOfTurn DEF IInv, TurnOK, flags
  <2>2. QED
    BY <1>1, <1>2, <2>1, GoesOn DEF Progress, Active, flags
<1>3. CASE Pauses
  BY <1>1, <1>3, PausesKeeps
<1>4. QED
  BY <1>2, <1>3 DEF Repeats

LEMMA TakeCallsKeeps == ASSUME IInv, TakeCalls PROVE IInv'
<1>1. TurnOK'
  BY TypesOfTurn DEF TakeCalls, IInv, TurnOK
<1>2. QED
  BY <1>1, GoesOn DEF TakeCalls, Active

LEMMA NextCallKeeps == ASSUME IInv, NextCall PROVE IInv'
<1>1. TurnOK'
  BY TypesOfTurn DEF NextCall, IInv, TurnOK, flags
<1>2. QED
  BY <1>1, GoesOn DEF NextCall, Calling, Active, flags

LEMMA TailIsCalls ==
  ASSUME TypeOK, CallInv, pc \in {"checked", "ran"}
  PROVE  Tail(calls) \in Seq(Calls) /\ Call \in Calls
BY DEF TypeOK, CallInv, Call

LEMMA CompleteKeeps == ASSUME IInv, Complete PROVE IInv'
<1>1. PICK no_change \in BOOLEAN :
        LET missing == CompleteMissing(no_change)
        IN /\ sent' = sent \cup ({missing} \cap {"audit"})
           /\ IF missing = "nothing" THEN Goto("commit") /\ UNCHANGED calls
              ELSE Goto("calling") /\ calls' = Tail(calls)
  BY DEF Complete
<1>2. pc \in Active \ {"ran"} /\ Quiet /\ UNCHANGED <<end, i, reply, result, flags>>
  BY DEF Complete, AtCall, Active
<1>3. calls' \in Seq(Calls) /\ sent' \subseteq FollowUps
  BY <1>1, TailIsCalls DEF Complete, AtCall, IInv, TypeOK, FollowUps
<1>4. TurnOK'
  BY <1>2, <1>3, TypesOfTurn DEF IInv, TurnOK, flags
<1>5. CASE CompleteMissing(no_change) = "nothing"
  <2>1. ~Unproven
    BY <1>5 DEF CompleteMissing
  <2>2. QED
    BY <1>1, <1>2, <1>4, <1>5, <2>1, GoesOn, GuardProves DEF Active, flags
<1>6. CASE CompleteMissing(no_change) # "nothing"
  BY <1>1, <1>2, <1>4, <1>6, GoesOn DEF Active, flags
<1>7. QED
  BY <1>5, <1>6

LEMMA RefusedKeeps == ASSUME IInv, Refused PROVE IInv'
<1>1. TurnOK'
  BY TypesOfTurn, TailIsCalls DEF Refused, AtCall, IInv, TurnOK, flags
<1>2. QED
  BY <1>1, GoesOn DEF Refused, AtCall, Active, flags

LEMMA BatchDoneKeeps == ASSUME IInv, BatchDone PROVE IInv'
<1>1. TurnOK'
  BY TypesOfTurn DEF BatchDone, IInv, TurnOK, flags
<1>2. pc \in Active \ {"ran"} /\ Quiet /\ UNCHANGED flags
  BY DEF BatchDone, Active
<1>3. PICK next \in {"batch", "turn"} : Save(ThePlan, next)
  BY DEF BatchDone, Progress
<1>4. QED
  BY <1>1, <1>2, <1>3, GoesOn DEF Active, flags

LEMMA DoneKeeps == ASSUME IInv, Done PROVE IInv'
<1>1. pc \in Active \ {"ran"} /\ Quiet /\ UNCHANGED <<i, reply, calls, result, flags>>
  BY DEF Done, Active
<1>2. CASE Unproven
  BY <1>1, <1>2, AskForKeeps DEF Done, FollowUps
<1>3. CASE ~Unproven /\ Audits
  BY <1>1, <1>3, AskForKeeps DEF Done, FollowUps
<1>4. CASE ~Unproven /\ ~Audits
  <2>1. Goto("commit") /\ UNCHANGED <<end, sent>>
    BY <1>4 DEF Done
  <2>2. TurnOK'
    BY <1>1, <2>1, TypesOfTurn DEF IInv, TurnOK, flags
  <2>3. QED
    BY <1>1, <1>4, <2>1, <2>2, GoesOn, GuardProves DEF Active, flags
<1>5. QED
  BY <1>2, <1>3, <1>4

LEMMA CompletePlanKeeps == ASSUME IInv, CompletePlan PROVE IInv'
<1> DEFINE new == [ThePlan EXCEPT !.status = "completed"]
<1>1. pc \in Active \ {"ran"} /\ pc = "complete" /\ end' = "completed"
  BY DEF CompletePlan, Ends, Active
<1>2. opt.plan => /\ new \in Plan /\ new.id = id /\ new.status = "completed"
                  /\ new.mutated = plans[id].mutated /\ new.verified = plans[id].verified
  <2> SUFFICES ASSUME opt.plan
               PROVE  /\ new \in Plan /\ new.id = id /\ new.status = "completed"
                      /\ new.mutated = plans[id].mutated /\ new.verified = plans[id].verified
    OBVIOUS
  <2>1. ThePlan \in Plan /\ ThePlan.id = id
    BY <1>1, ThePlanRuns
  <2>2. /\ new \in Plan /\ new.id = ThePlan.id /\ new.status = "completed"
        /\ new.mutated = ThePlan.mutated /\ new.verified = ThePlan.verified
    BY <2>1, WithStatus
  <2>3. QED
    BY <2>1, <2>2 DEF ThePlan
<1>3. TurnOK'
  BY <1>1, TypesOfTurn DEF CompletePlan, IInv, TurnOK, flags
<1>4. Save(new, "over")
  BY DEF CompletePlan, Ends
<1> HIDE DEF new
<1>5. Moves(new, "over")
  BY <1>1, <1>2, <1>3, <1>4 DEF Moves, CompletePlan, Quiet, flags
<1>6. QED
  BY <1>5, MovesKeeps

--------------------------------------------------------------------------------
\* A tool runs.  Only what the run at hand has done changes.
LEMMA ExecuteKeeps == ASSUME IInv, Execute PROVE IInv'
<1>1. /\ pc = "checked" /\ pc' = "ran" /\ result' \in {"ok", "error"}
      /\ UNCHANGED <<id, plans, current, crashes, lost, end, i, sent, reply, calls,
                     mutation_seen, verification_seen, test_verification_seen,
                     tool_was_called, opt, stop, starts>>
  BY DEF Execute, AtCall, Goto, stored
<1>2. Call' = Call /\ late' \in {late, late + 1} /\ (late' # late => stop)
  BY <1>1 DEF Execute, Call
<1>3. fresh_inspection_after_resume' \in BOOLEAN
  BY DEF Execute, IInv, TypeOK
<1>4. \A p : p # id => /\ p \in Waiting' <=> p \in Waiting
                       /\ p \in untested' <=> p \in untested
                       /\ p \in committed' <=> p \in committed
  BY DEF Execute, Effect, world, Waiting
<1>5. /\ id \in 0..MaxPlans /\ readback' \subseteq readback \cup {id}
      /\ untested' \subseteq untested \cup {id} /\ committed' \subseteq committed
      /\ unchecked' \subseteq unchecked \cup {id}
  BY DEF Execute, Effect, world, IInv, TypeOK
<1>6. Changed' => (Call = "doc" => id \notin Waiting')
  BY <1>1, <1>2 DEF Execute, Effect, Changed, Changing, Checking, Waiting
<1>7. ~Changed' =>
        /\ id \in Waiting' => id \in Waiting /\ ~(Cleared)'
        /\ id \in untested' => id \in untested /\ ~(Cleared' /\ Call = "test")
  BY <1>1, <1>2 DEF Execute, Effect, world, Changed, Cleared, Changing, Checking, Waiting
<1>8. TypeOK'
  BY <1>1, <1>2, <1>3, <1>5 DEF IInv, TypeOK, CallInv
<1>9. StoreInv'
  <2>1. \A p \in PlanId : p # id =>
          (Proven(p) => Proven(p)') /\ ~Unrecorded(p) /\ ~Unrecorded(p)'
    BY <1>1, <1>4 DEF Proven, Unrecorded
  <2>2. \A q, p : (p # id \/ ~Changed') /\ Knows(q, p) => Knows(q, p)'
    BY <1>1, <1>4, <1>7 DEF Knows
  <2>3. Unrecorded(id)' <=> Changed'
    BY <1>1 DEF Unrecorded
  <2>4. ASSUME NEW p \in PlanId
        PROVE  /\ plans'[p] = NoPlan \/ (plans'[p] \in Plan /\ plans'[p].id = p)
               /\ plans'[p] = NoPlan => p \notin Waiting' \cup untested'
               /\ plans'[p] # NoPlan /\ ~Unrecorded(p)' => Knows(plans[p], p)'
               /\ plans'[p].status = "completed" => p \in committed' /\ Proven(p)'
    <3>1. p = id => plans[p] # NoPlan /\ plans[p].status = "running"
      BY <1>1, NoPlanIsNone DEF IInv, RunInv, Active
    <3>2. ~Unrecorded(p)
      BY <1>1 DEF Unrecorded
    <3>3. QED
      BY <1>1, <1>4, <2>1, <2>2, <2>3, <3>1, <3>2 DEF IInv, StoreInv
  <2>5. current' # NoPlan /\ ~Unrecorded(current.id)' => Knows(current, current.id)'
    <3>1. ~Unrecorded(current.id)
      BY <1>1 DEF Unrecorded
    <3>2. QED
      BY <1>1, <2>2, <2>3, <3>1 DEF IInv, StoreInv, Unrecorded
  <2>6. QED
    BY <1>1, <2>4, <2>5 DEF IInv, StoreInv, CurrentIsBehind
<1>10. RunInv'
  BY <1>1 DEF IInv, RunInv, PlanTellsTheEnd, Active
<1>11. FlagInv'
  <2>1. id \notin lost =>
          /\ id \in Waiting => mutation_seen /\ ~verification_seen
          /\ id \in untested => mutation_seen /\ ~test_verification_seen
    BY <1>1 DEF IInv, FlagInv, Unrecorded, Active
  <2>2. QED
    BY <1>1, <1>2, <1>6, <1>7, <2>1 DEF FlagInv, Unrecorded
<1>12. EndInv' /\ CallInv'
  BY <1>1, <1>2 DEF IInv, EndInv, CallInv
<1>13. QED
  BY <1>8, <1>9, <1>10, <1>11, <1>12 DEF IInv

\* A tool that ran is recorded: in the flags, and in the plan.
LEMMA RecordKeeps == ASSUME IInv, Record PROVE IInv'
<1>1. /\ pc = "ran" /\ result' = "none" /\ calls' = Tail(calls)
      /\ Save(RecordedPlan, "calling")
      /\ UNCHANGED <<end, i, reply, tool_was_called, fresh_inspection_after_resume, opt, stop,
                     starts, world, late>>
  BY DEF Record, Quiet
<1>2. /\ mutation_seen' = (mutation_seen \/ Changed) /\ verification_seen' = StillVerified
      /\ test_verification_seen' = StillTested /\ sent' \in {sent, sent \ {"verify"}}
  BY DEF Record
<1>3. Unrecorded(id) <=> Changed
  BY <1>1 DEF Unrecorded
<1>4. mutation_seen \in BOOLEAN /\ verification_seen \in BOOLEAN
  BY DEF IInv, TypeOK
<1>5. id \notin lost =>
        /\ id \in Waiting => mutation_seen' /\ ~verification_seen'
        /\ id \in untested => mutation_seen' /\ ~test_verification_seen'
  <2>1. CASE Changed
    <3>1. Call = "code" \/ Call = "doc"
      BY <2>1 DEF Changed, Changing
    <3>2. id \notin lost => (Call = "doc" => id \notin Waiting)
      BY <1>1, <1>3, <2>1 DEF IInv, FlagInv, Active
    <3>3. QED
      BY <1>2, <2>1, <3>1, <3>2 DEF StillVerified, StillTested
  <2>2. CASE ~Changed
    <3>1. id \notin lost =>
            /\ id \in Waiting => mutation_seen /\ ~verification_seen /\ ~Cleared
            /\ id \in untested =>
                 mutation_seen /\ ~test_verification_seen /\ ~(Cleared /\ Call = "test")
      BY <1>1, <1>3, <2>2 DEF IInv, FlagInv, Active
    <3>2. (Checked => Cleared) /\ (Checked /\ Call = "test" => Cleared /\ Call = "test")
      BY DEF Checked, Cleared
    <3>3. QED
      BY <1>2, <2>2, <3>1, <3>2 DEF StillVerified, StillTested
  <2>3. QED
    BY <2>1, <2>2
<1>6. opt.plan => RecordedPlan.id = id /\ RecordedPlan.status = "running" /\ Fits(RecordedPlan)
  <2> SUFFICES ASSUME opt.plan
               PROVE  RecordedPlan.id = id /\ RecordedPlan.status = "running"
                        /\ Fits(RecordedPlan)
    OBVIOUS
  <2>1. ThePlan \in Plan /\ ThePlan.id = id /\ ThePlan.status = "running" /\ id \in PlanId
    BY <1>1, ThePlanRuns DEF IInv, RunInv, Active
  <2> DEFINE mutated == ThePlan.mutated \/ Changed
             verified == IF Changed THEN Call = "doc" ELSE ThePlan.verified \/ Checked
  <2>2. mutated \in BOOLEAN /\ verified \in BOOLEAN
    BY <2>1, PlanFields DEF Changed, Checked
  <2>3. RecordedPlan = [ThePlan EXCEPT !.mutated = mutated, !.verified = verified]
    BY DEF RecordedPlan
  <2> HIDE DEF mutated, verified
  <2>4. /\ RecordedPlan \in Plan /\ RecordedPlan.id = id /\ RecordedPlan.status = "running"
        /\ RecordedPlan.mutated = mutated /\ RecordedPlan.verified = verified
    BY <2>1, <2>2, <2>3 DEF Plan
  <2>5. id \notin lost =>
          /\ id \in Waiting => mutated /\ ~verified
          /\ id \in untested => mutated
    <3>1. CASE Changed
      <4>1. Call = "code" \/ Call = "doc"
        BY <3>1 DEF Changed, Changing
      <4>2. id \notin lost => (Call = "doc" => id \notin Waiting)
        BY <1>1, <1>3, <3>1 DEF IInv, FlagInv, Active
      <4>3. QED
        BY <3>1, <4>1, <4>2 DEF mutated, verified
    <3>2. CASE ~Changed
      <4>1. Knows(ThePlan, id)
        BY <1>1, <1>3, <2>1, <3>2 DEF IInv, RunInv, StoreInv, ThePlan, Active
      <4>2. id \notin lost => (id \in Waiting => ~Cleared)
        BY <1>1, <1>3, <3>2 DEF IInv, FlagInv, Active
      <4>3. QED
        BY <3>2, <4>1, <4>2 DEF mutated, verified, Knows, Checked, Cleared
    <3>3. QED
      BY <3>1, <3>2
  <2>6. current # NoPlan /\ current.id = id =>
          (current.mutated => mutated) /\ current.status # "completed"
    BY <2>1 DEF IInv, StoreInv, CurrentIsBehind, ThePlan, mutated
  <2>7. QED
    BY <2>1, <2>4, <2>5, <2>6 DEF Fits, Knows
<1>7. id' = id /\ lost \subseteq lost' /\ pc' \in {"calling", "dead"}
  BY <1>1, <1>6, SaveCases DEF Save, Goto, stored, Forgets
<1>8. TypeOK'
  <2>1. opt.plan => RecordedPlan \in Plan /\ id \in PlanId
    BY <1>1, <1>6 DEF Fits, IInv, RunInv, Active
  <2>2. /\ id' \in 0..MaxPlans
        /\ plans' \in [PlanId -> Plan \cup {NoPlan}] /\ current' \in Plan \cup {NoPlan}
        /\ crashes' \in 0..MaxCrashes /\ lost' \subseteq PlanId
    BY <1>1, <2>1, SaveTypes DEF IInv
  <2>3. /\ calls' \in Seq(Calls) /\ mutation_seen' \in BOOLEAN
        /\ verification_seen' \in BOOLEAN /\ test_verification_seen' \in BOOLEAN
    BY <1>1, <1>2, TailIsCalls DEF IInv, TypeOK, StillVerified, StillTested, Changed, Checked
  <2>4. QED
    BY <1>1, <1>2, <1>7, <2>2, <2>3 DEF IInv, TypeOK, world
<1>9. StoreInv' /\ RunInv'
  <2>1. CASE opt.plan
    <3>1. StoreInv'
      BY <1>1, <1>6, <2>1, SaveKeepsStore DEF IInv, SameWork, world, Waiting
    <3>2. plans' = [plans EXCEPT ![id] = RecordedPlan] /\ id \in PlanId
      BY <1>1, <1>6, <2>1, SaveCases DEF IInv, RunInv, Active
    <3>3. RecordedPlan # NoPlan
      BY <1>6, <2>1, NoPlanIsNone DEF Fits
    <3>4. plans'[id] = RecordedPlan
      BY <3>2 DEF IInv, TypeOK
    <3>5. QED
      BY <1>1, <1>6, <1>7, <2>1, <3>1, <3>2, <3>3, <3>4 DEF RunInv, PlanTellsTheEnd
  <2>2. CASE ~opt.plan
    <3>1. UNCHANGED <<id, plans, current, lost>>
      BY <1>1, <2>2 DEF Save, Goto, stored
    <3>2. \A p \in PlanId : ~Unrecorded(p)
      BY <2>2, NoPlanIsNone DEF IInv, RunInv, Unrecorded
    <3>3. StoreInv'
      BY <1>1, <1>7, <2>2, <3>1, <3>2
      DEF IInv, RunInv, StoreInv, Unrecorded, Knows, Proven, CurrentIsBehind, world, Waiting
    <3>4. QED
      BY <1>1, <1>7, <2>2, <3>1, <3>3 DEF IInv, RunInv, PlanTellsTheEnd
  <2>3. QED
    BY <2>1, <2>2
<1>10. FlagInv' /\ EndInv' /\ CallInv'
  BY <1>1, <1>5, <1>7 DEF IInv, FlagInv, EndInv, CallInv, Unrecorded, world, Waiting
<1>11. QED
  BY <1>8, <1>9, <1>10 DEF IInv

LEMMA CommitKeeps == ASSUME IInv, Commit PROVE IInv'
<1>1. /\ pc = "commit" /\ pc' = "complete" /\ committed' = committed \cup {id}
      /\ UNCHANGED <<end, i, sent, reply, calls, result, flags, opt, stop, starts, unchecked,
                     readback, untested, late, stored>>
  BY DEF Commit, Goto
<1>2. TypeOK'
  BY <1>1 DEF IInv, TypeOK, flags, stored
<1>3. StoreInv'
  BY <1>1 DEF IInv, StoreInv, Unrecorded, Knows, Proven, CurrentIsBehind, stored, Waiting
<1>4. RunInv' /\ CallInv'
  BY <1>1 DEF IInv, RunInv, PlanTellsTheEnd, CallInv, Active, stored
<1>5. FlagInv' /\ EndInv'
  BY <1>1 DEF IInv, FlagInv, EndInv, Unrecorded, Proven, Active, stored, flags, Waiting
<1>6. QED
  BY <1>2, <1>3, <1>4, <1>5 DEF IInv

--------------------------------------------------------------------------------
\* The end of a process, and the beginning of a run.
LEMMA ReturnKeeps == ASSUME IInv, Return PROVE IInv'
<1>1. /\ pc \in {"over", "dead"} /\ pc' = "off" /\ UNCHANGED <<opt, starts, world, stored>>
      /\ late' = 0
  BY DEF Return, Goto
<1>2. TypeOK'
  <2>1. NoReply \in Reply /\ <<>> \in Seq(Calls)
    BY DEF NoReply, Reply
  <2>2. 0 \in 0..(Limit + Grace)
    BY AgentAssumption DEF Grace
  <2>3. /\ end' \in {"none", "crashed"} /\ i' = 0 /\ sent' = {} /\ reply' = NoReply
        /\ calls' = <<>> /\ result' = "none" /\ mutation_seen' = FALSE
        /\ verification_seen' = FALSE /\ test_verification_seen' = FALSE
        /\ tool_was_called' = FALSE /\ fresh_inspection_after_resume' = FALSE /\ stop' = FALSE
    BY DEF Return
  <2>4. QED
    BY <1>1, <2>1, <2>2, <2>3 DEF IInv, TypeOK, world, stored
<1>3. StoreInv'
  BY <1>1 DEF IInv, StoreInv, Unrecorded, Knows, Proven, CurrentIsBehind, stored, world, Waiting
<1>4. RunInv' /\ FlagInv' /\ EndInv' /\ CallInv'
  BY <1>1 DEF IInv, RunInv, PlanTellsTheEnd, FlagInv, EndInv, CallInv, Active, stored
<1>5. QED
  BY <1>2, <1>3, <1>4 DEF IInv

LEMMA UserStopsKeeps == ASSUME IInv, UserStops PROVE IInv'
<1>1. stop' = TRUE /\ ~stop /\ UNCHANGED <<opt, control, flags, stored, starts, world, late>>
  BY DEF UserStops
<1>2. TypeOK'
  BY <1>1 DEF IInv, TypeOK, control, flags, stored, world
<1>3. StoreInv' /\ RunInv'
  BY <1>1 DEF IInv, StoreInv, RunInv, PlanTellsTheEnd, Unrecorded, Changed, Call, Knows, Proven,
              CurrentIsBehind, control, stored, world, Waiting
<1>4. FlagInv' /\ EndInv' /\ CallInv'
  BY <1>1 DEF IInv, FlagInv, EndInv, CallInv, Unrecorded, Changed, Cleared, Call, Proven,
              control, flags, stored, world, Waiting
<1>5. QED
  BY <1>2, <1>3, <1>4 DEF IInv

LEMMA CrashKeeps == ASSUME IInv, Crash PROVE IInv'
<1>1. /\ pc' = "dead" /\ crashes < MaxCrashes /\ crashes' = crashes + 1 /\ Forgets
      /\ UNCHANGED <<opt, end, i, sent, reply, calls, result, flags, stop, id, plans, current,
                     starts, world, late>>
  BY DEF Crash
<1>2. lost \subseteq lost' /\ \A p \in PlanId : Unrecorded(p) => plans[p] = NoPlan \/ p \in lost'
  BY <1>1, OptionTypes DEF Forgets, Unrecorded, IInv, RunInv
<1>3. TypeOK'
  <2>1. crashes' \in 0..MaxCrashes
    BY <1>1, AgentAssumption DEF IInv, TypeOK
  <2>2. lost' \subseteq PlanId
    BY <1>1 DEF Forgets, IInv, TypeOK, RunInv, Active
  <2>3. QED
    BY <1>1, <2>1, <2>2 DEF IInv, TypeOK, flags, world
<1>4. StoreInv'
  <2>1. current # NoPlan => current.id \in PlanId /\ plans[current.id] # NoPlan
    BY PlanFields DEF IInv, StoreInv, CurrentIsBehind
  <2>2. QED
    BY <1>1, <1>2, <2>1 DEF IInv, StoreInv, Unrecorded, Knows, Proven, CurrentIsBehind, world, Waiting
<1>5. RunInv' /\ FlagInv' /\ EndInv' /\ CallInv'
  BY <1>1 DEF IInv, RunInv, PlanTellsTheEnd, FlagInv, EndInv, CallInv, Active
<1>6. QED
  BY <1>3, <1>4, <1>5 DEF IInv

\* A run that begins with a plan, or without one.
LEMMA BeginsTypes ==
  ASSUME TypeOK, NEW plan, NEW resumed \in BOOLEAN, Begins(plan, resumed), starts < MaxStarts,
         plan.mutated \in BOOLEAN, plan.verified \in BOOLEAN
  PROVE  /\ opt' \in Options /\ TurnOK' /\ starts' \in 0..MaxStarts
         /\ mutation_seen' = plan.mutated
         /\ verification_seen' = (plan.mutated /\ plan.verified)
         /\ mutation_seen' \in BOOLEAN /\ verification_seen' \in BOOLEAN
         /\ test_verification_seen' = FALSE /\ stop' = FALSE /\ late' = 0
         /\ UNCHANGED opt
<1>1. NoReply \in Reply /\ <<>> \in Seq(Calls)
  BY DEF NoReply, Reply
<1>2. 0 \in 0..(Limit + Grace) /\ starts + 1 \in 0..MaxStarts
  BY AgentAssumption DEF Grace, TypeOK
<1>3. /\ starts' = starts + 1 /\ end' = "none" /\ i' = 0
      /\ tool_was_called' \in BOOLEAN /\ sent' \subseteq FollowUps
      /\ reply' = NoReply /\ calls' = <<>> /\ result' = "none"
      /\ fresh_inspection_after_resume' \in BOOLEAN
  BY DEF Begins, FollowUps
<1>4. /\ mutation_seen' = plan.mutated
      /\ verification_seen' = (plan.mutated /\ plan.verified)
      /\ test_verification_seen' = FALSE /\ stop' = FALSE /\ late' = 0 /\ UNCHANGED opt
  BY DEF Begins
<1>5. QED
  BY <1>1, <1>2, <1>3, <1>4 DEF TypeOK, TurnOK

\* With a plan that knows of its changes the run knows of them too.
LEMMA BeginsKeeps ==
  ASSUME IInv, pc = "off", opt.plan, NEW plan, NEW resumed \in BOOLEAN,
         Begins(plan, resumed), starts < MaxStarts, Fits(plan), plan.status = "running",
         SameWork, untested' \subseteq untested, readback' \subseteq readback,
         unchecked' \subseteq unchecked, committed' \subseteq committed
  PROVE  IInv'
<1>1. plan \in Plan /\ plan.id \in PlanId /\ Save(plan, "turn")
  BY PlanFields DEF Fits, Begins
<1>2. /\ opt' \in Options /\ TurnOK' /\ starts' \in 0..MaxStarts
      /\ mutation_seen' = plan.mutated
      /\ verification_seen' = (plan.mutated /\ plan.verified)
      /\ mutation_seen' \in BOOLEAN /\ verification_seen' \in BOOLEAN
      /\ test_verification_seen' = FALSE /\ stop' = FALSE /\ late' = 0
      /\ UNCHANGED opt
  BY <1>1, BeginsTypes, PlanFields DEF IInv
<1>3. /\ pc' \in {"turn", "dead"} /\ id' = plan.id /\ lost \subseteq lost'
      /\ plans' = [plans EXCEPT ![plan.id] = plan]
  BY <1>1, SaveCases DEF Forgets
<1>4. TypeOK'
  <2>1. /\ id' \in 0..MaxPlans
        /\ plans' \in [PlanId -> Plan \cup {NoPlan}] /\ current' \in Plan \cup {NoPlan}
        /\ crashes' \in 0..MaxCrashes /\ lost' \subseteq PlanId
    BY <1>1, SaveTypes DEF IInv
  <2>2. QED
    BY <1>2, <1>3, <2>1 DEF IInv, TypeOK, TurnOK
<1>5. StoreInv'
  BY <1>1, <1>2, SaveKeepsStore DEF IInv
<1>6. RunInv'
  <2>1. plans'[plan.id] = plan /\ plan # NoPlan
    BY <1>1, <1>3, NoPlanIsNone DEF IInv, TypeOK
  <2>2. QED
    BY <1>1, <1>2, <1>3, <2>1 DEF RunInv, PlanTellsTheEnd
<1>7. FlagInv'
  BY <1>1, <1>2, <1>3 DEF FlagInv, Fits, Knows, SameWork, Unrecorded
<1>8. EndInv' /\ CallInv'
  BY <1>2, <1>3 DEF EndInv, CallInv
<1>9. QED
  BY <1>4, <1>5, <1>6, <1>7, <1>8 DEF IInv

LEMMA ResumeKeeps == ASSUME IInv, NEW plan \in Stored, Resume(plan) PROVE IInv'
<1>1. /\ pc = "off" /\ starts < MaxStarts /\ opt.plan /\ Resumable(plan)
      /\ Begins(Resumed(plan), TRUE) /\ UNCHANGED world
  BY DEF Resume
<1>2. plan \in Plan /\ plan.id \in PlanId /\ plan.status # "completed"
  <2>1. plan # NoPlan /\ plan.status # "completed"
    BY <1>1, NoPlanIsNone DEF Resumable
  <2>2. QED
    BY <2>1, PlanFields DEF Stored, IInv, StoreInv
<1>3. /\ Resumed(plan) \in Plan /\ Resumed(plan).id = plan.id
      /\ Resumed(plan).status = "running"
      /\ Resumed(plan).mutated = plan.mutated /\ Resumed(plan).verified = plan.verified
  BY <1>2, WithStatus DEF Resumed
<1>4. ~Unrecorded(plan.id)
  BY <1>1 DEF Unrecorded
<1>5. plan = current \/ plan = plans[plan.id]
  BY <1>2, NoPlanIsNone DEF Stored, IInv, StoreInv
<1>6. Knows(plan, plan.id)
  BY <1>2, <1>4, <1>5, NoPlanIsNone DEF IInv, StoreInv
<1>7. current # NoPlan /\ current.id = plan.id =>
        (current.mutated => plan.mutated) /\ current.status # "completed"
  BY <1>2, <1>5 DEF IInv, StoreInv, CurrentIsBehind
<1>8. Fits(Resumed(plan))
  BY <1>3, <1>6, <1>7 DEF Fits, Knows
<1>9. QED
  BY <1>1, <1>3, <1>8, BeginsKeeps DEF world, SameWork, Waiting

LEMMA StartNewKeeps == ASSUME IInv, StartNew PROVE IInv'
<1>1. PICK p \in PlanId :
        /\ plans[p] = NoPlan
        /\ Begins([id |-> p, status |-> "running", mutated |-> FALSE, verified |-> FALSE], FALSE)
  BY DEF StartNew
<1> DEFINE plan == [id |-> p, status |-> "running", mutated |-> FALSE, verified |-> FALSE]
<1>2. /\ plan \in Plan /\ plan.id = p /\ plan.status = "running"
      /\ plan.mutated = FALSE /\ plan.verified = FALSE
  BY DEF Plan
<1>3. Begins(plan, FALSE)
  BY <1>1
<1> HIDE DEF plan
<1>4. /\ pc = "off" /\ starts < MaxStarts
      /\ unchecked' = unchecked \ {0} /\ readback' = readback \ {0}
      /\ untested' = untested \ {0} /\ committed' = committed \ {0}
  BY DEF StartNew
<1>5. SameWork
  BY <1>4, NoPlanIsNone DEF SameWork, Waiting
<1>6. CASE opt.plan
  <2>1. Knows(plan, p)
    BY <1>1 DEF IInv, StoreInv, Knows
  <2>2. current # NoPlan => current.id # p
    BY <1>1 DEF IInv, StoreInv, CurrentIsBehind
  <2>3. Fits(plan)
    BY <1>2, <2>1, <2>2 DEF Fits
  <2>4. QED
    BY <1>2, <1>3, <1>4, <1>5, <1>6, <2>3, BeginsKeeps
<1>7. CASE ~opt.plan
  <2>1. pc' = "turn" /\ UNCHANGED stored
    BY <1>3, <1>7 DEF Begins, Save, Goto
  <2>2. /\ opt' \in Options /\ TurnOK' /\ starts' \in 0..MaxStarts
        /\ mutation_seen' \in BOOLEAN /\ verification_seen' \in BOOLEAN
        /\ test_verification_seen' = FALSE /\ stop' = FALSE /\ late' = 0
        /\ UNCHANGED opt
    BY <1>2, <1>3, <1>4, BeginsTypes DEF IInv
  <2>3. TypeOK'
    BY <1>4, <2>1, <2>2 DEF IInv, TypeOK, TurnOK, stored
  <2>4. RunInv' /\ StoreInv'
    BY <1>4, <1>7, <2>1, <2>2, NoPlanIsNone
    DEF IInv, RunInv, StoreInv, PlanTellsTheEnd, CurrentIsBehind, stored, Waiting
  <2>5. id' = 0
    BY <1>7, <2>1 DEF IInv, RunInv, stored
  <2>6. FlagInv' /\ EndInv' /\ CallInv'
    BY <1>4, <2>1, <2>2, <2>5 DEF FlagInv, EndInv, CallInv, Unrecorded, Waiting
  <2>7. QED
    BY <2>3, <2>4, <2>6 DEF IInv
<1>8. QED
  BY <1>6, <1>7, OptionTypes DEF IInv

--------------------------------------------------------------------------------
LEMMA InitInv == Init => IInv
<1> SUFFICES ASSUME Init PROVE IInv
  OBVIOUS
<1>1. TypeOK
  <2>1. NoReply \in Reply /\ <<>> \in Seq(Calls)
    BY DEF NoReply, Reply
  <2>2. 0 \in 0..(Limit + Grace) /\ 0 \in 0..MaxPlans /\ 0 \in 0..MaxCrashes /\ 0 \in 0..MaxStarts
    BY AgentAssumption DEF Grace
  <2>3. plans \in [PlanId -> Plan \cup {NoPlan}]
    BY DEF Init
  <2>4. QED
    BY <2>1, <2>2, <2>3 DEF Init, TypeOK
<1>2. StoreInv /\ RunInv
  BY NoPlanIsNone DEF Init, StoreInv, RunInv, CurrentIsBehind, PlanTellsTheEnd, Active, Waiting
<1>3. FlagInv /\ EndInv /\ CallInv
  BY DEF Init, FlagInv, EndInv, CallInv, Active
<1>4. QED
  BY <1>1, <1>2, <1>3 DEF IInv

LEMMA RunStepKeeps == ASSUME IInv, RunStep PROVE IInv'
<1>1. CASE StopAtTurn
  BY <1>1, PausesKeeps DEF StopAtTurn, Active
<1>2. CASE Exhausted
  BY <1>2, PausesKeeps DEF Exhausted, Active
<1>3. CASE AskStopped
  BY <1>3, PausesKeeps DEF AskStopped, Active
<1>4. CASE StopAtCall
  BY <1>4, PausesKeeps DEF StopAtCall, Calling, Active
<1>5. CASE Rejected
  BY <1>5, PausesKeeps DEF Rejected, AtCall, Active
<1>6. CASE Stalls
  BY <1>6, PausesKeeps DEF Stalls, Active
<1>7. CASE CommitFails
  BY <1>7, PausesKeeps DEF CommitFails, Active
<1>8. QED
  BY <1>1, <1>2, <1>3, <1>4, <1>5, <1>6, <1>7, YieldKeeps, AskKeeps, FinalKeeps, RepeatsKeeps,
     TakeCallsKeeps, NextCallKeeps, CompleteKeeps, RefusedKeeps, ExecuteKeeps, RecordKeeps,
     BatchDoneKeeps, DoneKeeps, CommitKeeps, CompletePlanKeeps, ReturnKeeps
  DEF RunStep

LEMMA NextKeeps == ASSUME IInv, [Next]_vars PROVE IInv'
<1>1. CASE AskFails
  BY <1>1, PausesKeeps DEF AskFails, Active
<1>2. CASE UNCHANGED vars
  <2>1. UNCHANGED <<opt, control, flags, stop, stored, starts, world, late>>
    BY <1>2 DEF vars
  <2>2. TypeOK' /\ StoreInv'
    BY <2>1 DEF IInv, TypeOK, StoreInv, Unrecorded, Changed, Call, Knows, Proven,
                CurrentIsBehind, control, flags, stored, world, Waiting
  <2>3. RunInv' /\ FlagInv' /\ EndInv' /\ CallInv'
    BY <2>1 DEF IInv, RunInv, PlanTellsTheEnd, FlagInv, EndInv, CallInv, Unrecorded, Changed,
                Cleared, Call, Proven, control, flags, stored, world, Waiting
  <2>4. QED
    BY <2>2, <2>3 DEF IInv
<1>3. QED
  BY <1>1, <1>2, ResumeKeeps, StartNewKeeps, RunStepKeeps, AnswersKeeps, UserStopsKeeps, CrashKeeps
  DEF Next

LEMMA SpecInv == Spec => []IInv
BY InitInv, NextKeeps, PTL DEF Spec

(* What a run reports complete, in its result or its plan, is handed over, tested since   *)
(* its last change where that is asked, and checked since its last change to code, or its *)
(* last change is a document that was read back: whatever the model answers, however      *)
(* often the run was stopped, crashed and was resumed from whichever file                 *)
(* (_guard_completion(), _record_tool_progress(), _prepare_plan() of agent_runtime.py).   *)
THEOREM CompletionIsSound == Spec => []CompletedIsSound
<1>1. IInv => CompletedIsSound
  <2> SUFFICES ASSUME IInv, NEW p \in Completed
               PROVE  p \in committed /\ Proven(p)
    BY DEF CompletedIsSound, CompletedIsVerified, CompletedIsCommitted, Proven, Waiting
  <2>1. CASE p \in PlanId /\ plans[p].status = "completed"
    BY <2>1 DEF IInv, StoreInv
  <2>2. CASE p = id /\ pc = "over" /\ end = "completed"
    BY <2>2 DEF IInv, EndInv
  <2>3. QED
    BY <2>1, <2>2 DEF Completed
<1>2. QED
  BY <1>1, SpecInv, PTL

(* The plan a run leaves tells how it ended, in both files.                               *)
THEOREM EndIsTold == Spec => []PlanTellsTheEnd
<1>1. IInv => PlanTellsTheEnd
  BY DEF IInv, RunInv
<1>2. QED
  BY <1>1, SpecInv, PTL

(* At most the call at hand begins after the user's stop, however long the batch is.      *)
THEOREM StopsAreSeen == Spec => []StopIsPrompt
<1>1. IInv => StopIsPrompt
  BY DEF IInv, CallInv, StopIsPrompt
<1>2. QED
  BY <1>1, SpecInv, PTL

(* Wherever PlanStore.save() is cut off, current.json is not ahead of the plan it names.  *)
THEOREM CurrentStaysBehind == Spec => []CurrentIsBehind
<1>1. IInv => CurrentIsBehind
  BY DEF IInv, StoreInv
<1>2. QED
  BY <1>1, SpecInv, PTL

\* Every variable holds what it may.
THEOREM TypesHold == Spec => []TypeOK
<1>1. IInv => TypeOK
  BY DEF IInv
<1>2. QED
  BY <1>1, SpecInv, PTL
================================================================================
