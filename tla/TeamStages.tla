-------------------------------- MODULE TeamStages --------------------------------
(***************************************************************************)
(* The stages of a team run before the coding (_run_team_pipeline of       *)
(* aicoder/team_orchestrator.py): research planning, research, brainstorm  *)
(* and code planning.  Each is work of models, every one in a throw-away   *)
(* copy of the workspace, and ends with a coordinator that works its       *)
(* output into the StageOff, the one thing later stages read.              *)
(*                                                                         *)
(* A model's report is sound, lacks sections of its contract ("partial"),  *)
(* recommends what the user has forbidden ("forbidden"), or says what is   *)
(* not so ("false"): that work was done which was not, or that a source    *)
(* was read which was not.  One with several faults goes the way of one of *)
(* them.  Requests fail for a while, or for good.                          *)
(***************************************************************************)
EXTENDS Naturals, Sequences, FiniteSets

CONSTANTS
  Researchers, Thinkers, \* the models of the research and of the brainstorm
  Lead,        \* the model call of the main thread: planners, operator, coordinator
  Rounds,      \* team_brainstorm_rounds
  RunSettings,    \* [coordinator, external, web]: is there a coordinator, does the task need the
                  \* web, may the researchers use it
  MaxStageResumes   \* bound: resumes of a worker after a provider failure; the code has none

Workers == Researchers \cup Thinkers \cup {Lead}
Order == <<"plan_research", "research", "brainstorm", "plan_code">>

ASSUME StagesAssumption ==
  /\ Lead \notin Researchers \cup Thinkers /\ Researchers \cap Thinkers = {}
  /\ Rounds \in 1..5 /\ MaxStageResumes \in Nat
  /\ RunSettings \subseteq [coordinator : BOOLEAN, external : BOOLEAN, web : BOOLEAN]
  /\ \A s \in RunSettings : s.external => s.web

VARIABLES
  runSetting, \* the team's and the task's settings
  planning, \* [stage, step, round, found]: where the main thread is, and what the model that
            \* finished the stage has said
  worker,   \* what every model call is doing
  stageoff, \* "stages" of the StageOff: output and review of every stage
  memory,   \* the stage "working_memory" is from
  sourceHas, \* what there is in the source workspace
  halted,   \* stop_requested()
  copies    \* throw-away workspaces that exist

stagesVars == <<runSetting, planning, worker, stageoff, memory, sourceHas, halted, copies>>

\* "prose" is a readme, a licence and the like, or directories without files.
Contained == {"nothing", "prose", "project"}

NoWork == [pc |-> "idle", job |-> "none", repairs |-> 0, resumes |-> 0, early |-> TRUE,
           bare |-> FALSE, report |-> "none"]
\* What a model says; "filled" and "fixed" are ours.
Reports == {"sound", "partial", "forbidden", "false"}
\* What is told apart of a model's work.
ReportsOf(job) == CASE job = "research" -> Reports
                    [] job = "plan_research" -> Reports \ {"forbidden"}
                    [] OTHER -> {"sound", "partial"}

StagesInit ==
  /\ runSetting \in RunSettings
  /\ planning = [stage |-> 1, step |-> "start", round |-> 1, found |-> "none"]
  /\ worker = [w \in Workers |-> NoWork] /\ stageoff = <<>> /\ memory = 0
  /\ sourceHas \in Contained /\ halted = FALSE /\ copies = {}

--------------------------------------------------------------------------------
Step(s) == planning' = [planning EXCEPT !.step = s]
Stage(k) == planning' = [planning EXCEPT !.stage = k, !.step = "start"]
Fail == planning' = [planning EXCEPT !.step = "failed"]
AtStep(k, s) == planning.stage = k /\ planning.step = s
environment == <<runSetting, sourceHas, halted>>
handed == <<stageoff, memory>>

\* _call_stage_agent() and _run_researcher(): a copy of the workspace, and the first run.
Begun(job) == [NoWork EXCEPT !.pc = "runs", !.job = job, !.early = ~halted,
                              !.bare = sourceHas = "nothing"]
Fixed(job) == [NoWork EXCEPT !.pc = "done", !.job = job, !.bare = TRUE, !.report = "fixed"]
Starts(job) == worker' = [worker EXCEPT ![Lead] = Begun(job)] /\ copies' = copies \cup {Lead}

\* No model is asked about a workspace without project files when the task needs no research.
SelfContained == sourceHas # "project" /\ ~runSetting.external

\* What is wrong with a report: the research planner is checked against its copy of the
\* workspace, if there is nothing in it; the researchers against what the user forbids, and
\* against the sources they read, if they may not use the web.
Untrue(w, report) ==
  \/ worker[w].job = "plan_research" /\ worker[w].bare /\ report = "false"
  \/ /\ worker[w].job = "research"
     /\ report = "forbidden" \/ (report = "false" /\ ~runSetting.web)
Issues(w, report) == report = "partial" \/ Untrue(w, report)
MaxRepairs(w) == IF worker[w].job = "research" THEN 4 ELSE 2

\* Mutant: sections that are missing are filled in, and the rest is taken as it is.
Normalized_Keeps(w, report) == IF Untrue(w, report) THEN report ELSE "filled"

\* _deterministic_contract_fallback(), from nothing when the report was untrue; a research
\* report loses the lines that are, or is replaced.
Normalized(w, report) == "filled"

Done(w, report) ==
  /\ worker' = [worker EXCEPT ![w].pc = "done", ![w].report = report]
  /\ copies' = copies \ {w}

\* The run ends with a report: it is taken, asked for again, or after the last repair
\* normalized.  A run that begins after the stop was requested reports nothing.
Completes(w, report) ==
  /\ worker[w].pc = "runs" /\ worker[w].early
  /\ IF ~Issues(w, report) THEN Done(w, report)
     ELSE IF worker[w].repairs < MaxRepairs(w)
     THEN /\ worker' = [worker EXCEPT ![w].repairs = @ + 1, ![w].early = ~halted]
          /\ UNCHANGED copies
     ELSE Done(w, Normalized(w, report))
  /\ UNCHANGED <<planning, handed, environment>>

\* It is stopped, or fails for good; an exception ends the thread the same way.
RunFails(w) ==
  /\ worker[w].pc = "runs" /\ Done(w, "none")
  /\ UNCHANGED <<planning, handed, environment>>

\* The provider fails for a while: the run is resumed from what it had, unless the user has
\* stopped, now or while it waits.
RunPauses(w) ==
  /\ worker[w].pc = "runs" /\ worker[w].resumes < MaxStageResumes
  /\ IF halted THEN Done(w, "none")
     ELSE /\ worker' = [worker EXCEPT ![w].pc = "waits", ![w].resumes = @ + 1]
          /\ UNCHANGED copies
  /\ UNCHANGED <<planning, handed, environment>>

Resumes(w) ==
  /\ worker[w].pc = "waits"
  /\ IF halted THEN Done(w, "none")
     ELSE /\ worker' = [worker EXCEPT ![w].pc = "runs", ![w].early = TRUE]
          /\ UNCHANGED copies
  /\ UNCHANGED <<planning, handed, environment>>

\* No copy can be made, or something nobody expected happens in the main thread: the run
\* fails, after the copy was discarded.
Crashes ==
  /\ worker[Lead].pc = "runs" /\ Done(Lead, "none") /\ Fail
  /\ UNCHANGED <<handed, environment>>

--------------------------------------------------------------------------------
LeadDone == worker[Lead].pc = "done"
Said(w) == worker[w].report
\* What a stage is known to have found, and if there was nothing in any copy it was found in.
Entry(k, output, review) == [stage |-> k, output |-> output, review |-> review,
                             bare |-> \A w \in Workers : worker[w].job # "none" => worker[w].bare]

Handed(k, output, review) == Append(stageoff, Entry(k, output, review))

\* The StageOff has the stage's output, whatever became of the coordinator; the working
\* memory changes only with a review.
HandOverStage(k, output, review) ==
  /\ stageoff' = Handed(k, output, review)
  /\ memory' = IF review \in {"reviewed", "fixed"} THEN k ELSE memory
  /\ worker' = [w \in Workers |-> NoWork]

\* 1) plan_research, by the coordinator or the planner; an empty workspace needs none.
PlanResearch ==
  /\ AtStep(1, "start") /\ Step("plan")
  /\ IF SelfContained
     THEN worker' = [worker EXCEPT ![Lead] = Fixed("plan_research")] /\ UNCHANGED copies
     ELSE Starts("plan_research")
  /\ UNCHANGED <<handed, environment>>

ResearchPlanned ==
  /\ AtStep(1, "plan") /\ LeadDone
  /\ IF Said(Lead) = "none" THEN Fail /\ UNCHANGED <<worker, handed>>
     ELSE /\ stageoff' = <<Entry(1, {Said(Lead)}, "reviewed")>> /\ memory' = 1
          /\ worker' = [w \in Workers |-> NoWork] /\ Stage(2)
  /\ UNCHANGED <<environment, copies>>

\* 2) research: every researcher in a thread, which looks at the workspace for itself.
Research ==
  /\ AtStep(2, "start") /\ Step("research")
  /\ UNCHANGED <<worker, handed, environment, copies>>

Researches(r) ==
  /\ AtStep(2, "research") /\ worker[r].pc = "idle"
  /\ IF SelfContained
     THEN worker' = [worker EXCEPT ![r] = Fixed("research")] /\ UNCHANGED copies
     ELSE worker' = [worker EXCEPT ![r] = Begun("research")] /\ copies' = copies \cup {r}
  /\ UNCHANGED <<planning, handed, environment>>

Researched == AtStep(2, "research") /\ \A r \in Researchers : worker[r].pc = "done"

\* _coordinate_stageoff(): no model is asked about research that no model has done.
Coordinate(k) ==
  /\ planning' = [planning EXCEPT !.step = "coordinate", !.found = Said(Lead)]
  /\ UNCHANGED handed
  /\ IF k = 2 /\ Researchers # {} /\ \A r \in Researchers : Said(r) = "fixed"
     THEN worker' = [worker EXCEPT ![Lead] = Fixed("coordinate")] /\ UNCHANGED copies
     ELSE IF runSetting.coordinator THEN Starts("coordinate")
     ELSE /\ worker' = [worker EXCEPT ![Lead] = [NoWork EXCEPT !.pc = "done", !.job = "disabled"]]
          /\ UNCHANGED copies

ResearchDone == Researched /\ Coordinate(2) /\ UNCHANGED environment

Review == CASE worker[Lead].job = "disabled" -> "disabled"
            [] Said(Lead) = "none" -> "failed"
            [] Said(Lead) = "fixed" -> "fixed"
            [] OTHER -> "reviewed"
Output(k) == IF k = 2 THEN {Said(r) : r \in Researchers} ELSE {planning.found}

Coordinated ==
  LET k == planning.stage
  IN /\ planning.step = "coordinate" /\ LeadDone
     /\ HandOverStage(k, Output(k), Review)
     /\ IF k = 4 THEN Step("code") ELSE Stage(k + 1)
     /\ UNCHANGED <<environment, copies>>

\* 3) brainstorm: in rounds, every thinker on the state the operator made of the last one.
Brainstorm ==
  /\ AtStep(3, "start")
  /\ IF Thinkers = {} THEN Coordinate(3) ELSE Step("think") /\ UNCHANGED <<worker, handed, copies>>
  /\ UNCHANGED environment

Thinks(t) ==
  /\ AtStep(3, "think") /\ worker[t].pc = "idle"
  /\ worker' = [worker EXCEPT ![t] = Begun("think")] /\ copies' = copies \cup {t}
  /\ UNCHANGED <<planning, handed, environment>>

\* A round nobody has said anything in is the last one.
RoundDone ==
  /\ AtStep(3, "think") /\ \A t \in Thinkers : worker[t].pc = "done"
  /\ IF \E t \in Thinkers : Said(t) # "none"
     THEN Step("operate") /\ Starts("operate")
     ELSE Step("synthesize") /\ Starts("synthesize")
  /\ UNCHANGED <<handed, environment>>

Operated ==
  /\ AtStep(3, "operate") /\ LeadDone
  /\ IF Said(Lead) # "none" /\ planning.round < Rounds
     THEN /\ planning' = [planning EXCEPT !.step = "think", !.round = @ + 1]
          /\ worker' = [w \in Workers |-> NoWork] /\ UNCHANGED copies
     ELSE Step("synthesize") /\ Starts("synthesize")
  /\ UNCHANGED <<handed, environment>>

\* The synthesis is tried once more after a pause for its length; the planner can do without.
Synthesized ==
  /\ AtStep(3, "synthesize") /\ LeadDone
  /\ \/ Said(Lead) = "none" /\ ~halted /\ worker[Lead].job = "synthesize"
        /\ Starts("synthesize again") /\ UNCHANGED <<planning, handed>>
     \/ Coordinate(3)
  /\ UNCHANGED environment

\* 4) plan_code: without a plan there is no coding.
PlanCode ==
  /\ AtStep(4, "start") /\ Step("plan") /\ Starts("plan_code")
  /\ UNCHANGED <<handed, environment>>

CodePlanned ==
  /\ AtStep(4, "plan") /\ LeadDone
  /\ IF Said(Lead) = "none" THEN Fail /\ UNCHANGED <<worker, handed, copies>> ELSE Coordinate(4)
  /\ UNCHANGED environment

\* The user stops, or adds to the workspace; bound: nobody empties it again.
Interferes ==
  /\ \/ ~halted /\ halted' = TRUE /\ UNCHANGED sourceHas
     \/ sourceHas = "nothing" /\ sourceHas' = "prose" /\ UNCHANGED halted
     \/ sourceHas # "project" /\ sourceHas' = "project" /\ UNCHANGED halted
  /\ UNCHANGED <<runSetting, planning, worker, handed, copies>>

StagesNext ==
  \/ \E w \in Workers : \/ \E report \in ReportsOf(worker[w].job) : Completes(w, report)
                        \/ RunFails(w) \/ RunPauses(w) \/ Resumes(w)
  \/ Crashes \/ PlanResearch \/ ResearchPlanned \/ Research \/ (\E r \in Researchers : Researches(r))
  \/ ResearchDone \/ Coordinated \/ Brainstorm \/ (\E t \in Thinkers : Thinks(t)) \/ RoundDone
  \/ Operated \/ Synthesized \/ PlanCode \/ CodePlanned \/ Interferes

StagesSpec == StagesInit /\ [][StagesNext]_stagesVars

--------------------------------------------------------------------------------
StagesTypeOK ==
  /\ planning.stage \in DOMAIN Order /\ planning.round \in 1..Rounds
  /\ memory \in 0..Len(Order) /\ copies \subseteq Workers
  /\ \A w \in Workers : worker[w].repairs <= 4 /\ (worker[w].pc \in {"runs", "waits"} <=> w \in copies)

Supported(entry, web) ==
  /\ entry.stage = 1 /\ "false" \in entry.output => ~entry.bare
  /\ entry.stage = 2 => /\ "forbidden" \notin entry.output
                        /\ "false" \in entry.output => web

\* What is checked is not believed.  No research report reaches the StageOff that recommends
\* what the user has forbidden, nor one with a source nobody read if the researchers may not
\* use the web; no research plan does that tells of work an empty copy shows was not done.
\* Sources of researchers who may use the web, and plans for a workspace that is not empty,
\* are not checked.
NothingInvented ==
  \A k \in DOMAIN stageoff : Supported(stageoff[k], runSetting.web)

\* Coding begins with the output of every stage in the StageOff, in their order and also of
\* those whose coordinator failed or was stopped, with a code plan, and with no model left
\* at work on a copy of the workspace.
CodingIsPrepared ==
  /\ \A k \in DOMAIN stageoff : stageoff[k].stage = k
  /\ planning.step = "code" => Len(stageoff) = Len(Order) /\ copies = {}

\* What coding begins with is complete and checked.
PlanningIsSound == NothingInvented /\ CodingIsPrepared
=================================================================================
