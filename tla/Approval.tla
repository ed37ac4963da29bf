-------------------------------- MODULE Approval --------------------------------
(***************************************************************************)
(* May this call run?  run_tool() of aicoder/executor.py asks, in this     *)
(* order, the list of tools, the task's contract, the bounds of the        *)
(* workspace, the risk of the call (aicoder/privileges.py), and the        *)
(* surface the run belongs to: the desktop, the terminal, nobody           *)
(* (headless), or the policy of a stage of a team.                         *)
(*                                                                         *)
(* On the desktop (aicoder/gui/chat_widget.py) the agent's thread waits    *)
(* while the window's thread asks the user.  The answer is handed over in  *)
(* an event and a result that belong to the run, not to the request.       *)
(*                                                                         *)
(* A call is the set of what matters about it.                             *)
(***************************************************************************)
EXTENDS Naturals, Sequences, FiniteSets

CONSTANTS
  Calls,       \* of every surface, the calls a model makes on it
  MaxApprovals, \* bound: calls that reach the risk assessment
  MaxRuns      \* bound: runs of the desktop, one after the other

Facets == {"unlisted", "write", "delete", "elevate", "secure", "escape", "source",
           "web", "backend", "check", "subagent", "acceptance"}
StageSurfaces == {"research", "brainstorm", "planning", "candidate", "repair"}
Modes == {"ask", "all"}
Terms == {"noweb", "noresearchweb", "nobackend"}
Surfaces == DOMAIN Calls
Requests == 1..MaxApprovals

ASSUME ApprovalAssumption ==
  /\ Surfaces \subseteq StageSurfaces \cup {"gui", "cli", "headless", "unattended"}
  /\ \A s \in Surfaces : Calls[s] \subseteq SUBSET Facets
  /\ MaxApprovals \in Nat /\ MaxRuns \in Nat \ {0}
  \* A deletion is a change; the source is outside of a transactional workspace.
  /\ \A c \in UNION {Calls[s] : s \in Surfaces} :
       ("delete" \in c => "write" \in c) /\ ("source" \in c => "escape" \in c)

VARIABLES
  surface, contract, \* of the run
  mode,      \* the setting approval_mode
  run,       \* the number of the run
  agent,     \* its thread: what it does, and for which request
  stopped,   \* _stopped
  box,       \* of every run: _approval_event, _approval_result
  queue,     \* approval_needed: emitted, not delivered
  dialogs,   \* open dialogs, the one on top first
  window,    \* the window's thread: an answer half handed over
  \* History: of every request its call and run; what the user said to it; the requests not
  \* waited for until their answer came; of every call that ran, the request whose answer let
  \* it.
  made, said, givenUp, ran

approvalVars == <<surface, contract, mode, run, agent, stopped, box, queue, dialogs, window,
                  made, said, givenUp, ran>>
hidden == <<surface, contract, mode, run, stopped>>
desktop == <<box, queue, dialogs, window>>

AgentRests == [pc |-> "idle", req |-> 0, child |-> FALSE]
EmptyBox == [set |-> FALSE, yes |-> FALSE, by |-> 0]
NoAnswer == [req |-> 0, yes |-> FALSE, put |-> FALSE]

ApprovalInit ==
  /\ surface \in Surfaces /\ contract \in SUBSET Terms /\ mode \in Modes
  /\ surface \notin StageSurfaces => contract = {}
  /\ run = 1 /\ agent = AgentRests /\ stopped = FALSE
  /\ box = [n \in 1..MaxRuns |-> EmptyBox]
  /\ queue = <<>> /\ dialogs = <<>> /\ window = NoAnswer
  /\ made = <<>> /\ said = [r \in Requests |-> "nothing"] /\ givenUp = {}
  /\ ran = [r \in {} |-> 0]

--------------------------------------------------------------------------------
\* assess_execution()
NeedsApproval(c) == c \cap {"write", "delete", "elevate", "secure"} # {}
Grave(c) == c \cap {"delete", "elevate", "secure", "escape"} # {}

\* Mutant: a persisted mode may approve a call that leaves the workspace.
Automatic_Outside(c, m) ==
  \/ ~NeedsApproval(c) /\ "escape" \notin c
  \/ m = "all" /\ "write" \in c /\ c \cap {"delete", "elevate", "secure"} = {}

\* PrivilegeBroker.evaluate() with approval_is_automatic(); "autopilot" is "all".
Automatic(c, m) ==
  \/ ~NeedsApproval(c) /\ "escape" \notin c
  \/ m = "all" /\ "write" \in c /\ ~Grave(c)

\* TaskContract.tool_denial(), and the exception research has.
Denied(c) ==
  \/ /\ "noweb" \in contract /\ "web" \in c
     /\ ~(surface = "research" /\ "noresearchweb" \notin contract)
  \/ "nobackend" \in contract /\ "backend" \in c

\* _observational_diagnostic_allowed(): what looks like a change and only checks.
Harmless(c) == ~Grave(c) /\ ("write" \in c => "check" \in c)

\* The policies of the stages; the final repair may read what the task's own acceptance
\* commands run, wherever it is.
ResearchAllows(c) == Harmless(c) /\ ("web" \in c => "noresearchweb" \notin contract)
PlanningAllows(c) == Harmless(c) /\ "subagent" \notin c
BrainstormAllows(c) == PlanningAllows(c) /\ "web" \notin c
CandidateAllows(c) == ~Grave(c) /\ "web" \notin c
RepairAllows(c) == c = {"escape", "acceptance"} \/ CandidateAllows(c)

StageAllows(c) ==
  CASE surface = "research" -> ResearchAllows(c)
    [] surface = "brainstorm" -> BrainstormAllows(c)
    [] surface = "planning" -> PlanningAllows(c)
    [] surface = "repair" -> RepairAllows(c)
    [] OTHER -> CandidateAllows(c)

\* A stage's policy is asked for every tool, but that of planning.
Asks(c) ==
  NeedsApproval(c) \/ "escape" \in c \/ surface \in StageSurfaces \ {"planning"}

--------------------------------------------------------------------------------
Latest == Len(made)

\* The call runs, on the answer to request `by`, or on none (0).
Runs(r, by) == ran' = [x \in DOMAIN ran \cup {r} |-> IF x = r THEN by ELSE ran[x]]

\* "Aborted by user" pauses the run; that of a sub-agent only the sub-agent.
Rejected == agent' = IF agent.child THEN AgentRests ELSE [AgentRests EXCEPT !.pc = "over"]
GoesOn == agent' = [agent EXCEPT !.pc = "idle", !.req = 0]

\* run_subagent(): its calls are asked for like those of the agent, but it is not told that
\* the user has stopped the run.
Delegate ==
  /\ surface \in {"gui", "cli", "headless"} /\ agent = AgentRests /\ ~stopped
  /\ agent' = [agent EXCEPT !.child = TRUE]
  /\ UNCHANGED <<hidden, desktop, made, said, givenUp, ran>>

Delegated ==
  /\ agent.pc = "idle" /\ agent.child /\ agent' = AgentRests
  /\ UNCHANGED <<hidden, desktop, made, said, givenUp, ran>>

\* The agent, or its sub-agent, calls a tool.
Request(c) ==
  /\ agent.pc = "idle" /\ (agent.child \/ ~stopped) /\ Latest < MaxApprovals
  /\ made' = Append(made, [call |-> c, run |-> run])
  /\ UNCHANGED hidden

\* Not listed, denied by the contract, or aimed at the source of a transactional run; or it
\* needs an approval and there is nobody to give it.
Blocked(c) ==
  /\ Request(c)
  /\ \/ "unlisted" \in c \/ Denied(c) \/ "source" \in c
     \/ surface = "unattended" /\ Asks(c)
  /\ UNCHANGED <<agent, desktop, said, givenUp, ran>>

Passes(c) == "unlisted" \notin c /\ ~Denied(c) /\ "source" \notin c

Unasked(c) ==
  /\ Request(c) /\ Passes(c) /\ ~Asks(c)
  /\ Runs(Latest + 1, 0)
  /\ UNCHANGED <<agent, desktop, said, givenUp>>

\* _headless_approval(), and the policies of the stages.
AskPolicy(c) ==
  /\ Request(c) /\ Passes(c) /\ Asks(c) /\ surface \in StageSurfaces \cup {"headless"}
  /\ IF (IF surface = "headless" THEN Automatic(c, mode) ELSE StageAllows(c))
     THEN Runs(Latest + 1, 0) /\ UNCHANGED agent
     ELSE UNCHANGED ran /\ (IF surface = "headless" THEN Rejected ELSE UNCHANGED agent)
  /\ UNCHANGED <<desktop, said, givenUp>>

\* _cli_approval(): asks and waits; elevation needs a password too.
AskTerminal(c) ==
  /\ Request(c) /\ Passes(c) /\ Asks(c) /\ surface = "cli"
  /\ \E yes, password \in BOOLEAN :
       /\ said' = IF Automatic(c, mode) THEN said
                  ELSE [said EXCEPT ![Latest + 1] = IF yes THEN "yes" ELSE "no"]
       /\ IF (Automatic(c, mode) \/ yes) /\ ("elevate" \in c => password)
          THEN Runs(Latest + 1, Latest + 1) /\ UNCHANGED agent
          ELSE UNCHANGED ran /\ Rejected
  /\ UNCHANGED <<desktop, givenUp>>

--------------------------------------------------------------------------------
\* _gui_approval(): the event is cleared ...
AskWindow(c) ==
  /\ Request(c) /\ Passes(c) /\ Asks(c) /\ surface = "gui"
  /\ agent' = [agent EXCEPT !.pc = "cleared", !.req = Latest + 1]
  /\ box' = [box EXCEPT ![run].set = FALSE]
  /\ UNCHANGED <<queue, dialogs, window, said, givenUp, ran>>

\* Mutant: the result of the last request is kept.
Emit_Keeps ==
  /\ agent.pc = "cleared"
  /\ agent' = [agent EXCEPT !.pc = "waiting"]
  /\ queue' = Append(queue, agent.req)
  /\ UNCHANGED <<hidden, box, dialogs, window, made, said, givenUp, ran>>

\* ... the result reset, and the window told.
Emit ==
  /\ agent.pc = "cleared"
  /\ agent' = [agent EXCEPT !.pc = "waiting"]
  /\ box' = [box EXCEPT ![run].yes = FALSE, ![run].by = 0]
  /\ queue' = Append(queue, agent.req)
  /\ UNCHANGED <<hidden, dialogs, window, made, said, givenUp, ran>>

Return(yes) ==
  IF yes THEN Runs(agent.req, box[run].by) /\ GoesOn ELSE UNCHANGED ran /\ Rejected

\* The event is set: the result holds.
Wake ==
  /\ agent.pc = "waiting" /\ box[run].set
  /\ Return(box[run].yes)
  /\ givenUp' = IF box[run].by = agent.req THEN givenUp ELSE givenUp \cup {agent.req}
  /\ UNCHANGED <<hidden, desktop, made, said>>

\* After two minutes, or within two seconds of a stop, it waits no longer.
GiveUp ==
  /\ agent.pc = "waiting" /\ ~box[run].set
  /\ \E waited \in BOOLEAN : (waited \/ stopped) /\ Return(waited /\ box[run].yes)
  /\ givenUp' = givenUp \cup {agent.req}
  /\ UNCHANGED <<hidden, desktop, made, said>>

\* The window's thread takes a request: it answers it, or opens a dialog.  An open dialog
\* does not keep it from that.
Deliver ==
  /\ queue # <<>> /\ window = NoAnswer
  /\ queue' = Tail(queue)
  /\ IF Automatic(made[Head(queue)].call, mode)
     THEN window' = [req |-> Head(queue), yes |-> TRUE, put |-> FALSE] /\ UNCHANGED dialogs
     ELSE dialogs' = <<Head(queue)>> \o dialogs /\ UNCHANGED window
  /\ UNCHANGED <<hidden, agent, box, made, said, givenUp, ran>>

\* The user answers the dialog on top; elevation also needs a program for it.
UserAnswers ==
  /\ dialogs # <<>> /\ window = NoAnswer
  /\ dialogs' = Tail(dialogs)
  /\ \E yes, available \in BOOLEAN :
       /\ said' = [said EXCEPT ![Head(dialogs)] = IF yes THEN "yes" ELSE "no"]
       /\ window' = [req |-> Head(dialogs), put |-> FALSE,
                     yes |-> yes /\ ("elevate" \in made[Head(dialogs)].call => available)]
  /\ UNCHANGED <<hidden, agent, box, queue, made, givenUp, ran>>

\* set_approval() of the run that asked: the result ...
SetResult ==
  /\ window.req # 0 /\ ~window.put
  /\ window' = [window EXCEPT !.put = TRUE]
  /\ box' = [box EXCEPT ![made[window.req].run].yes = window.yes,
                        ![made[window.req].run].by = window.req]
  /\ UNCHANGED <<hidden, agent, queue, dialogs, made, said, givenUp, ran>>

\* ... and the event.
SetEvent ==
  /\ window.put
  /\ window' = NoAnswer
  /\ box' = [box EXCEPT ![made[window.req].run].set = TRUE]
  /\ UNCHANGED <<hidden, agent, queue, dialogs, made, said, givenUp, ran>>

--------------------------------------------------------------------------------
\* The dialogs are modal: no button of the window can be pressed while one is open.
UserStops ==
  /\ surface = "gui" /\ dialogs = <<>> /\ ~stopped /\ agent.pc # "over"
  /\ stopped' = TRUE
  /\ UNCHANGED <<surface, contract, mode, run, agent, desktop, made, said, givenUp, ran>>

\* Another window, or the terminal, changes the mode.
ModeChanges ==
  /\ mode' \in Modes \ {mode}
  /\ UNCHANGED <<surface, contract, run, agent, stopped, desktop, made, said, givenUp, ran>>

RunFinishes ==
  /\ agent = AgentRests
  /\ agent' = [AgentRests EXCEPT !.pc = "over"]
  /\ UNCHANGED <<hidden, desktop, made, said, givenUp, ran>>

\* _send(): refused while a run is under way.  By voice also while a dialog is open.
SendMessage ==
  /\ surface = "gui" /\ agent.pc = "over" /\ run < MaxRuns
  /\ run' = run + 1 /\ agent' = AgentRests /\ stopped' = FALSE
  /\ UNCHANGED <<surface, contract, mode, desktop, made, said, givenUp, ran>>

ApprovalNext ==
  \/ Delegate \/ Delegated
  \/ \E c \in Calls[surface] :
       Blocked(c) \/ Unasked(c) \/ AskPolicy(c) \/ AskTerminal(c) \/ AskWindow(c)
  \/ Emit \/ Wake \/ GiveUp
  \/ Deliver \/ UserAnswers \/ SetResult \/ SetEvent
  \/ UserStops \/ ModeChanges \/ RunFinishes \/ SendMessage

ApprovalSpec == ApprovalInit /\ [][ApprovalNext]_approvalVars

--------------------------------------------------------------------------------
ApprovalTypeOK ==
  /\ agent.pc \in {"idle", "cleared", "waiting", "over"} /\ agent.req \in 0..MaxApprovals
  /\ \A n \in 1..MaxRuns : box[n].by \in 0..MaxApprovals
  /\ Len(dialogs) + Len(queue) <= Latest
  /\ DOMAIN ran \subseteq 1..Latest /\ run \in 1..MaxRuns

\* A call runs on the answer to its own request: an answer, a yes above all, is not used
\* again for the next one.  But for an answer that comes after its request was given up.
AnswersFit ==
  \A r \in DOMAIN ran : ran[r] \notin {0, r} =>
    ran[r] \in givenUp /\ made[ran[r]].run = made[r].run

\* Whatever the mode and the surface, a call that deletes, elevates, touches a security
\* setting or leaves the workspace has been asked for, and the user said yes (but for the
\* final repair reading an acceptance test); and what a contract forbids is done on no
\* surface.
GraveIsConfirmed ==
  \A r \in DOMAIN ran :
    /\ Grave(made[r].call) /\ ran[r] \in {0, r} =>
         said[r] = "yes" \/ (surface = "repair" /\ made[r].call = {"escape", "acceptance"})
    /\ ~Denied(made[r].call)
=================================================================================
