------------------------------- MODULE SharedNotify -------------------------------
(***************************************************************************)
(* The mailboxes of Shared Notify (aicoder/shared_notify.py).  The server   *)
(* keeps a message until it is acknowledged, and gives it to whoever asks   *)
(* for the mailbox: the background worker of the window, `aicoder notify    *)
(* serve` and `poll`, and every call of a shared MCP server, which polls    *)
(* while it waits for its answer.  All of them act for the same endpoints,  *)
(* and none of them knows of the others.                                    *)
(*                                                                         *)
(* The server, and the machine whose MCP server is called, are modelled     *)
(* from how this code uses them: they may do what is asked and lose the     *)
(* answer, and a request that is read twice is done twice.                  *)
(***************************************************************************)
EXTENDS Naturals, Sequences, FiniteSets

CONSTANTS
  Pollers, Processes, ProcessOf, \* threads that poll, and the process of each
  Windows,     \* the processes with a window: only it drains what came in
  MessageKinds,       \* the kinds of messages that are sent here
  QueueLimit,  \* of _received_messages
  MaxMessages, \* bound: messages sent here
  MaxRpcs,    \* bound: calls of a shared server
  MaxExits     \* bound: processes that end

ASSUME NotifyAssumption ==
  /\ ProcessOf \in [Pollers -> Processes] /\ Windows \subseteq Processes
  /\ MessageKinds \subseteq {"chat", "ai", "request"}
  /\ QueueLimit \in Nat \ {0} /\ MaxMessages \in Nat /\ MaxRpcs \in Nat /\ MaxExits \in Nat

VARIABLES
  mail,      \* every message ever sent to an endpoint of this machine
  mailbox,   \* those the server still keeps
  received,  \* _received_messages of every process; _received_ids are the ids in it
  responses, \* _rpc_responses of every process
  poller,    \* what every thread is doing
  calls, exits,
  \* History: what was shown, pushed out of a full queue or gone with its process; the
  \* requests that were run, those that were answered, and those whose sender was not in
  \* the directory when they were to be.
  shown, dropped, gone, runs, answered, unheard

notifyVars == <<mail, mailbox, received, responses, poller, calls, exits,
                shown, dropped, gone, runs, answered, unheard>>

Waiting == [pc |-> "idle", rows |-> {}, row |-> 0, call |-> 0]
Ids == DOMAIN mail
Kind(m) == mail[m].kind

\* The endpoints in the order of poll_once(): the client's own, the published models', the
\* published servers'.
Boxes == <<{"chat", "result"}, {"ai"}, {"request"}>>
Rows(k) == {m \in mailbox : Kind(m) \in Boxes[k]}
Elements(s) == {s[i] : i \in DOMAIN s}
PollerSteps == {"idle", "box1", "box2", "box3", "queued", "stored", "thinking", "acked", "running",
           "replying", "replied", "off"}

NotifyInit ==
  /\ mail = <<>> /\ mailbox = {} /\ calls = 0 /\ exits = 0
  /\ received = [p \in Processes |-> <<>>] /\ responses = [p \in Processes |-> {}]
  /\ poller = [t \in Pollers |-> Waiting]
  /\ shown = {} /\ dropped = {} /\ gone = {} /\ runs = {} /\ answered = {} /\ unheard = {}

--------------------------------------------------------------------------------
Goes(t, pc) == poller' = [poller EXCEPT ![t].pc = pc]
history == <<shown, dropped, gone, runs, answered, unheard>>
taken == <<received, responses>>

\* The box that is read, and the one after it; a call of a shared server leaves the
\* models' mail alone (dispatch_ai = False).
BoxOf(t) == CASE poller[t].pc = "box1" -> 1 [] poller[t].pc = "box2" -> 2 [] OTHER -> 3
BoxName == <<"box1", "box2", "box3">>
Skips(t) == poller[t].call # 0 /\ BoxOf(t) = 2

\* poll_once(): what is in the first mailbox is read.
Poll(t) ==
  /\ poller[t].pc = "idle"
  /\ poller' = [poller EXCEPT ![t].pc = "box1", ![t].rows = Rows(1)]
  /\ UNCHANGED <<mail, mailbox, taken, calls, exits, history>>

\* The rows of this mailbox are done, and the next one is read; or the server cannot be
\* asked, and the poll is over.
NextBox(t) ==
  /\ poller[t].pc \in {"box1", "box2", "box3"} /\ (poller[t].rows = {} \/ Skips(t))
  /\ LET k == BoxOf(t)
     IN \/ poller' = [poller EXCEPT ![t].pc = "idle", ![t].rows = {}]
        \/ k < 3 /\ poller' = [poller EXCEPT ![t].pc = BoxName[k + 1], ![t].rows = Rows(k + 1)]
  /\ UNCHANGED <<mail, mailbox, taken, calls, exits, history>>

Take(t, m, pc) == poller' = [poller EXCEPT ![t].pc = pc, ![t].rows = @ \ {m}, ![t].row = m]
Skip(t, m) == poller' = [poller EXCEPT ![t].rows = @ \ {m}]
FirstRow(t) == CHOOSE m \in poller[t].rows : \A x \in poller[t].rows : m <= x
AtRow(t, kind) ==
  poller[t].pc \in {"box1", "box2", "box3"} /\ poller[t].rows # {} /\ ~Skips(t)
    /\ Kind(FirstRow(t)) = kind

\* _queue_received(): a message that is there already is left to whoever put it there; the
\* oldest is pushed out of a full queue.
Queue(t) ==
  LET p == ProcessOf[t]
      m == FirstRow(t)
  IN /\ AtRow(t, "chat")
     /\ IF m \in Elements(received[p]) THEN Skip(t, m) /\ UNCHANGED <<received, dropped>>
        ELSE /\ received' = [received EXCEPT ![p] =
                               IF Len(@) = QueueLimit THEN Append(Tail(@), m) ELSE Append(@, m)]
             /\ dropped' = IF Len(received[p]) = QueueLimit
                           THEN dropped \cup {Head(received[p])} ELSE dropped
             /\ Take(t, m, "queued")
     /\ UNCHANGED <<mail, mailbox, responses, calls, exits, shown, gone, runs, answered, unheard>>

\* _store_rpc_response(), in the process that happens to read it.
Store(t) ==
  LET m == FirstRow(t)
  IN /\ AtRow(t, "result")
     /\ responses' = [responses EXCEPT ![ProcessOf[t]] = @ \cup {mail[m].call}]
     /\ Take(t, m, "stored")
     /\ UNCHANGED <<mail, mailbox, received, calls, exits, history>>

\* The model is asked first; if that fails the message stays.
Think(t) ==
  LET m == FirstRow(t)
  IN /\ AtRow(t, "ai")
     /\ \/ Take(t, m, "thinking") /\ runs' = runs \cup {m}
        \/ Skip(t, m) /\ UNCHANGED runs
     /\ UNCHANGED <<mail, mailbox, taken, calls, exits, shown, dropped, gone, answered, unheard>>

\* _handle_mcp_rpc(): the tool is called.
RunTool(t) ==
  LET m == FirstRow(t)
  IN /\ AtRow(t, "request")
     /\ Take(t, m, "running") /\ runs' = runs \cup {m}
     /\ UNCHANGED <<mail, mailbox, taken, calls, exits, shown, dropped, gone, answered, unheard>>

\* _mcp_rpc_reply(): what the tool said, or if sending that fails (the server may have it
\* all the same) that it failed; a sender that is not in the directory is left without an
\* answer, and that counts as one.
Reply(t) ==
  LET m == poller[t].row
      k == poller[t].pc
  IN /\ k \in {"running", "replying"}
     /\ \/ answered' = answered \cup {m} /\ Goes(t, "replied") /\ UNCHANGED unheard
        \/ unheard' = unheard \cup {m} /\ Goes(t, "replied") /\ UNCHANGED answered
        \/ /\ answered' \in {answered, answered \cup {m}} /\ UNCHANGED unheard
           /\ Goes(t, IF k = "running" THEN "replying" ELSE "box3")  \* it stays in the mailbox
     /\ UNCHANGED <<mail, mailbox, taken, calls, exits, shown, dropped, gone, runs>>

Back(t) == CASE poller[t].pc \in {"queued", "stored"} -> "box1"
             [] poller[t].pc = "thinking" -> "acked" [] OTHER -> "box3"

\* Mutant: a request is taken out of the mailbox before it is answered.
Ready_Early == {"queued", "stored", "thinking", "running", "replied"}

Ready == {"queued", "stored", "thinking", "replied"}

\* notify_ack(), after the message was taken care of; when it fails the server gives the
\* message again.
Acknowledge(t) ==
  /\ poller[t].pc \in Ready
  /\ \/ mailbox' = mailbox \ {poller[t].row} /\ Goes(t, Back(t))
     \/ mailbox' \in {mailbox, mailbox \ {poller[t].row}}
        /\ Goes(t, IF poller[t].pc = "thinking" THEN "box2" ELSE Back(t))
  /\ UNCHANGED <<mail, taken, calls, exits, history>>

\* The model's answer is sent after the message was acknowledged: it is lost if that fails.
Answer(t) ==
  /\ poller[t].pc = "acked" /\ Goes(t, "box2")
  /\ answered' \in {answered, answered \cup {poller[t].row}}
  /\ UNCHANGED <<mail, mailbox, taken, calls, exits, shown, dropped, gone, runs, unheard>>

--------------------------------------------------------------------------------
\* call_shared_mcp(): the request goes out and the thread polls for the answer.
Call(t) ==
  /\ poller[t].pc = "idle" /\ poller[t].call = 0 /\ calls < MaxRpcs
  /\ calls' = calls + 1 /\ poller' = [poller EXCEPT ![t].call = calls + 1]
  /\ UNCHANGED <<mail, mailbox, taken, exits, history>>

\* _pop_rpc_response(), between two polls.
GetAnswer(t) ==
  LET p == ProcessOf[t]
      c == poller[t].call
  IN /\ poller[t].pc = "idle" /\ c \in responses[p]
     /\ responses' = [responses EXCEPT ![p] = @ \ {c}]
     /\ poller' = [poller EXCEPT ![t] = Waiting]
     /\ UNCHANGED <<mail, mailbox, received, calls, exits, history>>

\* TimeoutError: also when another process has read the answer.
StopWaiting(t) ==
  /\ poller[t].pc = "idle" /\ poller[t].call # 0
  /\ poller' = [poller EXCEPT ![t] = Waiting]
  /\ UNCHANGED <<mail, mailbox, taken, calls, exits, history>>

\* _drain_incoming() of the window, on its timer.
Drain(p) ==
  /\ p \in Windows /\ received[p] # <<>>
  /\ shown' = shown \cup Elements(received[p])
  /\ received' = [received EXCEPT ![p] = <<>>]
  /\ UNCHANGED <<mail, mailbox, responses, poller, calls, exits, dropped, gone, runs, answered, unheard>>

\* A process ends, or is killed, with its queue; its threads do nothing more.
Exit(p) ==
  /\ exits < MaxExits /\ exits' = exits + 1
  /\ gone' = gone \cup Elements(received[p])
  /\ received' = [received EXCEPT ![p] = <<>>] /\ responses' = [responses EXCEPT ![p] = {}]
  /\ poller' = [t \in Pollers |-> IF ProcessOf[t] = p THEN [Waiting EXCEPT !.pc = "off"]
                                  ELSE poller[t]]
  /\ UNCHANGED <<mail, mailbox, calls, shown, dropped, runs, answered, unheard>>

Post(kind, call) ==
  /\ Len(mail) < MaxMessages
  /\ mail' = Append(mail, [kind |-> kind, call |-> call]) /\ mailbox' = mailbox \cup {Len(mail) + 1}
  /\ UNCHANGED <<taken, poller, calls, exits, history>>

\* Somebody writes, or calls a server published here.
Message == \E kind \in MessageKinds : Post(kind, 0)

\* The other machine answers a call, as often as it has read the request.
RemoteAnswers == \E c \in 1..calls : Post("result", c)

PollerStep(t) ==
  \/ Poll(t) \/ NextBox(t) \/ Queue(t) \/ Store(t) \/ Think(t) \/ RunTool(t) \/ Reply(t)
  \/ Acknowledge(t) \/ Answer(t) \/ Call(t) \/ GetAnswer(t) \/ StopWaiting(t)

NotifyNext ==
  \/ \E t \in Pollers : PollerStep(t)
  \/ \E p \in Processes : Drain(p) \/ Exit(p)
  \/ Message \/ RemoteAnswers

NotifySpec == NotifyInit /\ [][NotifyNext]_notifyVars

--------------------------------------------------------------------------------
NotifyTypeOK ==
  /\ mailbox \subseteq Ids /\ \A p \in Processes : Len(received[p]) <= QueueLimit
  /\ \A t \in Pollers : poller[t].pc \in PollerSteps /\ poller[t].rows \subseteq Ids

\* What has left the mailbox was taken care of before: a chat message was handed to a
\* process, and is there still, was shown, was pushed out by newer ones or went down with
\* the process; a model was asked; a request was run, and answered unless its sender was
\* not in the directory then (_mcp_rpc_reply() returns, and the request is acknowledged).
MailIsKept ==
  \A m \in Ids \ mailbox :
    CASE Kind(m) = "chat" -> \/ m \in shown \cup dropped \cup gone
                             \/ \E p \in Processes : m \in Elements(received[p])
      [] Kind(m) = "ai" -> m \in runs
      [] Kind(m) = "request" -> m \in runs \cap (answered \cup unheard)
      [] OTHER -> TRUE
=================================================================================
