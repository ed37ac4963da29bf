-------------------------------- MODULE Desktop --------------------------------
(***************************************************************************)
(* The chat page of the desktop window (aicoder/gui/chat_widget.py), the   *)
(* database of its chats (aicoder/chat_history.py) and its voice control   *)
(* (aicoder/voice.py).  A question runs in a thread of its own, which      *)
(* reports by signals that the window's thread handles later, in order;    *)
(* meanwhile the user may clear the chat, open another one or speak.       *)
(*                                                                         *)
(* A message is known by its kind and by the question it belongs to.  What *)
(* the thread does is AgentLoop's or TeamRun's; approvals are Approval's.  *)
(* A stop is left out: a stopped worker ends as one that was not.          *)
(***************************************************************************)
EXTENDS Naturals, Sequences, FiniteSets

CONSTANTS
  Chats,        \* identifiers of chats
  NoChat,       \* no chat is selected: the next question opens one
  MaxQuestions, \* bound: questions asked
  MaxTurns,     \* bound: times the user opens or clears a chat, or the voice is turned on or off
  MaxHeard      \* bound: commands the voice control hears

ASSUME DesktopAssumption ==
  NoChat \notin Chats /\ MaxQuestions \in Nat /\ MaxTurns \in Nat /\ MaxHeard \in Nat

VARIABLES
  askedIn,  \* of every question, the chat it was asked in: the session_id of its worker
  runner,   \* the worker of the last question
  posted,   \* signals the window has not handled yet
  rows,     \* of every chat, the messages the database has
  evidence, \* of every chat, the questions with tool events in the database
  selected, \* the chat the window shows
  context,  \* the messages the window keeps for the next question
  buttons,  \* whether "Send" and "Stop" are enabled and "Working" is shown
  voice,    \* the listener, the spoken answers, and whether to listen after them
  turns, heard, \* what the bounds count
  leftBehind   \* whether the user left a chat while an answer was on its way to it

desktopVars == <<askedIn, runner, posted, rows, evidence, selected, context, buttons, voice,
                 turns, heard, leftBehind>>

ChatMessage(kind, n) == [kind |-> kind, of |-> n]
Signal(kind, n, with) == [kind |-> kind, of |-> n, with |-> with]

Idle == [send |-> TRUE, stop |-> FALSE, working |-> FALSE]
Busy == [send |-> FALSE, stop |-> TRUE, working |-> TRUE]

DesktopInit ==
  /\ askedIn = <<>> /\ posted = <<>>
  /\ runner = [runs |-> FALSE, ended |-> FALSE, team |-> FALSE, noted |-> FALSE, with |-> {}]
  /\ rows = [c \in Chats |-> {}] /\ evidence = [c \in Chats |-> {}]
  /\ selected = NoChat /\ context = {} /\ buttons = Idle
  /\ voice = [listens |-> FALSE, speaking |-> 0, resume |-> FALSE]
  /\ turns = 0 /\ heard = 0 /\ leftBehind = FALSE

--------------------------------------------------------------------------------
Question == Len(askedIn)
bounds == <<turns, heard, leftBehind>>
chat == <<rows, selected, context>>

\* create_session(): a chat is new when nothing was ever asked in it.
NewChats == {c \in Chats : \A n \in DOMAIN askedIn : askedIn[n] # c}
\* save_message(): nothing is saved while no chat is selected.
Saved(kind, n) ==
  [c \in Chats |-> IF c = selected THEN rows[c] \cup {ChatMessage(kind, n)} ELSE rows[c]]
\* render_tool_evidence(): the tools that earlier questions of the chat used.
Evidence(c, n) == IF evidence[c] = {} THEN {} ELSE {ChatMessage("evidence", n)}

\* _send(), when no worker runs.  The worker gets a copy of the messages.
QuestionGoes ==
  /\ ~runner.runs /\ Question < MaxQuestions
  /\ \E c \in IF selected = NoChat THEN NewChats ELSE {selected}, team \in BOOLEAN :
       LET n == Question + 1
           messages == context \cup {ChatMessage("user", n)}
       IN /\ askedIn' = Append(askedIn, c) /\ selected' = c /\ context' = messages
          /\ rows' = [rows EXCEPT ![c] = @ \cup {ChatMessage("user", n)}]
          /\ runner' = [runs |-> TRUE, ended |-> FALSE, team |-> team, noted |-> FALSE,
                        with |-> messages \cup (IF team THEN {} ELSE Evidence(c, n))]
  /\ buttons' = Busy

\* _send(), when the stored session cannot be read.
CannotAsk == ~runner.runs /\ buttons' = Idle /\ UNCHANGED <<askedIn, runner, chat>>

UserSends ==
  /\ QuestionGoes \/ CannotAsk
  /\ UNCHANGED <<posted, evidence, voice, bounds>>

--------------------------------------------------------------------------------
\* The worker's thread.
Posts(signals) == posted' = posted \o signals

\* on_event(): a tool's result is shown, and the chat of the worker keeps that the tool ran.
SharedReports ==
  /\ runner.runs /\ ~runner.ended /\ ~runner.team /\ ~runner.noted
  /\ runner' = [runner EXCEPT !.noted = TRUE]
  /\ evidence' = [evidence EXCEPT ![askedIn[Question]] = @ \cup {Question}]
  /\ Posts(<<Signal("note", Question, {})>>)
  /\ UNCHANGED <<askedIn, chat, buttons, voice, bounds>>

\* on_team_event(): no tool event is kept.
TeamReports ==
  /\ runner.runs /\ ~runner.ended /\ runner.team /\ ~runner.noted
  /\ runner' = [runner EXCEPT !.noted = TRUE]
  /\ Posts(<<Signal("note", Question, {})>>)
  /\ UNCHANGED <<askedIn, evidence, chat, buttons, voice, bounds>>

WorkerAnswers ==
  <<Signal("context", Question, runner.with \cup {ChatMessage("assistant", Question)}),
    Signal("answer", Question, {})>>
WorkerFails == <<Signal("error", Question, {})>>

\* How _run_shared_runtime_impl(), _run_team_impl() and, on an exception, run() end.
SharedEnds == {WorkerAnswers, <<Signal("context", Question, runner.with)>> \o WorkerFails}
TeamEnds == {WorkerAnswers, WorkerFails}
WorkerEnds ==
  /\ runner.runs /\ ~runner.ended
  /\ \E signals \in (IF runner.team THEN TeamEnds ELSE SharedEnds) \cup {WorkerFails} : Posts(signals)
  /\ runner' = [runner EXCEPT !.ended = TRUE]
  /\ UNCHANGED <<askedIn, evidence, chat, buttons, voice, bounds>>

ThreadFinishes ==
  /\ runner.runs /\ runner.ended
  /\ runner' = [runner EXCEPT !.runs = FALSE]
  /\ Posts(<<Signal("finished", Question, {})>>)
  /\ UNCHANGED <<askedIn, evidence, chat, buttons, voice, bounds>>

--------------------------------------------------------------------------------
Turn == turns < MaxTurns /\ turns' = turns + 1

\* The voice control.
Listening == voice.listens
\* _start_voice() does nothing when the voice is on, or when what it needs is missing.
ListenerStarts == IF Listening THEN {TRUE} ELSE BOOLEAN
\* accept() makes commands of what follows the wake word or is said soon after it.
Command == <<Signal("command", 0, {})>>
\* _shutdown_voice() stops the listener and waits for it; it may still hear a command.
StopsListening(signals) ==
  \E words \in {<<>>} \cup IF Listening /\ heard < MaxHeard THEN {Command} ELSE {} :
    posted' = signals \o words /\ heard' = heard + Len(words)

Hears ==
  /\ Listening /\ heard < MaxHeard
  /\ heard' = heard + 1 /\ Posts(Command)
  /\ UNCHANGED <<askedIn, runner, rows, evidence, selected, context, buttons, voice, turns, leftBehind>>

\* The microphone's process ends, or the listener raises.
ListenerEnds ==
  /\ Listening /\ Turn
  /\ voice' = [voice EXCEPT !.listens = FALSE]
  /\ \E error \in {<<>>, <<Signal("voiceError", 0, {})>>} : Posts(error)
  /\ UNCHANGED <<askedIn, runner, rows, evidence, selected, context, buttons, heard, leftBehind>>

SpeechEnds ==
  /\ voice.speaking > 0
  /\ voice' = [voice EXCEPT !.speaking = @ - 1] /\ Posts(<<Signal("spoken", 0, {})>>)
  /\ UNCHANGED <<askedIn, runner, rows, evidence, selected, context, buttons, bounds>>

--------------------------------------------------------------------------------
\* What the user does meanwhile.
\* An answer is on its way while its worker runs or the window has a signal of it to handle.
OnItsWay == runner.runs \/ \E i \in DOMAIN posted : posted[i].of > 0 /\ posted[i].kind # "finished"

\* _clear_chat() empties the context; the chat stays selected.
ClearChat ==
  /\ Turn /\ context' = {}
  /\ UNCHANGED <<askedIn, runner, posted, rows, evidence, selected, buttons, voice, heard, leftBehind>>

NewChat ==
  /\ Turn /\ context' = {} /\ selected' = NoChat /\ leftBehind' = (leftBehind \/ OnItsWay)
  /\ UNCHANGED <<askedIn, runner, posted, rows, evidence, buttons, voice, heard>>

\* Mutant: the window's messages are not emptied first.
LoadChat_Keeps(c) ==
  /\ Turn /\ rows[c] # {}
  /\ selected' = c
  /\ context' = context \cup {m \in rows[c] : m.kind \in {"user", "assistant"}}
  /\ leftBehind' = (leftBehind \/ (OnItsWay /\ c # selected))
  /\ UNCHANGED <<askedIn, runner, posted, rows, evidence, buttons, voice, heard>>

\* _load_session(): of the chat's messages, those of the user and the assistant.
LoadChat(c) ==
  /\ Turn /\ rows[c] # {}
  /\ selected' = c /\ context' = {m \in rows[c] : m.kind \in {"user", "assistant"}}
  /\ leftBehind' = (leftBehind \/ (OnItsWay /\ c # selected))
  /\ UNCHANGED <<askedIn, runner, posted, rows, evidence, buttons, voice, heard>>

ToggleVoice ==
  /\ Turn
  /\ \/ /\ ~Listening /\ UNCHANGED <<posted, heard>>
        /\ \E starts \in ListenerStarts : voice' = [voice EXCEPT !.listens = starts]
     \/ /\ Listening /\ StopsListening(posted)
        /\ voice' = [voice EXCEPT !.listens = FALSE, !.resume = FALSE]
  /\ UNCHANGED <<askedIn, runner, rows, evidence, selected, context, buttons, leftBehind>>

--------------------------------------------------------------------------------
\* The window handles the first signal.
IsFirst(kind) == posted # <<>> /\ Head(posted).kind = kind
Handles(kind) == IsFirst(kind) /\ posted' = Tail(posted)
Of == Head(posted).of

OnNote ==
  /\ Handles("note") /\ rows' = Saved("note", Of)
  /\ UNCHANGED <<askedIn, runner, evidence, selected, context, buttons, voice, bounds>>

OnMessagesUpdated ==
  /\ Handles("context") /\ context' = Head(posted).with
  /\ UNCHANGED <<askedIn, runner, rows, evidence, selected, buttons, voice, bounds>>

Speaks(signals) ==
  IF Listening THEN /\ voice' = [listens |-> FALSE, speaking |-> voice.speaking + 1, resume |-> TRUE]
                    /\ StopsListening(signals)
  ELSE posted' = signals /\ UNCHANGED <<voice, heard>>

\* Mutant: an early return for a response of the worker before leaves "Stop" enabled.
OnResponse_Guarded ==
  /\ IsFirst("answer") /\ rows' = Saved("assistant", Of)
  /\ buttons' = IF runner.runs THEN [buttons EXCEPT !.working = FALSE] ELSE Idle
  /\ Speaks(Tail(posted))
  /\ UNCHANGED <<askedIn, runner, evidence, selected, context, turns, leftBehind>>

\* _on_response(): with the voice on, the answer is spoken and the listener rests meanwhile.
OnResponse ==
  /\ IsFirst("answer") /\ rows' = Saved("assistant", Of) /\ buttons' = Idle
  /\ Speaks(Tail(posted))
  /\ UNCHANGED <<askedIn, runner, evidence, selected, context, turns, leftBehind>>

OnError ==
  /\ Handles("error") /\ rows' = Saved("error", Of) /\ buttons' = Idle
  /\ UNCHANGED <<askedIn, runner, evidence, selected, context, voice, bounds>>

OnFinished ==
  /\ Handles("finished")
  /\ buttons' = IF ~runner.runs /\ buttons.working THEN Idle ELSE buttons
  /\ UNCHANGED <<askedIn, runner, evidence, chat, voice, bounds>>

\* _on_voice_command() sends, unless a worker runs.
OnVoiceCommand ==
  /\ Handles("command")
  /\ \/ QuestionGoes \/ CannotAsk
     \/ (runner.runs \/ Question = MaxQuestions) /\ UNCHANGED <<askedIn, runner, chat, buttons>>
  /\ UNCHANGED <<evidence, voice, bounds>>

\* _on_voice_error() stops the listener that runs now.
OnVoiceError ==
  /\ IsFirst("voiceError") /\ StopsListening(Tail(posted))
  /\ voice' = [voice EXCEPT !.listens = FALSE]
  /\ UNCHANGED <<askedIn, runner, evidence, chat, buttons, turns, leftBehind>>

OnSpoken ==
  /\ Handles("spoken")
  /\ \E starts \in IF voice.resume THEN ListenerStarts ELSE {Listening} :
       voice' = [voice EXCEPT !.listens = starts, !.resume = FALSE]
  /\ UNCHANGED <<askedIn, runner, evidence, chat, buttons, bounds>>

WindowActs == OnNote \/ OnMessagesUpdated \/ OnResponse \/ OnError \/ OnFinished
              \/ OnVoiceCommand \/ OnVoiceError \/ OnSpoken
WorkerActs == SharedReports \/ TeamReports \/ WorkerEnds \/ ThreadFinishes
PageUserActs == UserSends \/ ClearChat \/ NewChat \/ ToggleVoice \/ \E c \in Chats : LoadChat(c)

DesktopNext == WindowActs \/ WorkerActs \/ PageUserActs \/ Hears \/ ListenerEnds \/ SpeechEnds

DesktopSpec == DesktopInit /\ [][DesktopNext]_desktopVars

--------------------------------------------------------------------------------
BelongTo(messages, c) == \A m \in messages : askedIn[m.of] = c

(***************************************************************************)
(* As long as the user never left a chat while an answer was on its way to *)
(* it, a chat's messages are its own: those the database has, those the    *)
(* next question and the running worker go with.  Then every question that *)
(* is over has one answer or error in its chat, whatever was asked, heard  *)
(* or cleared while its signals waited.  That a tool ran is kept with the  *)
(* chat that asked for it even when the user left.                         *)
(***************************************************************************)
ChatsStayApart ==
  /\ \A c \in Chats : \A n \in evidence[c] : askedIn[n] = c
  /\ ~leftBehind =>
       /\ \A c \in Chats : BelongTo(rows[c], c)
       /\ BelongTo(context, selected)
       /\ Question > 0 => BelongTo(runner.with, askedIn[Question])
       /\ ~OnItsWay => \A n \in DOMAIN askedIn :
            Cardinality({m \in rows[askedIn[n]] : m.of = n /\ m.kind \in {"assistant", "error"}}) = 1

(***************************************************************************)
(* When nothing runs and every signal is handled, the page is ready for a  *)
(* question, shows no work and does not wait for speech that is over; the  *)
(* signals of one worker may have been handled after the next one started. *)
(***************************************************************************)
WindowSettles ==
  ~runner.runs /\ posted = <<>> /\ voice.speaking = 0 => buttons = Idle /\ ~voice.resume
================================================================================
