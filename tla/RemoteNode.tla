------------------------------- MODULE RemoteNode -------------------------------
(***************************************************************************)
(* The remote coding node (aicoder/remote_node.py): a process on the       *)
(* user's machine that handles, one after the other, the tool calls a      *)
(* server sends it, while the user works on the same file.  The process or *)
(* its connection may end at any point; the user starts it again and the   *)
(* server may send a call that was not answered once more.                 *)
(*                                                                         *)
(* Of a text only its identity counts, and how often it holds the text     *)
(* that a replace looks for.  There is one file and one run.  A "read" is  *)
(* a call that counts as verification: client_file_read, and               *)
(* client_git_status too.                                                  *)
(***************************************************************************)
EXTENDS Naturals

CONSTANTS
  MaxRemoteCalls, \* bound: calls the server makes
  MaxUserSaves,   \* bound: times the user saves or deletes the file
  MaxNodeEnds     \* bound: times the node's process or connection ends, or the plan's store fails

ASSUME RemoteAssumption == MaxRemoteCalls \in Nat /\ MaxUserSaves \in Nat /\ MaxNodeEnds \in Nat

VARIABLES
  userFile,   \* the file's text, 0 when there is none, and how often the old text is in it
  texts,      \* texts there have been
  node,       \* what the node does
  remoteCall, \* the server's call
  remotePlan, \* the run's plan
  backups,    \* texts in the backup store
  allowWrites, \* the node was started with --allow-writes
  overwritten, \* texts the node wrote over
  meanwhile,   \* texts the user saved while the node was writing
  unread,      \* the server was told of a change, and of no successful reading after it
  counts      \* what the bounds count

remoteVars == <<userFile, texts, node, remoteCall, remotePlan, backups, allowWrites, overwritten,
                meanwhile, unread, counts>>

NoFile == [text |-> 0, fits |-> 0]
Handling(at, ok) == [at |-> at, ok |-> ok, old |-> NoFile, new |-> 0]
RemoteWrites == {"replace", "create"}

RemoteInit ==
  /\ userFile = [text |-> 1, fits |-> 1] /\ texts = 1
  /\ node = Handling("idle", FALSE)
  /\ remoteCall = [kind |-> "none", repeats |-> FALSE, open |-> FALSE]
  /\ remotePlan = [exists |-> FALSE, status |-> "running",
                    implement |-> FALSE, verify |-> "pending"]
  /\ backups = {} /\ allowWrites \in BOOLEAN
  /\ overwritten = {} /\ meanwhile = {} /\ unread = FALSE
  /\ counts = [calls |-> 0, saves |-> 0, ends |-> 0]

--------------------------------------------------------------------------------
NodeGoes(at, ok) == node' = [node EXCEPT !.at = at, !.ok = ok]
OverWrites == overwritten' = overwritten \cup ({userFile.text} \ {0})
callVars == <<remoteCall, allowWrites, counts>>
ghosts == <<overwritten, meanwhile, unread>>
disk == <<userFile, texts, backups>>

\* "repeats": the new text of a replace holds the old one.
ServerCalls ==
  /\ ~remoteCall.open /\ node.at = "idle" /\ counts.calls < MaxRemoteCalls
  /\ counts' = [counts EXCEPT !.calls = @ + 1]
  /\ \E kind \in RemoteWrites \cup {"read", "list", "state"}, repeats \in BOOLEAN :
       /\ repeats => kind = "replace"
       /\ remoteCall' = [kind |-> kind, repeats |-> repeats, open |-> TRUE]
  /\ NodeGoes("called", FALSE)
  /\ UNCHANGED <<disk, remotePlan, allowWrites, ghosts>>

\* _handle(), execute_remote_tool(): the profile, then what the tool is.
HandleCall ==
  /\ node.at = "called"
  /\ CASE remoteCall.kind \in RemoteWrites ->
            NodeGoes(IF allowWrites THEN "check" ELSE "answer", FALSE)
       [] remoteCall.kind = "state" -> NodeGoes("finish", FALSE)
       [] OTHER -> \E ok \in BOOLEAN : NodeGoes("record", ok)
  /\ UNCHANGED <<disk, callVars, remotePlan, ghosts>>

\* Whether the edit applies to the file as it is.
Applies == IF remoteCall.kind = "create" THEN userFile.text = 0 ELSE userFile.fits = 1

\* _execute_remote_write(), before the backup.
CheckWrite ==
  /\ node.at = "check"
  /\ NodeGoes(IF ~Applies THEN "record"
              ELSE IF remoteCall.kind = "replace" THEN "backup" ELSE "read", FALSE)
  /\ UNCHANGED <<disk, callVars, remotePlan, ghosts>>

\* Mutant: one backup for the run.
BackUp_Once ==
  /\ node.at = "backup"
  /\ backups' = IF backups = {} THEN {userFile.text} \ {0} ELSE backups
  /\ NodeGoes("read", FALSE)
  /\ UNCHANGED <<userFile, texts, callVars, remotePlan, ghosts>>

\* snapshot_file(): the file as it is now; that it does not exist is kept as well.
BackUp ==
  /\ node.at = "backup"
  /\ backups' = backups \cup ({userFile.text} \ {0})
  /\ NodeGoes("read", FALSE)
  /\ UNCHANGED <<userFile, texts, callVars, remotePlan, ghosts>>

BackUpFails ==
  /\ node.at = "backup" /\ NodeGoes("record", FALSE)
  /\ UNCHANGED <<disk, callVars, remotePlan, ghosts>>

\* run_file_edit(): the file is read again; an edit without effect is refused.
ReadOld ==
  /\ node.at = "read"
  /\ \/ Applies /\ node' = [node EXCEPT !.at = "write", !.old = userFile]
     \/ NodeGoes("record", FALSE)
  /\ UNCHANGED <<disk, callVars, remotePlan, ghosts>>

\* atomic_write_text() replaces the file, whatever it is by now.
WriteNew ==
  /\ node.at = "write"
  /\ texts' = texts + 1
  /\ \E fits \in 0..2 :
       /\ remoteCall.kind = "replace" => fits = IF remoteCall.repeats THEN 1 ELSE 0
       /\ userFile' = [text |-> texts + 1, fits |-> fits]
  /\ node' = [node EXCEPT !.at = "compare", !.new = texts + 1]
  /\ OverWrites
  /\ UNCHANGED <<callVars, backups, remotePlan, meanwhile, unread>>

\* The text read back is the one written, or the text read before is put back.
ReadBack ==
  /\ node.at = "compare"
  /\ IF userFile.text \in {0, node.new}
     THEN NodeGoes("record", userFile.text # 0) /\ UNCHANGED <<disk, overwritten>>
     ELSE /\ NodeGoes("record", FALSE) /\ OverWrites
          /\ userFile' = node.old /\ UNCHANGED <<texts, backups>>
  /\ UNCHANGED <<callVars, remotePlan, meanwhile, unread>>

--------------------------------------------------------------------------------
Told(kind, implement, verify) ==
  CASE kind \in RemoteWrites -> [implement |-> TRUE, verify |-> "in_progress"]
    [] kind = "read" /\ implement -> [implement |-> TRUE, verify |-> "completed"]
    [] OTHER -> [implement |-> implement, verify |-> verify]

\* Mutant: a plan whose verification is done is left as it is.
RecordCall_Keeps ==
  /\ node.at = "record"
  /\ LET told == IF node.ok /\ remotePlan.verify # "completed"
                 THEN Told(remoteCall.kind, remotePlan.implement, remotePlan.verify)
                 ELSE [implement |-> remotePlan.implement, verify |-> remotePlan.verify]
     IN remotePlan' = [exists |-> TRUE, status |-> "running",
                       implement |-> told.implement, verify |-> told.verify]
  /\ unread' = (unread /\ ~(node.ok /\ remoteCall.kind = "read"))
  /\ NodeGoes("answer", node.ok)
  /\ UNCHANGED <<disk, callVars, overwritten, meanwhile>>

\* _update_remote_plan() creates the run's plan when there is none.
RecordCall ==
  /\ node.at = "record"
  /\ LET told == IF node.ok THEN Told(remoteCall.kind, remotePlan.implement, remotePlan.verify)
                 ELSE [implement |-> remotePlan.implement, verify |-> remotePlan.verify]
     IN remotePlan' = [exists |-> TRUE, status |-> "running",
                       implement |-> told.implement, verify |-> told.verify]
  /\ unread' = (unread /\ ~(node.ok /\ remoteCall.kind = "read"))
  /\ NodeGoes("answer", node.ok)
  /\ UNCHANGED <<disk, callVars, overwritten, meanwhile>>

\* The plan cannot be stored: the server gets an error, whatever the tool did.
RecordFails ==
  /\ node.at = "record" /\ counts.ends < MaxNodeEnds
  /\ counts' = [counts EXCEPT !.ends = @ + 1]
  /\ NodeGoes("answer", FALSE)
  /\ UNCHANGED <<disk, remoteCall, allowWrites, remotePlan, ghosts>>

\* finalize_remote_plan(): client_run_state, for a plan that exists.
Finish ==
  /\ node.at = "finish"
  /\ \E status \in {"completed", "paused", "failed"} :
       remotePlan' = IF remotePlan.exists THEN [remotePlan EXCEPT !.status = status] ELSE remotePlan
  /\ NodeGoes("answer", TRUE)
  /\ UNCHANGED <<disk, callVars, ghosts>>

AnswerCall ==
  /\ node.at = "answer"
  /\ remoteCall' = [remoteCall EXCEPT !.open = FALSE]
  /\ unread' = (unread \/ (node.ok /\ remoteCall.kind \in RemoteWrites))
  /\ node' = Handling("idle", FALSE)
  /\ UNCHANGED <<disk, allowWrites, counts, remotePlan, overwritten, meanwhile>>

--------------------------------------------------------------------------------
NodeEnds ==
  /\ node.at # "down" /\ counts.ends < MaxNodeEnds
  /\ counts' = [counts EXCEPT !.ends = @ + 1]
  /\ node' = Handling("down", FALSE)
  /\ UNCHANGED <<disk, remoteCall, allowWrites, remotePlan, ghosts>>

\* The user starts the node, with or without --allow-writes, and the server repeats an open
\* call or gives it up.
NodeStarts ==
  /\ node.at = "down"
  /\ allowWrites' \in BOOLEAN
  /\ \/ remoteCall.open /\ node' = Handling("called", FALSE) /\ UNCHANGED remoteCall
     \/ node' = Handling("idle", FALSE) /\ remoteCall' = [remoteCall EXCEPT !.open = FALSE]
  /\ UNCHANGED <<disk, counts, remotePlan, ghosts>>

UserSaves ==
  /\ counts.saves < MaxUserSaves
  /\ counts' = [counts EXCEPT !.saves = @ + 1]
  /\ \/ /\ texts' = texts + 1
        /\ \E fits \in 0..2 : userFile' = [text |-> texts + 1, fits |-> fits]
        /\ meanwhile' = IF node.at \in {"read", "write", "compare"} THEN meanwhile \cup {texts + 1}
                        ELSE meanwhile
     \/ userFile' = NoFile /\ UNCHANGED <<texts, meanwhile>>
  /\ UNCHANGED <<node, remoteCall, allowWrites, remotePlan, backups, overwritten, unread>>

RemoteNext ==
  \/ ServerCalls \/ HandleCall \/ CheckWrite \/ BackUp \/ BackUpFails \/ ReadOld
  \/ WriteNew \/ ReadBack \/ RecordCall \/ RecordFails \/ Finish \/ AnswerCall
  \/ NodeEnds \/ NodeStarts \/ UserSaves

RemoteSpec == RemoteInit /\ [][RemoteNext]_remoteVars

--------------------------------------------------------------------------------
(* What the node does to the user's work is covered: a text it wrote over  *)
(* is in the backup store, unless the user saved it while the node was     *)
(* already writing; and the plan says that the change is verified only     *)
(* when the server read something after the last change it was told of,    *)
(* whatever calls were repeated after a crash in between.                  *)
RemoteWorkIsCovered ==
  /\ overwritten \subseteq backups \cup meanwhile
  /\ (remotePlan.verify = "completed" => ~unread)
================================================================================
