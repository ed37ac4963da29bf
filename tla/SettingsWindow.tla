----------------------------- MODULE SettingsWindow -----------------------------
(***************************************************************************)
(* The settings tab of the window (aicoder/gui/settings_widget.py) over    *)
(* the settings file it shares with the command line.  Some controls save  *)
(* their setting when the user changes them, others when a button is       *)
(* pressed; once a second the tab compares the file with what it last took *)
(* from it.                                                                *)
(*                                                                         *)
(* Every setting has two values; SettingsStore models the file itself.     *)
(* The list of tools is left out.  No setting of the form is marked as     *)
(* security relevant, so the form's confirmation dialog never opens.       *)
(*                                                                         *)
(* The model's control is a list with a text field.  To choose an item of  *)
(* the list sets both; to type, and to take the file's value, sets the     *)
(* text only, and the item stays.  A save prefers the item to the text.    *)
(***************************************************************************)
EXTENDS Naturals

CONSTANTS
  InForm,     \* settings a button saves in one update: the form, the team's models
  Paired,     \* settings a button saves one by one: the model and its timeout
  AtOnce,     \* settings with a control that saves them when it is changed
  Editable,   \* settings whose control is a list with a text field: the model
  NoItem,     \* no item of the list is chosen, or one without a value
  MaxPresses, \* bound: times the user saves
  MaxOutside  \* bound: changes another process makes

WindowKeys == InForm \cup Paired

ASSUME WindowAssumption ==
  /\ InForm \cap Paired = {} /\ AtOnce \subseteq WindowKeys /\ Editable \subseteq Paired
  /\ MaxPresses \in Nat /\ MaxOutside \in Nat

VARIABLES
  saved,   \* the settings file
  shows,   \* what the controls show; an empty text counts as FALSE
  item,    \* the chosen item of a list with a text field
  slipped, \* those whose text and item came apart, or were emptied, until they show the file's
  entered, \* settings the user changed in the tab and has not saved
  lastTaken,   \* _settings_snapshot
  saving,  \* the save under way: what is left to write, whether it takes the file's state
           \* afterwards, whether it is of a value chosen at once
  unseen,  \* settings another process changed since the controls were last filled
  polled,  \* the last step was the comparison
  presses, outsideChanges

windowVars == <<saved, shows, item, slipped, entered, lastTaken, saving, unseen, polled, presses,
                outsideChanges>>

NotSaving == [at |-> "none", left |-> {}, takes |-> TRUE, picked |-> FALSE]

\* currentData() or currentText()
Holds(k) == IF k \in Editable /\ item[k] # NoItem THEN item[k] ELSE shows[k]

Slips(emptied) ==
  slipped' = {k \in Editable : \/ item'[k] \notin {NoItem, shows'[k]}
                               \/ k \in (slipped \cup emptied) /\ shows'[k] # saved'[k]}

\* _load_current()
WindowInit ==
  /\ saved \in [WindowKeys -> BOOLEAN]
  /\ item = [k \in Editable |-> NoItem] /\ slipped = {}
  /\ shows = saved /\ lastTaken = saved /\ entered = {} /\ unseen = {}
  /\ saving = NotSaving /\ polled = FALSE /\ presses = 0 /\ outsideChanges = 0

--------------------------------------------------------------------------------
\* The user changes a control: chooses an item of a list, or types.
EnterSetting(k) ==
  /\ saving.at = "none"
  /\ shows' = [shows EXCEPT ![k] = ~@]
  /\ \/ item' = item
     \/ k \in Editable /\ item' = [item EXCEPT ![k] = shows'[k]]
  /\ entered' = entered \cup {k}
  /\ polled' = FALSE
  /\ UNCHANGED <<saved, lastTaken, saving, unseen, presses, outsideChanges>>
  /\ Slips({})

\* The user leaves a text field: a text that an item of the list has chooses the item.
LeaveField(k) ==
  /\ saving.at = "none"
  /\ item' = [item EXCEPT ![k] = shows[k]]
  /\ polled' = FALSE
  /\ UNCHANGED <<saved, shows, entered, lastTaken, saving, unseen, presses, outsideChanges>>
  /\ Slips({})

\* _on_models_loaded(): the list is filled anew, and what a save would have written is chosen,
\* or shown if the list has it no more.
ModelsLoaded ==
  /\ saving.at = "none"
  /\ shows' = [k \in WindowKeys |-> Holds(k)]
  /\ \E listed \in SUBSET Editable :
       item' = [k \in Editable |-> IF k \in listed THEN Holds(k) ELSE NoItem]
  /\ polled' = FALSE
  /\ UNCHANGED <<saved, entered, lastTaken, saving, unseen, presses, outsideChanges>>
  /\ Slips({})

\* _do_logout()
EmptyLists ==
  /\ saving.at = "none"
  /\ shows' = [k \in WindowKeys |-> k \notin Editable /\ shows[k]]
  /\ item' = [k \in Editable |-> NoItem]
  /\ polled' = FALSE
  /\ UNCHANGED <<saved, entered, lastTaken, saving, unseen, presses, outsideChanges>>
  /\ Slips(Editable)

\* _save_tool_mode_only() and its kind, _activate_account_model(), _select_local_model(): the
\* control takes the chosen value's text, and the value is saved.  The control of the account
\* models does not take the file's state afterwards.
SaveAtOnce(k, takes) ==
  /\ saving.at = "none" /\ presses < MaxPresses
  /\ presses' = presses + 1
  /\ \E chosen \in BOOLEAN :
       /\ k \in Editable \/ chosen # shows[k]
       /\ shows' = [shows EXCEPT ![k] = chosen]
  /\ entered' = entered \cup {k}
  /\ saving' = [at |-> "writing", left |-> {k}, takes |-> takes, picked |-> TRUE]
  /\ polled' = FALSE
  /\ UNCHANGED <<saved, item, lastTaken, unseen, outsideChanges>>
  /\ Slips({})

\* _save_schema_settings(), _save_team_config(), _save_model_config()
PressSave(keys) ==
  /\ saving.at = "none" /\ presses < MaxPresses
  /\ presses' = presses + 1
  /\ saving' = [at |-> "writing", left |-> keys, takes |-> TRUE, picked |-> FALSE]
  /\ polled' = FALSE
  /\ UNCHANGED <<saved, shows, item, slipped, entered, lastTaken, unseen, outsideChanges>>

Part(left) == IF left \subseteq InForm THEN {left} ELSE {{k} : k \in left}

\* One update of the store: the settings of the part get the value just chosen, or what their
\* controls hold.
WritePart ==
  /\ saving.at = "writing"
  /\ \E part \in Part(saving.left) :
       /\ saved' = [k \in WindowKeys |-> IF k \notin part THEN saved[k]
                                   ELSE IF saving.picked THEN shows[k] ELSE Holds(k)]
       /\ entered' = entered \ part
       /\ unseen' = unseen \ part
       /\ saving' = IF part # saving.left THEN [saving EXCEPT !.left = @ \ part]
                    ELSE IF saving.takes THEN [saving EXCEPT !.at = "taking"] ELSE NotSaving
  /\ polled' = FALSE
  /\ UNCHANGED <<shows, item, lastTaken, presses, outsideChanges>>
  /\ Slips({})

\* The update is refused: an invalid setting of the form.
PartFails ==
  /\ saving.at = "writing" /\ saving.left \subseteq InForm
  /\ saving' = NotSaving /\ polled' = FALSE
  /\ UNCHANGED <<saved, shows, item, slipped, entered, lastTaken, unseen, presses,
                outsideChanges>>

\* A save ends by taking the file's state as the one the controls show.
TakeState ==
  /\ saving.at = "taking"
  /\ lastTaken' = saved /\ saving' = NotSaving /\ polled' = FALSE
  /\ UNCHANGED <<saved, shows, item, slipped, entered, unseen, presses, outsideChanges>>

--------------------------------------------------------------------------------
\* Mutant: the controls are not filled while one of them has an entry that is not saved.
PollFile_Spares ==
  /\ saving.at = "none" /\ polled' = TRUE
  /\ IF saved = lastTaken THEN UNCHANGED <<shows, entered, lastTaken, unseen>>
     ELSE /\ shows' = IF entered = {} THEN saved ELSE shows
          /\ entered' = entered /\ lastTaken' = saved /\ unseen' = {}
  /\ UNCHANGED <<saved, item, saving, presses, outsideChanges>>
  /\ Slips({})

\* _refresh_external_settings(), _apply_state_to_widgets(): of a list with a text field only
\* the text is set.
PollFile ==
  /\ saving.at = "none" /\ polled' = TRUE
  /\ IF saved = lastTaken THEN UNCHANGED <<shows, entered, lastTaken, unseen>>
     ELSE shows' = saved /\ lastTaken' = saved /\ entered' = {} /\ unseen' = {}
  /\ UNCHANGED <<saved, item, saving, presses, outsideChanges>>
  /\ Slips({})

ChangeOutside(k) ==
  /\ outsideChanges < MaxOutside /\ outsideChanges' = outsideChanges + 1
  /\ saved' = [saved EXCEPT ![k] = ~@]
  /\ unseen' = unseen \cup {k}
  /\ polled' = FALSE
  /\ UNCHANGED <<shows, item, entered, lastTaken, saving, presses>>
  /\ Slips({})

WindowNext ==
  \/ \E k \in WindowKeys : EnterSetting(k)
  \/ (\E k \in Editable : LeaveField(k)) \/ ModelsLoaded \/ EmptyLists
  \/ \E k \in AtOnce, takes \in BOOLEAN : SaveAtOnce(k, takes)
  \/ PressSave(InForm) \/ PressSave(Paired) \/ WritePart \/ PartFails \/ TakeState
  \/ PollFile \/ (\E k \in WindowKeys : ChangeOutside(k))

WindowSpec == WindowInit /\ [][WindowNext]_windowVars

--------------------------------------------------------------------------------
(* A control that does not show what the file holds shows an entry of the  *)
(* user's that is not saved, or its setting was changed by another process *)
(* after the controls were last filled: whatever else a later save of the  *)
(* tab sets back, the user has seen.  Excepted is a list with a text field *)
(* whose text and item came apart, or which was emptied: it may show one   *)
(* value and save another until it shows the file's again.                 *)
ControlsFollow ==
  \A k \in WindowKeys : shows[k] # saved[k] => k \in entered \cup unseen \cup slipped
================================================================================
