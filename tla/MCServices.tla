-------------------------------- MODULE MCServices --------------------------------
(***************************************************************************)
(* A small instance of the components that share no state: the stores      *)
(* under the state directory, what runs between the agent's thread and the *)
(* window, the clients of the backend, the models, the accounts and the    *)
(* MCP servers, the shared notify, the planning stages of a team run, the  *)
(* remote node and the settings tab of the window.                         *)
(* A run is about one of them; the others rest.                            *)
(***************************************************************************)
EXTENDS SettingsStore, ChangeJournal, Approval, ClientSession, SharedNotify, NotifyShares,
        TeamStages, ModelRequests, ProviderAccounts, McpServers, Desktop, RemoteNode,
        SettingsWindow, TLC

CONSTANTS
  Focus,       \* the components this instance is about
  c1, t1, t2, win, cli

VARIABLE focus

MCClientOf == [l \in Lanes |-> c1]
MCProcessOf == (t1 :> win) @@ (t2 :> cli)
MCCalls == [s \in StageSurfaces \cup {"gui", "cli", "headless", "unattended"} |->
  CASE s = "gui" -> {{"write"}, {"write", "delete"}}
    [] s \in {"cli", "headless"} ->
         {{"write"}, {"write", "elevate"}, {"write", "escape"}, {"escape", "source"}}
    [] s = "repair" -> {{"write"}, {"escape", "acceptance"}, {"escape"}}
    [] OTHER -> {{"unlisted"}, {"write"}, {"write", "check"}, {"web"}, {"backend"}, {"secure"}}]
MCTransportOf == [p \in Providers |-> CASE p = "api" -> "http" [] p = "cli" -> "cli" [] OTHER -> "server"]
MCRunSettings == {[coordinator |-> TRUE, external |-> FALSE, web |-> FALSE],
                  [coordinator |-> FALSE, external |-> TRUE, web |-> TRUE]}

MCInit ==
  /\ focus \in Focus
  /\ SettingsInit /\ JournalInit /\ ApprovalInit /\ ClientInit /\ NotifyInit /\ SharesInit
  /\ StagesInit /\ RequestsInit /\ AccountsInit /\ McpInit /\ DesktopInit
  /\ RemoteInit /\ WindowInit
  \* The users are interchangeable, and so are the two values of a setting without a list.
  /\ session.user = CHOOSE u \in Users : TRUE
  /\ \A k \in WindowKeys \ Editable : saved[k]
  \* A component that rests has one initial state.
  /\ focus # "approval" => surface = "gui" /\ contract = {} /\ mode = "ask"
  /\ focus # "stages" => sourceHas = "nothing" /\ ~runSetting.web
  /\ focus # "accounts" => linked = {}
  /\ focus # "remote" => allowWrites
  /\ focus # "window" => \A k \in Editable : saved[k]
  /\ focus # "mcp" => \A s \in McpServers : registry[s] = NoServer

SettingsStep ==
  /\ focus = "settings" /\ SettingsNext
  /\ UNCHANGED <<focus, journalVars, approvalVars, clientVars, notifyVars, sharesVars,
                stagesVars, requestVars, accountVars, mcpVars, desktopVars, remoteVars,
                windowVars>>
JournalStep ==
  /\ focus = "journal" /\ JournalNext
  /\ UNCHANGED <<focus, settingsVars, approvalVars, clientVars, notifyVars, sharesVars,
                stagesVars, requestVars, accountVars, mcpVars, desktopVars, remoteVars,
                windowVars>>
ApprovalStep ==
  /\ focus = "approval" /\ ApprovalNext
  /\ UNCHANGED <<focus, settingsVars, journalVars, clientVars, notifyVars, sharesVars,
                stagesVars, requestVars, accountVars, mcpVars, desktopVars, remoteVars,
                windowVars>>
\* The lanes are interchangeable until the first request.
ClientStep ==
  /\ focus = "client" /\ ClientNext
  /\ requests = 0 => \A l \in Lanes : lane'[l] # lane[l] => l = CHOOSE any \in Lanes : TRUE
  /\ UNCHANGED <<focus, settingsVars, journalVars, approvalVars, notifyVars, sharesVars,
                stagesVars, requestVars, accountVars, mcpVars, desktopVars, remoteVars,
                windowVars>>
NotifyStep ==
  /\ focus = "notify" /\ NotifyNext
  /\ UNCHANGED <<focus, settingsVars, journalVars, approvalVars, clientVars, sharesVars,
                stagesVars, requestVars, accountVars, mcpVars, desktopVars, remoteVars,
                windowVars>>
SharesStep ==
  /\ focus = "shares" /\ SharesNext
  /\ UNCHANGED <<focus, settingsVars, journalVars, approvalVars, clientVars, notifyVars,
                stagesVars, requestVars, accountVars, mcpVars, desktopVars, remoteVars,
                windowVars>>
StagesStep ==
  /\ focus = "stages" /\ StagesNext
  /\ UNCHANGED <<focus, settingsVars, journalVars, approvalVars, clientVars, notifyVars,
                sharesVars, requestVars, accountVars, mcpVars, desktopVars, remoteVars,
                windowVars>>
\* The askers are interchangeable until the first request.
RequestsStep ==
  /\ focus = "requests" /\ RequestsNext
  /\ asks = <<>> => \A a \in Askers : waits'[a] # waits[a] => a = CHOOSE any \in Askers : TRUE
  /\ UNCHANGED <<focus, settingsVars, journalVars, approvalVars, clientVars, notifyVars,
                sharesVars, stagesVars, accountVars, mcpVars, desktopVars, remoteVars,
                windowVars>>
AccountsStep ==
  /\ focus = "accounts" /\ AccountsNext
  /\ UNCHANGED <<focus, settingsVars, journalVars, approvalVars, clientVars, notifyVars,
                sharesVars, stagesVars, requestVars, mcpVars, desktopVars, remoteVars,
                windowVars>>
\* Of an entangled server nothing is said; there is one.
McpStep ==
  /\ focus = "mcp" /\ entangled # McpServers /\ McpNext
  /\ UNCHANGED <<focus, settingsVars, journalVars, approvalVars, clientVars, notifyVars,
                sharesVars, stagesVars, requestVars, accountVars, desktopVars, remoteVars,
                windowVars>>
\* The chats are interchangeable until something is asked in one.
DesktopStep ==
  /\ focus = "desktop" /\ DesktopNext
  /\ askedIn' # <<>> => askedIn'[1] = CHOOSE c \in Chats : TRUE
  /\ UNCHANGED <<focus, settingsVars, journalVars, approvalVars, clientVars, notifyVars,
                sharesVars, stagesVars, requestVars, accountVars, mcpVars, remoteVars,
                windowVars>>
RemoteStep ==
  /\ focus = "remote" /\ RemoteNext
  /\ UNCHANGED <<focus, settingsVars, journalVars, approvalVars, clientVars, notifyVars,
                sharesVars, stagesVars, requestVars, accountVars, mcpVars, desktopVars,
                windowVars>>
WindowStep ==
  /\ focus = "window" /\ WindowNext
  /\ UNCHANGED <<focus, settingsVars, journalVars, approvalVars, clientVars, notifyVars,
                sharesVars, stagesVars, requestVars, accountVars, mcpVars, desktopVars,
                remoteVars>>

MCNext ==
  \/ SettingsStep \/ JournalStep \/ ApprovalStep \/ ClientStep
  \/ NotifyStep \/ SharesStep \/ StagesStep \/ RequestsStep
  \/ AccountsStep \/ McpStep \/ DesktopStep \/ RemoteStep
  \/ WindowStep

MCSpec == MCInit /\ [][MCNext]_<<focus, settingsVars, journalVars, approvalVars, clientVars,
                                  notifyVars, sharesVars, stagesVars, requestVars, accountVars,
                                  mcpVars, desktopVars, remoteVars, windowVars>>
=================================================================================
