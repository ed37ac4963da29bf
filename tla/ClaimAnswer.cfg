SPECIFICATION MCSpec
CONSTANTS
  Focus = {"approval"}
\* SettingsStore
  Stores = {gui, cli}
  Keys = {model, mode}
  Values = {dflt, other}
  Default = dflt
  Missing = missing
  Corrupt = corrupt
  NoStore = nostore
  MaxOps = 3
  MaxDamage = 1
\* ChangeJournal
  Agents = {a1, a2}
  Files = {f, g}
  LeftOut = {g}
  SettingsFile = settings
  Contents = {x, long, clipped}
  Absent = absent
  Directory = directory
  Long = {long}
  Clipped = clipped
  NoCall = nocall
  MaxCalls = 1
  MaxEdits = 2
\* Approval
  MaxApprovals = 3
  MaxRuns = 2
  Calls <- MCCalls
\* ClientSession
  c1 = c1
  Lanes = {l1, l2}
  Clients = {c1}
  ClientOf <- MCClientOf
  Users = {u1, u2}
  NoUser = nouser
  NoLane = nolane
  RequestKinds = {"read", "chat"}
  MaxTokens = 3
  MaxRequests = 2
  MaxLogins = 1
\* SharedNotify
  t1 = t1
  t2 = t2
  win = win
  cli = cli
  Pollers = {t1, t2}
  Processes = {win, cli}
  ProcessOf <- MCProcessOf
  Windows = {win}
  MessageKinds = {"chat", "ai", "request"}
  QueueLimit = 1
  MaxMessages = 2
  MaxRpcs = 1
  MaxExits = 1
\* NotifyShares
  Actors = {a1, a2}
  Servers = {s1, s2}
  MaxChanges = 3
  MaxRetires = 1
\* TeamStages
  Researchers = {r1}
  Thinkers = {m1}
  Lead = lead
  Rounds = 2
  RunSettings <- MCRunSettings
  MaxStageResumes = 1
\* ModelRequests
  Askers = {a1, a2}
  Providers = {"api", "cli", "codex"}
  TransportOf <- MCTransportOf
  MaxAsks = 2
  MaxKeys = 1
\* ProviderAccounts
  Accounts = {"claude", "chatgpt", "gemini"}
  AccountUsers = {a1, a2}
  MaxAccountOps = 2
  MaxSessions = 2
\* McpServers
  McpServers = {m1}
  McpUsers = {a1, a2}
  McpAgents = {a2}
  MaxMcpOps = 2
  MaxIssued = 2
\* Desktop
  Chats = {b1, b2}
  NoChat = nochat
  MaxQuestions = 2
  MaxTurns = 2
  MaxHeard = 1
\* RemoteNode
  MaxRemoteCalls = 3
  MaxUserSaves = 1
  MaxNodeEnds = 1
\* SettingsWindow
  InForm = {"swarm"}
  Paired = {"model", "timeout"}
  AtOnce = {"model"}
  Editable = {"model"}
  NoItem = noitem
  MaxPresses = 2
  MaxOutside = 2
INVARIANTS DeletionsAreConfirmed
CHECK_DEADLOCK FALSE
