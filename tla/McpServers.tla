------------------------------- MODULE McpServers -------------------------------
(***************************************************************************)
(* The user's MCP servers (aicoder/mcp_service.py, mcp_credentials.py,     *)
(* mcp_oauth.py, mcp_registry.py).  What is known of a server is in one    *)
(* file, its credential in the keyring of the operating system; the window *)
(* and the command line change both and try the server out, and agents use *)
(* it, which may renew its tokens.  There is no lock: a change that fails  *)
(* half-way is undone from copies that were taken when it began.  Reads of *)
(* the keyring are quiet: a secret that cannot be read counts as not there.*)
(*                                                                         *)
(* A session with a server is its requests; what they carry is left out.   *)
(* A credential is one number, the secrets of OAuth are two; when a token  *)
(* runs out is left open.                                                  *)
(***************************************************************************)
EXTENDS Naturals, Sequences, FiniteSets

CONSTANTS
  McpServers,  \* names
  McpUsers,    \* the window, the command line, agents
  McpAgents,   \* those of them that only use the servers
  MaxMcpOps,   \* bound: what they do
  MaxIssued    \* bound: keys and tokens there are

ASSUME McpAssumption ==
  McpAgents \subseteq McpUsers /\ MaxMcpOps \in Nat /\ MaxIssued \in Nat \ {0}

VARIABLES
  registry, \* mcp_servers.json: of every server how it is reached, or NoServer
  vault,    \* the keyring: of every server its secrets
  grant,    \* of every server the tokens that it accepts
  given,   \* keys and tokens so far
  users,    \* what every user is doing
  mcpOps,
  \* History: servers that two users changed at a time, where a change was broken off or could
  \* not be undone, or where the keyring did not show a secret that was to go or to be kept.
  entangled

mcpVars == <<registry, vault, grant, given, users, mcpOps, entangled>>

\* "stdio" servers have no credential, "key" ones a key, "oauth" ones tokens.
NoServer == [kind |-> "none", enabled |-> FALSE]
Configs == [kind : {"stdio", "key", "oauth"}, enabled : {TRUE}]
NoSecrets == [key |-> 0, access |-> 0, refresh |-> 0]

\* Some of the secrets as in v, the others as in w: every field has an entry of its own.
Partly(v, w) ==
  [key : {v.key, w.key}, access : {v.access, w.access}, refresh : {v.refresh, w.refresh}]
\* get_mcp_secret() of all of them: those that the keyring does not give seem not to be there.
Seen(v) == Partly(v, NoSecrets)

NoOperation == [op |-> "none", at |-> "idle", on |-> CHOOSE s \in McpServers : TRUE,
            config |-> NoServer, key |-> FALSE, test |-> TRUE, undo |-> <<>>,
            list |-> <<>>, ask |-> "initialize", retried |-> FALSE, again |-> FALSE, token |-> 0,
            was |-> <<>>] \* history: what the server was when a change of it began

\* Settings and secrets that earlier sessions left.
McpInit ==
  /\ registry \in [McpServers -> {NoServer} \cup Configs]
  /\ vault = [s \in McpServers |->
       CASE registry[s].kind = "key" -> [NoSecrets EXCEPT !.key = 1]
         [] registry[s].kind = "oauth" -> [NoSecrets EXCEPT !.access = 1, !.refresh = 1]
         [] OTHER -> NoSecrets]
  /\ grant = [s \in McpServers |-> [access |-> vault[s].access, refresh |-> vault[s].refresh]]
  /\ given = 1
  /\ users = [u \in McpUsers |-> NoOperation] /\ mcpOps = 0 /\ entangled = {}

--------------------------------------------------------------------------------
Me(u) == users[u]
Server(u) == users[u].on
UserGoes(u, next) == users' = [users EXCEPT ![u] = next]
To(u, at) == UserGoes(u, [Me(u) EXCEPT !.at = at])
Others(u, s) == {v \in McpUsers \ {u} : users[v].at # "idle" /\ users[v].op # "use" /\ Server(v) = s}
stored == <<registry, vault, grant, given>>
Quiet == UNCHANGED <<stored, mcpOps, entangled>>

\* A failure leads to what is to be undone, in this order.
Unwind(u, steps) ==
  UserGoes(u, [NoOperation EXCEPT !.op = Me(u).op, !.on = Server(u), !.undo = steps, !.was = Me(u).was,
                          !.at = IF steps = <<>> THEN "failed" ELSE steps[1].what])
Fails(u) == Unwind(u, Me(u).undo)
\* The copies of the save within a sign-in are undone, and then those that were taken first.
Outermost(u) == Len(Me(u).undo) <= 2
\* What there was, as far as it was seen; history: what the keyring really had.
CopyOf(s, seen) ==
  [config |-> [what |-> "config", config |-> registry[s]],
   secrets |-> [what |-> "secrets", secrets |-> seen, real |-> vault[s]]]

OpBegins(u, op, at, s, c, key, test) ==
  /\ users[u] = NoOperation /\ mcpOps < MaxMcpOps /\ mcpOps' = mcpOps + 1
  /\ UserGoes(u, [NoOperation EXCEPT !.op = op, !.at = at, !.on = s, !.config = c, !.key = key,
                             !.test = test])
  /\ UNCHANGED <<stored, entangled>>

\* save_server() and authorize_and_save_server(), from the window's editor or `mcp add',
\* `set', `auth'.
SaveStarts(u, s) ==
  \E c \in Configs, key, test \in BOOLEAN :
    /\ key => c.kind = "key" /\ test
    /\ OpBegins(u, "save", "keep", s, c, key, test)
AuthorizeStarts(u, s) ==
  \/ \E c \in Configs : c.kind = "oauth" /\ OpBegins(u, "sign in, save", "keep", s, c, FALSE, TRUE)
  \/ registry[s].kind = "oauth" /\ OpBegins(u, "sign in", "keep", s, registry[s], FALSE, TRUE)
\* test_candidate(), test_server(): settings that are not saved, or those that are.
TestStarts(u, s) ==
  \/ \E c \in Configs, key \in BOOLEAN :
       /\ key => c.kind = "key"
       /\ OpBegins(u, "test", "keep", s, c, key, TRUE)
  \/ registry[s] # NoServer /\ OpBegins(u, "use", "connect", s, registry[s], FALSE, TRUE)
RemoveStarts(u, s) == registry[s] # NoServer /\ OpBegins(u, "remove", "keep", s, NoServer, FALSE, FALSE)
\* set_enabled(): what was read is put back with the flag changed.
ToggleStarts(u, s) ==
  /\ registry[s] # NoServer
  /\ OpBegins(u, "enable", "put", s, [registry[s] EXCEPT !.enabled = ~@], FALSE, FALSE)
\* external_tool_schemas(), call_external_tool(): an agent lists or calls tools.
UseStarts(u, s) == registry[s].enabled /\ OpBegins(u, "use", "connect", s, registry[s], FALSE, TRUE)

Keep(u) ==
  /\ Me(u).at = "keep"
  /\ \E seen \in Seen(vault[Server(u)]) :
       LET s == Server(u)
           copy == CopyOf(s, seen)
           level == CASE Me(u).op \in {"save", "sign in, save"} -> <<copy.secrets, copy.config>>
                      [] Me(u).op = "remove" -> <<copy.config, copy.secrets>>
                      [] OTHER -> <<copy.secrets>>
       IN UserGoes(u, [Me(u) EXCEPT !.undo = level \o @,
            !.was = IF @ = <<>> THEN <<registry[s], vault[s]>> ELSE @, !.at =
            IF Me(u).op = "remove" THEN "put" ELSE
            IF Me(u).op \in {"sign in", "sign in, save"} THEN "sign in" ELSE "supply"])
  /\ Quiet

Crosses(u, s, lost) ==
  entangled' = IF lost \/ Others(u, s) # {} \/ (Me(u).op = "use" /\ registry[s] # Me(u).config)
                 THEN entangled \cup {s} ELSE entangled
Leaves(u, secrets, lost) ==
  vault' = [vault EXCEPT ![Server(u)] = secrets] /\ Crosses(u, Server(u), lost)
SetsVault(u, secrets) == Leaves(u, secrets, FALSE)

\* Keys that were typed in go to the keyring before they are tried.
SupplyKey(u) ==
  /\ Me(u).at = "supply"
  /\ \/ /\ ~Me(u).key /\ To(u, "check") /\ UNCHANGED <<vault, given, entangled>>
     \/ /\ Me(u).key /\ given < MaxIssued /\ given' = given + 1
        /\ SetsVault(u, [vault[Server(u)] EXCEPT !.key = given + 1]) /\ To(u, "check")
     \/ Me(u).key /\ Fails(u) /\ UNCHANGED <<vault, given, entangled>>
  /\ UNCHANGED <<registry, grant, mcpOps>>

\* A test of new settings does without this check: the session fails.  (Here and below: the
\* keyring may always seem to have nothing.)
Check(u) ==
  /\ Me(u).at = "check"
  /\ LET needed == Me(u).op = "save" /\ Me(u).config.kind = "key"
     IN \/ needed /\ Fails(u)
        \/ /\ needed => vault[Server(u)].key # 0
           /\ To(u, IF Me(u).test THEN "connect" ELSE "put")
  /\ Quiet

--------------------------------------------------------------------------------
\* authorize_oauth(): the user signs in, in a browser, and the server issues tokens.
SignInServer(u) ==
  /\ Me(u).at = "sign in" /\ given < MaxIssued /\ given' = given + 1
  /\ grant' = [grant EXCEPT ![Server(u)] = [access |-> given + 1, refresh |-> given + 1]]
  /\ UserGoes(u, [Me(u) EXCEPT !.at = "store", !.token = given + 1])
  /\ UNCHANGED <<registry, vault, mcpOps, entangled>>

\* No callback in time, one with another state or an error; the endpoint cannot be reached.
SignInFails(u) == Me(u).at = "sign in" /\ Fails(u) /\ Quiet

\* refresh_oauth_token(): the request is made with the token that is read here.
ReadRefresh(u) ==
  /\ Me(u).at = "refresh"
  /\ LET token == vault[Server(u)].refresh
     IN \/ Fails(u)
        \/ token # 0 /\ UserGoes(u, [Me(u) EXCEPT !.at = "renew", !.token = token])
  /\ Quiet

\* A server may replace the refresh token with every use of it, or keep it.
Renewed(u) ==
  /\ Me(u).at = "renew" /\ grant[Server(u)].refresh = Me(u).token
  /\ given < MaxIssued /\ given' = given + 1
  /\ \E rotates \in BOOLEAN :
       grant' = [grant EXCEPT ![Server(u)] =
                   [access |-> given + 1, refresh |-> IF rotates THEN given + 1 ELSE @.refresh]]
  /\ UserGoes(u, [Me(u) EXCEPT !.at = "store", !.token = given + 1])
  /\ UNCHANGED <<registry, vault, mcpOps, entangled>>

NotRenewed(u) == Me(u).at = "renew" /\ Fails(u) /\ Quiet

\* _store_token_response(): all of the answer.
Stored(u) ==
  LET s == Server(u)
      rotated == grant[s].refresh = Me(u).token \/ vault[s].refresh = 0
  IN [vault[s] EXCEPT !.access = Me(u).token,
                      !.refresh = IF rotated THEN Me(u).token ELSE @]
StoreTokens(u) ==
  /\ Me(u).at = "store" /\ SetsVault(u, Stored(u))
  /\ UserGoes(u, [Me(u) EXCEPT
       !.at = IF Me(u).op = "sign in, save" THEN "nested" ELSE "connect"])
  /\ UNCHANGED <<registry, grant, given, mcpOps>>

\* Or what there was before.  A token that was not seen then is removed, and one that the
\* keyring does not take back, or not remove, stays new.
StoreFails(u) ==
  /\ Me(u).at = "store" /\ Fails(u)
  /\ LET v == vault[Server(u)]
     IN \E access \in {0, v.access, Stored(u).access}, refresh \in {0, v.refresh, Stored(u).refresh} :
          SetsVault(u, [v EXCEPT !.access = access, !.refresh = refresh])
  /\ UNCHANGED <<registry, grant, given, mcpOps>>

\* The save within authorize_and_save_server() keeps copies of its own, tokens included.
SaveSignedIn(u) ==
  /\ Me(u).at = "nested" /\ UserGoes(u, [Me(u) EXCEPT !.op = "save", !.at = "keep"])
  /\ Quiet

--------------------------------------------------------------------------------
\* auth_headers(), for every request: the credential as it is seen now.  An access token that
\* is there may have run out, and one that has may count as good.
Connect(u) ==
  /\ Me(u).at = "connect"
  /\ LET v == vault[Server(u)] kind == Me(u).config.kind
     IN CASE kind = "stdio" -> To(u, "ask")
          [] kind = "key" -> Fails(u) \/ (v.key # 0 /\ To(u, "ask"))
          [] OTHER -> \/ To(u, "refresh")
                      \/ v.access # 0 /\ UserGoes(u, [Me(u) EXCEPT !.at = "ask", !.token = v.access])
  /\ Quiet

\* "initialize" is answered, and then the request the session was opened for.
SessionEnds(u) ==
  CASE Me(u).op = "save" ->
         UserGoes(u, [Me(u) EXCEPT !.at = "put", !.ask = "initialize", !.retried = FALSE,
                               !.again = FALSE, !.token = 0])
    [] Me(u).op = "test" -> Fails(u)
    [] OTHER -> UserGoes(u, NoOperation)
Answered_mcp(u) ==
  /\ Me(u).at = "ask"
  /\ Me(u).config.kind = "oauth" => Me(u).token = grant[Server(u)].access
  /\ IF Me(u).ask = "call" THEN SessionEnds(u)
     ELSE UserGoes(u, [Me(u) EXCEPT !.at = "connect", !.ask = "call", !.retried = Me(u).again,
                             !.token = 0])
  /\ Quiet

\* 401: tokens are renewed, once.
Unauthorized(u) ==
  /\ Me(u).at = "ask" /\ Me(u).config.kind = "oauth" /\ ~Me(u).retried
  /\ UserGoes(u, [Me(u) EXCEPT !.at = "refresh", !.retried = TRUE])
  /\ Quiet

\* 404: the server has forgotten the session.  It is opened again, once.
Forgotten(u) ==
  /\ Me(u).at = "ask" /\ Me(u).ask = "call" /\ Me(u).config.kind # "stdio" /\ ~Me(u).retried
  /\ UserGoes(u, [Me(u) EXCEPT !.at = "connect", !.ask = "initialize", !.again = TRUE])
  /\ Quiet

\* The server is not there, is too slow, answers with an error.
NotAnswered(u) == Me(u).at = "ask" /\ Fails(u) /\ Quiet

--------------------------------------------------------------------------------
\* MCPRegistry: the file is read here, and replaced in a later step.
ReadRegistry(u) ==
  /\ Me(u).at \in {"put", "config"}
  /\ IF Me(u).at = "config" /\ Me(u).op # "remove" /\ registry[Server(u)] = Me(u).undo[1].config
     THEN Unwind(u, Tail(Me(u).undo))
     ELSE UserGoes(u, [Me(u) EXCEPT !.at = IF @ = "put" THEN "write" ELSE "write back", !.list = registry])
  /\ Quiet

Overwrites(u) == {s \in McpServers : Me(u).list[s] # registry[s]}
Writes(u, c) ==
  /\ registry' = [Me(u).list EXCEPT ![Server(u)] = c]
  /\ entangled' = entangled \cup Overwrites(u)
                    \cup (IF Others(u, Server(u)) = {} THEN {} ELSE {Server(u)})

Write_mcp(u) ==
  /\ Me(u).at = "write" /\ Writes(u, Me(u).config)
  /\ UserGoes(u, IF Me(u).op = "enable" THEN NoOperation ELSE
             [Me(u) EXCEPT !.at = IF Me(u).op = "save" THEN "clean" ELSE "wipe", !.list = <<>>])
  /\ UNCHANGED <<vault, grant, given, mcpOps>>

WriteFails(u) ==
  /\ Me(u).at = "write" /\ UserGoes(u, [Me(u) EXCEPT !.at = "failing", !.list = <<>>])
  /\ Quiet

\* remove() and set_enabled() have nothing to undo yet.
Failing(u) ==
  /\ Me(u).at = "failing"
  /\ IF Me(u).op = "save" THEN Fails(u) ELSE UserGoes(u, NoOperation)
  /\ Quiet

\* Mutant: tokens are taken for a credential that every kind of settings uses.
Used_Tokens(kind, v) == IF kind = "key" THEN v ELSE [v EXCEPT !.key = 0]

\* _cleanup_obsolete_auth_fields(): the secrets that the settings do not use.
Used(kind, v) ==
  CASE kind = "key" -> [NoSecrets EXCEPT !.key = v.key]
    [] kind = "oauth" -> [v EXCEPT !.key = 0]
    [] OTHER -> NoSecrets

\* A secret that is not seen is not removed.
Clean(u) ==
  /\ Me(u).at \in {"clean", "wipe"} /\ UserGoes(u, NoOperation)
  /\ LET used == Used(Me(u).config.kind, vault[Server(u)])
     IN \E w \in Partly(vault[Server(u)], used) : Leaves(u, w, w # used)
  /\ UNCHANGED <<registry, grant, given, mcpOps>>

\* The keyring fails at one of them; others would be gone by then.
CleanFails(u) ==
  /\ Me(u).at \in {"clean", "wipe"} /\ Fails(u)
  /\ \E w \in Partly(vault[Server(u)], Used(Me(u).config.kind, vault[Server(u)])) : SetsVault(u, w)
  /\ UNCHANGED <<registry, grant, given, mcpOps>>

\* Mutant: what was not there before is left.
Restored_Adds(u) ==
  LET was == Me(u).undo[1].secrets
  IN [was EXCEPT !.key = IF @ # 0 THEN @ ELSE vault[Server(u)].key]

\* restore_mcp_secrets()
Restored(u) == Me(u).undo[1].secrets

\* One that was not there before stays, if it is not seen or not removed.
UndoSecrets(u) ==
  /\ Me(u).at = "secrets" /\ Unwind(u, Tail(Me(u).undo))
  /\ LET back == Restored(u)
     IN \E w \in Partly(vault[Server(u)], back) :
          /\ w.key = back.key \/ back.key = 0
          /\ w.access = back.access \/ back.access = 0
          /\ w.refresh = back.refresh \/ back.refresh = 0
          /\ Leaves(u, w, Outermost(u) /\ ~(Me(u).undo[1].secrets = Me(u).undo[1].real /\ w = back))
  /\ UNCHANGED <<registry, grant, given, mcpOps>>

\* The keyring does not take one of them back, which ends this level of the undo.
UndoSecretsFails(u) ==
  /\ Me(u).at = "secrets"
  /\ Unwind(u, IF Outermost(u) THEN <<>> ELSE Tail(Tail(Me(u).undo)))
  /\ \E w \in Partly(vault[Server(u)], Restored(u)) : Leaves(u, w, Outermost(u))
  /\ UNCHANGED <<registry, grant, given, mcpOps>>

UndoConfig(u) ==
  /\ Me(u).at = "write back" /\ Writes(u, Me(u).undo[1].config)
  /\ Unwind(u, Tail(Me(u).undo))
  /\ UNCHANGED <<vault, grant, given, mcpOps>>

\* The file cannot be written: remove_server() leaves the secrets then, too.
UndoConfigFails(u) ==
  /\ Me(u).at = "write back"
  /\ Unwind(u, IF Outermost(u) THEN <<>> ELSE Tail(Me(u).undo))
  /\ entangled' = IF Outermost(u) THEN entangled \cup {Server(u)} ELSE entangled
  /\ UNCHANGED <<stored, mcpOps>>

\* The error is shown.
Failed(u) == Me(u).at = "failed" /\ UserGoes(u, NoOperation) /\ Quiet

\* Ctrl+C, or the process is killed: no undo begins, or goes on (`except Exception').  What
\* goes to the keyring secret by secret may be there in part.
Interrupted(u) ==
  /\ Me(u).at # "idle" /\ UserGoes(u, NoOperation)
  /\ LET s == Server(u)
         goal == CASE Me(u).at = "store" -> Stored(u)
                   [] Me(u).at \in {"clean", "wipe"} -> Used(Me(u).config.kind, vault[s])
                   [] Me(u).at = "secrets" -> Restored(u)
                   [] OTHER -> vault[s]
     IN \E w \in Partly(vault[s], goal) : Leaves(u, w, Me(u).undo # <<>>)
  /\ UNCHANGED <<registry, grant, given, mcpOps>>

\* test_candidate() undoes what it did after Ctrl+C, too (`finally').
TestStopped(u) ==
  /\ Me(u).op = "test" /\ Me(u).at \in {"supply", "check", "connect", "ask", "refresh", "renew", "store"}
  /\ Fails(u) /\ Quiet

--------------------------------------------------------------------------------
McpUserStep(u) ==
  \/ \E s \in McpServers :
       \/ /\ u \notin McpAgents
          /\ \/ SaveStarts(u, s) \/ AuthorizeStarts(u, s) \/ TestStarts(u, s)
             \/ RemoveStarts(u, s) \/ ToggleStarts(u, s)
       \/ u \in McpAgents /\ UseStarts(u, s)
  \/ Keep(u) \/ SupplyKey(u) \/ Check(u) \/ SignInServer(u) \/ SignInFails(u) \/ ReadRefresh(u)
  \/ Renewed(u) \/ NotRenewed(u) \/ StoreTokens(u) \/ StoreFails(u) \/ SaveSignedIn(u)
  \/ Connect(u) \/ Answered_mcp(u) \/ Unauthorized(u) \/ Forgotten(u) \/ NotAnswered(u)
  \/ ReadRegistry(u) \/ Write_mcp(u) \/ WriteFails(u) \/ Failing(u) \/ Clean(u) \/ CleanFails(u)
  \/ UndoSecrets(u) \/ UndoSecretsFails(u) \/ UndoConfig(u) \/ UndoConfigFails(u) \/ Failed(u)
  \/ Interrupted(u) \/ TestStopped(u)

McpNext == \E u \in McpUsers : McpUserStep(u)

McpSpec == McpInit /\ [][McpNext]_mcpVars

--------------------------------------------------------------------------------
\* Whatever sequence of saves, sign-ins, tests, removals and failures came before, and however
\* often the keyring seemed to have nothing: while nobody is changing a server, the keyring
\* holds the key its settings need, and nothing for settings it does not have.  (Unless two
\* users changed it at a time, a change was broken off or its undo failed, or the keyring did
\* not show a secret that was to be removed, or that a failed change was to put back.)
AtWork(s) == \E u \in McpUsers : users[u].at # "idle" /\ Server(u) = s
CredentialsFit ==
  \A s \in McpServers \ entangled : ~AtWork(s) =>
    /\ (registry[s].kind = "key") = (vault[s].key # 0)
    /\ registry[s].kind # "oauth" => vault[s].access = 0 /\ vault[s].refresh = 0

\* A change or a test that fails, in whatever step, and after however many keys and tokens
\* went to the keyring, leaves settings and secrets as they were when it began, even if the
\* undo of a save within a sign-in fails.  (With the same exceptions.)
FailedIsUndone ==
  \A u \in McpUsers : Me(u).at = "failed" /\ Me(u).was # <<>> /\ Server(u) \notin entangled =>
    registry[Server(u)] = Me(u).was[1] /\ vault[Server(u)] = Me(u).was[2]
================================================================================
