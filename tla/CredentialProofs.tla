--------------------------- MODULE CredentialProofs ---------------------------
(***************************************************************************)
(* The credentials this machine keeps, for any number of threads,          *)
(* accounts, users and servers: a session that was refused is not linked   *)
(* again, and the secrets of an MCP server fit its configuration however   *)
(* many operations on it run, fail or are undone.                          *)
(***************************************************************************)
EXTENDS ProviderAccounts, McpServers, TLAPS

--------------------------------------------------------------------------------
(* Accounts.  That a refused Claude session is not linked again rests on      *)
(* three facts about the threads: one worker of the window at a time works on *)
(* an account, so the session it links is the one it signed in to; a session  *)
(* that is signed in was never refused; and whoever has found a session       *)
(* refused is on its way to take the account from the list.                   *)

AccountNames == {"claude", "chatgpt", "gemini"}
ActSteps == {"idle", "quota?", "probe", "probed", "write", "login", "ask", "answer", "connect",
             "disconnect"}
ActKinds == {"none", "status", "chat", "connect", "disconnect"}
Act == [what : ActKinds, at : ActSteps, on : AccountNames, marked : BOOLEAN,
        list : SUBSET AccountNames, add : BOOLEAN, of : Nat, then : {"end", "login"}]
Session == [nr : Nat, state : {"in", "out", "revoked"}]

AccountsTypeInv ==
  /\ linked \subseteq AccountNames /\ acts \in [AccountUsers -> Act] /\ overlapped \in BOOLEAN
  /\ signedIn \in [Accounts -> Session] /\ linkedFor \in [Accounts -> Nat]
  /\ refused \subseteq Accounts \X Nat

\* What a thread holds is of a session there was; what it adds is of the last one.
ActOK(q, s) ==
  /\ q.at # "idle" => q.on \in Accounts
  /\ q.at \in {"connect", "login"} \/ q.then = "login" => q.what = "connect"
  /\ q.at = "quota?" => q.what = "chat"
  /\ q.at = "answer" => q.of <= s[q.on].nr
  /\ q.at = "write" /\ q.add /\ q.on = "claude" => q.what = "connect" /\ q.of = s["claude"].nr
ActsFit == \A u \in AccountUsers : ActOK(acts[u], signedIn)

OneWorker ==
  \A u, v \in AccountUsers :
    acts[u].what \in {"connect", "disconnect"} /\ acts[v].what \in {"connect", "disconnect"}
      /\ acts[u].on = acts[v].on => u = v

\* A session that was refused is over.
RefusedAreOver ==
  \A p \in Accounts : \A n \in Nat :
    <<p, n>> \in refused =>
      n <= signedIn[p].nr /\ (signedIn[p].state = "in" => n # signedIn[p].nr)

AccountsInv == AccountsTypeInv /\ ActsFit /\ OneWorker /\ RefusedAreOver /\ RefusedStaysOut

\* A thread that does nothing says nothing of any session.
LEMMA InactiveAct == Inactive \in Act /\ Inactive.what = "none" /\ \A s : ActOK(Inactive, s)
BY DEF Inactive, Act, ActKinds, ActSteps, AccountNames, ActOK

\* Before anybody does anything.
LEMMA AccountsInitInv == AccountsInit => AccountsInv
<1> SUFFICES ASSUME AccountsInit PROVE AccountsInv
  OBVIOUS
<1>1. \A u \in AccountUsers : acts[u] = Inactive
  BY DEF AccountsInit
<1>2. refused = {} /\ overlapped = FALSE /\ acts = [u \in AccountUsers |-> Inactive]
  BY DEF AccountsInit
<1>3. AccountsTypeInv
  <2>1. linked \subseteq AccountNames
    BY AccountsAssumption DEF AccountsInit, AccountNames
  <2>2. signedIn \in [Accounts -> Session] /\ linkedFor \in [Accounts -> Nat]
    BY DEF AccountsInit, Session
  <2>3. QED
    BY <1>2, <2>1, <2>2, InactiveAct DEF AccountsTypeInv
<1>4. ActsFit /\ OneWorker
  BY <1>1, InactiveAct DEF ActsFit, OneWorker
<1>5. RefusedAreOver /\ RefusedStaysOut
  BY <1>2 DEF RefusedAreOver, RefusedStaysOut
<1>6. QED
  BY <1>3, <1>4, <1>5 DEF AccountsInv

\* Sessions are lost, or stay; none is new.
SessionsLost ==
  /\ signedIn' \in [Accounts -> Session]
  /\ \A p \in Accounts : /\ signedIn'[p].nr = signedIn[p].nr
                         /\ signedIn'[p].state = "in" => signedIn[p].state = "in"

\* Sessions that are only lost leave what is known of them true.
LEMMA LostStays ==
  ASSUME AccountsInv, SessionsLost, UNCHANGED refused
  PROVE /\ RefusedAreOver'
        /\ \A q \in Act : ActOK(q, signedIn) => ActOK(q, signedIn')
<1>1. RefusedAreOver'
  BY DEF AccountsInv, RefusedAreOver, SessionsLost
<1>2. ASSUME NEW q \in Act, ActOK(q, signedIn) PROVE ActOK(q, signedIn')
  <2>1. q.on \in Accounts => signedIn'[q.on].nr = signedIn[q.on].nr
    BY DEF SessionsLost
  <2>2. QED
    BY <1>2, <2>1 DEF ActOK
<1>3. QED
  BY <1>1, <1>2

\* A thread that was not writing the list goes on; sessions may be lost.
LEMMA ActBecomes ==
  ASSUME AccountsInv, NEW u \in AccountUsers, NEW q \in Act, acts[u].at # "write",
         acts' = [acts EXCEPT ![u] = q], UNCHANGED <<linked, overlapped, linkedFor, refused>>,
         SessionsLost, ActOK(q, signedIn),
         q.what \in {"connect", "disconnect"} =>
           \/ acts[u].what \in {"connect", "disconnect"} /\ acts[u].on = q.on
           \/ Settings(q.on) = {}
  PROVE AccountsInv'
<1>1. \A v \in AccountUsers : acts'[v] = IF v = u THEN q ELSE acts[v]
  BY DEF AccountsInv, AccountsTypeInv
<1>2. AccountsTypeInv'
  BY DEF AccountsInv, AccountsTypeInv, SessionsLost
<1>3. RefusedAreOver' /\ \A v \in AccountUsers : ActOK(acts'[v], signedIn')
  <2>1. \A v \in AccountUsers : acts[v] \in Act /\ ActOK(acts[v], signedIn)
    BY DEF AccountsInv, AccountsTypeInv, ActsFit
  <2>2. QED
    BY <1>1, <2>1, LostStays
<1>4. OneWorker'
  <2>1. Settings(q.on) = {} => \A v \in AccountUsers :
          acts[v].what \in {"connect", "disconnect"} => acts[v].on # q.on
    BY DEF Settings, On
  <2>2. QED
    BY <1>1, <2>1 DEF AccountsInv, OneWorker
<1>5. RefusedStaysOut'
  <2>1. Unlinking("claude") => Unlinking("claude")'
    BY <1>1 DEF Unlinking, On
  <2>2. QED
    BY <2>1 DEF AccountsInv, RefusedStaysOut
<1>6. QED
  BY <1>2, <1>3, <1>4, <1>5 DEF AccountsInv, ActsFit

\* A step that leaves the sessions alone loses none.
LEMMA SessionsStay == ASSUME AccountsInv, UNCHANGED signedIn PROVE SessionsLost
BY DEF AccountsInv, AccountsTypeInv, SessionsLost

\* A thread ends what it did.
LEMMA ActEndsKeeps ==
  ASSUME AccountsInv, NEW u \in AccountUsers, acts[u].at # "write", ActEnds(u),
         UNCHANGED <<linked, overlapped, linkedFor, refused, signedIn>>
  PROVE AccountsInv'
BY InactiveAct, SessionsStay, ActBecomes DEF ActEnds

\* A thread goes on with the same account.
LEMMA ActGoesKeeps ==
  ASSUME AccountsInv, NEW u \in AccountUsers, NEW at \in ActSteps \ {"write", "answer", "idle", "quota?"},
         at \in {"login", "connect"} => acts[u].what = "connect",
         acts[u].at \notin {"write", "idle"}, ActGoes(u, at),
         UNCHANGED <<linked, overlapped, linkedFor, refused, signedIn>>
  PROVE AccountsInv'
<1> DEFINE q == [acts[u] EXCEPT !.at = at]
<1>1. acts[u] \in Act /\ ActOK(acts[u], signedIn)
  BY DEF AccountsInv, AccountsTypeInv, ActsFit
<1>2. q \in Act /\ q.what = acts[u].what /\ q.on = acts[u].on /\ q.then = acts[u].then /\ q.at = at
  BY <1>1 DEF Act
<1>3. acts' = [acts EXCEPT ![u] = q]
  BY DEF ActGoes
<1> HIDE DEF q
<1>4. ActOK(q, signedIn)
  BY <1>1, <1>2 DEF ActOK
<1>5. QED
  BY <1>2, <1>3, <1>4, SessionsStay, ActBecomes

\* What a thread holds when it has read the list: to add Claude, it is the one worker that
\* signed in to a session nobody was refused.
LEMMA ListTaken ==
  ASSUME AccountsInv, NEW u \in AccountUsers, acts[u].at # "idle", NEW add \in BOOLEAN,
         add /\ On(u) = "claude" => /\ signedIn["claude"].state = "in"
                                    /\ acts[u].what = "connect"
  PROVE /\ WithList(u, add) \in Act /\ ActOK(WithList(u, add), signedIn)
        /\ WithList(u, add).what = acts[u].what /\ WithList(u, add).on = acts[u].on
        /\ WithList(u, add).at = "write" /\ WithList(u, add).add = add
<1> DEFINE s == <<On(u), signedIn[On(u)].nr>>
           of == IF add /\ s \notin refused THEN s[2] ELSE 0
<1>1. acts[u] \in Act /\ ActOK(acts[u], signedIn) /\ On(u) = acts[u].on
  BY DEF AccountsInv, AccountsTypeInv, ActsFit, On
<1>2. On(u) \in Accounts
  BY <1>1 DEF ActOK
<1>3. signedIn[On(u)].nr \in Nat /\ s[2] = signedIn[On(u)].nr /\ of \in Nat
  BY <1>2 DEF AccountsInv, AccountsTypeInv, Session
<1>4. add /\ On(u) = "claude" => of = signedIn["claude"].nr
  <2>1. ASSUME add, On(u) = "claude" PROVE s \notin refused
    BY <1>2, <1>3, <2>1 DEF AccountsInv, RefusedAreOver
  <2>2. QED
    BY <1>3, <2>1
<1>5. WithList(u, add) = [acts[u] EXCEPT !.at = "write", !.list = linked, !.add = add, !.of = of]
  BY DEF WithList
<1> HIDE DEF of
<1>6. linked \in SUBSET AccountNames
  BY DEF AccountsInv, AccountsTypeInv
<1> DEFINE q == WithList(u, add)
<1>7. q \in Act
  BY <1>1, <1>3, <1>5, <1>6 DEF Act, ActSteps
<1>8. /\ q.what = acts[u].what /\ q.on = acts[u].on /\ q.then = acts[u].then
      /\ q.at = "write" /\ q.add = add /\ q.of = of
  BY <1>1, <1>5 DEF Act
<1> HIDE DEF q
<1>9. ActOK(q, signedIn)
  BY <1>1, <1>2, <1>4, <1>8 DEF ActOK
<1>10. QED
  BY <1>7, <1>8, <1>9 DEF q

\* Taking the list of linked accounts to change it; only a session just signed in to is added.
LEMMA TakesListKeeps ==
  ASSUME AccountsInv, NEW u \in AccountUsers, acts[u].at \notin {"idle", "write"},
         NEW add \in BOOLEAN, TakesList(u, add),
         add /\ On(u) = "claude" => /\ signedIn["claude"].state = "in"
                                    /\ acts[u].what = "connect",
         UNCHANGED <<linked, overlapped, linkedFor, refused>>, SessionsLost
  PROVE AccountsInv'
BY ListTaken, ActBecomes DEF TakesList

--------------------------------------------------------------------------------
\* The window or an agent begins something.
LEMMA StartsKeeps ==
  ASSUME AccountsInv, NEW u \in AccountUsers, NEW p \in Accounts,
         StatusStarts(u, p) \/ ChatStarts(u, p) \/ ConnectStarts(u, p) \/ DisconnectStarts(u, p)
  PROVE AccountsInv'
<1>1. PICK what \in ActKinds \ {"none"}, at \in {"probe", "quota?", "connect", "disconnect"} :
        /\ ActStarts(u, what, p, at)
        /\ at = "quota?" => what = "chat"
        /\ at = "connect" => what = "connect"
        /\ what \in {"connect", "disconnect"} => Settings(p) = {}
  <2>1. CASE StatusStarts(u, p)
    BY <2>1 DEF StatusStarts, ActKinds
  <2>2. CASE ChatStarts(u, p)
    BY <2>2 DEF ChatStarts, ActKinds
  <2>3. CASE ConnectStarts(u, p)
    BY <2>3 DEF ConnectStarts, ActKinds
  <2>4. CASE DisconnectStarts(u, p)
    BY <2>4 DEF DisconnectStarts, ActKinds
  <2>5. QED
    BY <2>1, <2>2, <2>3, <2>4
<1> DEFINE mark == p \in linked
           q == [Inactive EXCEPT !.what = what, !.on = p, !.at = at, !.marked = mark]
<1>2. acts[u] = Inactive /\ acts' = [acts EXCEPT ![u] = q]
      /\ UNCHANGED <<linked, overlapped, linkedFor, refused, signedIn>>
  BY <1>1 DEF ActStarts, listing, outside
<1>3. p \in AccountNames
  BY AccountsAssumption DEF AccountNames
<1>4. mark \in BOOLEAN
  OBVIOUS
<1> HIDE DEF mark
<1>5. q \in Act
  BY <1>1, <1>3, <1>4 DEF Act, ActKinds, ActSteps, Inactive
<1>6. q.what = what /\ q.on = p /\ q.at = at /\ q.then = "end"
  BY DEF Inactive
<1> HIDE DEF q
<1>7. ActOK(q, signedIn)
  BY <1>1, <1>6 DEF ActOK
<1>8. acts[u].at # "write"
  BY <1>2 DEF Inactive
<1>9. QED
  BY <1>1, <1>2, <1>5, <1>6, <1>7, <1>8, SessionsStay, ActBecomes

\* Its quota sends a request to another account.
LEMMA RerouteKeeps == ASSUME AccountsInv, NEW u \in AccountUsers, Reroute(u) PROVE AccountsInv'
<1>1. PICK p \in Accounts :
        acts' = [acts EXCEPT ![u].on = p, ![u].marked = p \in linked, ![u].at = "probe"]
  BY DEF Reroute
<1> DEFINE mark == p \in linked
           q == [acts[u] EXCEPT !.on = p, !.marked = mark, !.at = "probe"]
<1>2. acts[u] \in Act /\ ActOK(acts[u], signedIn) /\ acts[u].at = "quota?"
  BY DEF Reroute, AccountsInv, AccountsTypeInv, ActsFit
<1>3. p \in AccountNames
  BY AccountsAssumption DEF AccountNames
<1>4. mark \in BOOLEAN
  OBVIOUS
<1>5. acts' = [acts EXCEPT ![u] = q]
  BY <1>1
<1> HIDE DEF mark
<1>6. q \in Act
  BY <1>2, <1>3, <1>4 DEF Act, ActSteps
<1>7. q.what = "chat" /\ q.on = p /\ q.at = "probe" /\ q.then = acts[u].then
  BY <1>2 DEF Act, ActOK
<1> HIDE DEF q
<1>8. ActOK(q, signedIn)
  BY <1>2, <1>7 DEF ActOK
<1>9. UNCHANGED <<linked, overlapped, linkedFor, refused, signedIn>>
  BY DEF Reroute, listing, outside
<1>10. QED
  BY <1>2, <1>6, <1>7, <1>5, <1>8, <1>9, SessionsStay, ActBecomes

\* The account's status: the thread goes on, ends, or is to take the account from the list.
LEMMA ProbeKeeps ==
  ASSUME AccountsInv, NEW u \in AccountUsers,
         KeepAccount(u) \/ StatusProbe(u) \/ ChatGPTProbe(u) \/ ChatGPTProbed(u)
  PROVE AccountsInv'
<1>1. /\ UNCHANGED <<linked, overlapped, linkedFor, refused, signedIn>>
      /\ acts[u].at \notin {"write", "idle"}
      /\ \/ ActEnds(u) \/ TakesList(u, FALSE)
         \/ \E at \in {"probe", "probed", "ask"} : ActGoes(u, at)
  <2>1. CASE KeepAccount(u)
    BY <2>1 DEF KeepAccount, listing, outside
  <2>2. CASE StatusProbe(u)
    BY <2>2 DEF StatusProbe, Probed, listing, outside
  <2>3. CASE ChatGPTProbe(u) \/ ChatGPTProbed(u)
    BY <2>3 DEF ChatGPTProbe, ChatGPTProbed, listing, outside
  <2>4. QED
    BY <2>1, <2>2, <2>3
<1>2. CASE ActEnds(u)
  BY <1>1, <1>2, ActEndsKeeps
<1>3. CASE TakesList(u, FALSE)
  BY <1>1, <1>3, SessionsStay, TakesListKeeps
<1>4. ASSUME NEW at \in {"probe", "probed", "ask"}, ActGoes(u, at) PROVE AccountsInv'
  <2>1. at \in ActSteps \ {"write", "answer", "idle", "quota?"} /\ at \notin {"login", "connect"}
    BY DEF ActSteps
  <2>2. QED
    BY <1>1, <1>4, <2>1, ActGoesKeeps
<1>5. QED
  BY <1>1, <1>2, <1>3, <1>4

\* The list is replaced as a whole: without overlap it is as it was but for the account.
LEMMA WriteListKeeps == ASSUME AccountsInv, NEW u \in AccountUsers, WriteList(u) PROVE AccountsInv'
<1> DEFINE q == IF acts[u].then = "login" THEN [acts[u] EXCEPT !.at = "login", !.then = "end"]
                ELSE Inactive
           nr == signedIn[acts[u].on].nr
<1>1. acts[u] \in Act /\ ActOK(acts[u], signedIn) /\ acts[u].at = "write"
  BY DEF WriteList, AccountsInv, AccountsTypeInv, ActsFit
<1>2. acts' = [acts EXCEPT ![u] = q] /\ UNCHANGED <<signedIn, refused>>
  BY DEF WriteList, ActEnds, outside
<1>3. /\ linked' = IF acts[u].add THEN acts[u].list \cup {acts[u].on}
                   ELSE acts[u].list \ {acts[u].on}
      /\ ~overlapped' => /\ ~overlapped /\ acts[u].list = linked
                         /\ <<acts[u].on, acts[u].of>> \notin refused
      /\ linkedFor' = IF acts[u].add THEN [linkedFor EXCEPT ![acts[u].on] = nr] ELSE linkedFor
      /\ overlapped' \in BOOLEAN
  BY DEF WriteList, On, AccountsInv, AccountsTypeInv
<1>4. acts[u].on \in Accounts /\ nr \in Nat /\ acts[u].list \subseteq AccountNames
      /\ acts[u].on \in AccountNames
  BY <1>1 DEF ActOK, AccountsInv, AccountsTypeInv, Session, Act
<1>5. q \in Act /\ ActOK(q, signedIn) /\ q.at # "write"
      /\ (q.what = "none" \/ (q.what = acts[u].what /\ q.on = acts[u].on))
  <2>1. CASE acts[u].then = "login"
    <3>1. q \in Act
      BY <1>1, <2>1 DEF Act, ActSteps
    <3>2. q.what = acts[u].what /\ q.on = acts[u].on /\ q.at = "login" /\ q.then = "end"
      BY <1>1, <2>1 DEF Act
    <3> HIDE DEF q
    <3>3. QED
      BY <1>1, <2>1, <3>1, <3>2 DEF ActOK
  <2>2. CASE acts[u].then # "login"
    BY <2>2, InactiveAct DEF Inactive
  <2>3. QED
    BY <2>1, <2>2
<1> HIDE DEF q
<1>6. \A v \in AccountUsers : acts'[v] = IF v = u THEN q ELSE acts[v]
  BY <1>2 DEF AccountsInv, AccountsTypeInv
<1>7. linked' \subseteq AccountNames /\ linkedFor' \in [Accounts -> Nat]
  BY <1>3, <1>4 DEF AccountsInv, AccountsTypeInv
<1>8. AccountsTypeInv'
  BY <1>2, <1>3, <1>5, <1>7 DEF AccountsInv, AccountsTypeInv
<1>9. ActsFit' /\ RefusedAreOver'
  BY <1>2, <1>5, <1>6 DEF AccountsInv, ActsFit, RefusedAreOver
<1>10. OneWorker'
  BY <1>5, <1>6 DEF AccountsInv, OneWorker
<1>11. RefusedStaysOut'
  <2> SUFFICES ASSUME "claude" \in linked', ~overlapped'
               PROVE <<"claude", linkedFor'["claude"]>> \notin refused' \/ Unlinking("claude")'
    BY DEF RefusedStaysOut
  <2>1. CASE acts[u].on = "claude"
    <3>1. acts[u].add
      BY <1>3, <2>1
    <3>2. linkedFor'["claude"] = nr /\ acts[u].of = nr
      BY <1>1, <1>3, <1>4, <2>1, <3>1 DEF ActOK, AccountsInv, AccountsTypeInv
    <3>3. QED
      BY <1>2, <1>3, <2>1, <3>2
  <2>2. CASE acts[u].on # "claude"
    <3>1. "claude" \in linked /\ ~overlapped
      BY <1>3, <2>2
    <3>2. linkedFor'["claude"] = linkedFor["claude"]
      BY <1>3, <2>2 DEF AccountsInv, AccountsTypeInv
    <3>3. Unlinking("claude") => Unlinking("claude")'
      BY <1>6, <2>2 DEF Unlinking, On
    <3>4. QED
      BY <1>2, <3>1, <3>2, <3>3 DEF AccountsInv, RefusedStaysOut
  <2>3. QED
    BY <2>1, <2>2
<1>12. QED
  BY <1>8, <1>9, <1>10, <1>11 DEF AccountsInv

\* A request is answered, or the quota is used up.
LEMMA ChatKeeps ==
  ASSUME AccountsInv, NEW u \in AccountUsers, Chat(u) \/ ChatAnswers(u) \/ QuotaExhausted(u)
  PROVE AccountsInv'
<1>1. CASE ChatAnswers(u) \/ QuotaExhausted(u)
  <2>1. acts[u].at = "answer" /\ ActEnds(u)
    BY <1>1 DEF ChatAnswers, QuotaExhausted
  <2>2. UNCHANGED <<linked, overlapped, linkedFor, refused, signedIn>>
    BY <1>1 DEF ChatAnswers, QuotaExhausted, listing, outside
  <2>3. QED
    BY <2>1, <2>2, ActEndsKeeps
<1>2. CASE Chat(u)
  <2> DEFINE q == [acts[u] EXCEPT !.at = "answer", !.of = signedIn[acts[u].on].nr]
  <2>1. acts[u] \in Act /\ ActOK(acts[u], signedIn) /\ acts[u].at = "ask"
        /\ acts' = [acts EXCEPT ![u] = q]
    BY <1>2 DEF Chat, On, AccountsInv, AccountsTypeInv, ActsFit
  <2>2. signedIn[acts[u].on].nr \in Nat /\ acts[u].on \in Accounts
    BY <2>1 DEF ActOK, AccountsInv, AccountsTypeInv, Session
  <2>3. q \in Act
    BY <2>1, <2>2 DEF Act, ActSteps
  <2>4. q.what = acts[u].what /\ q.on = acts[u].on /\ q.at = "answer" /\ q.then = acts[u].then
        /\ q.of = signedIn[q.on].nr
    BY <2>1 DEF Act
  <2> HIDE DEF q
  <2>5. ActOK(q, signedIn)
    BY <2>1, <2>2, <2>4 DEF ActOK
  <2>6. UNCHANGED <<linked, overlapped, linkedFor, refused, signedIn>>
    BY <1>2 DEF Chat, listing, outside
  <2>7. QED
    BY <2>1, <2>3, <2>4, <2>5, <2>6, SessionsStay, ActBecomes
<1>3. QED
  BY <1>1, <1>2

\* A refused session is over, and Claude is on its way out of the list.
LEMMA ChatRefusedKeeps ==
  ASSUME AccountsInv, NEW u \in AccountUsers, ChatRefused(u) PROVE AccountsInv'
<1> DEFINE q == IF acts[u].on = "claude" THEN WithList(u, FALSE) ELSE Inactive
<1>1. acts[u] \in Act /\ ActOK(acts[u], signedIn) /\ acts[u].at = "answer"
  BY DEF ChatRefused, AccountsInv, AccountsTypeInv, ActsFit
<1>2. /\ acts' = [acts EXCEPT ![u] = q] /\ UNCHANGED <<linked, overlapped, linkedFor, signedIn>>
      /\ refused' = refused \cup {<<acts[u].on, acts[u].of>>}
  BY DEF ChatRefused, TakesList, ActEnds, On, listing
<1>3. acts[u].on \in Accounts /\ acts[u].of \in Nat /\ acts[u].of <= signedIn[acts[u].on].nr
  BY <1>1 DEF ActOK, Act
<1>4. signedIn[acts[u].on].state = "in" => acts[u].of # signedIn[acts[u].on].nr
  <2>1. signedIn[acts[u].on] \in Session
    BY <1>3 DEF AccountsInv, AccountsTypeInv
  <2>2. signedIn[acts[u].on] # [nr |-> acts[u].of, state |-> "in"]
    BY DEF ChatRefused, StillIn, On
  <2>3. QED
    BY <2>1, <2>2 DEF Session
<1>5. q \in Act /\ ActOK(q, signedIn)
      /\ (q.what = "none" \/ (q.what = acts[u].what /\ q.on = acts[u].on))
      /\ (acts[u].on = "claude" => q.on = "claude" /\ q.at = "write" /\ ~q.add)
  <2>1. CASE acts[u].on = "claude"
    BY <1>1, <2>1, ListTaken
  <2>2. CASE acts[u].on # "claude"
    BY <2>2, InactiveAct
  <2>3. QED
    BY <2>1, <2>2
<1> HIDE DEF q
<1>6. \A v \in AccountUsers : acts'[v] = IF v = u THEN q ELSE acts[v]
  BY <1>2 DEF AccountsInv, AccountsTypeInv
<1>7. AccountsTypeInv' /\ ActsFit'
  BY <1>2, <1>3, <1>5, <1>6 DEF AccountsInv, AccountsTypeInv, ActsFit
<1>8. OneWorker'
  BY <1>5, <1>6 DEF AccountsInv, OneWorker
<1>9. RefusedAreOver'
  <2> SUFFICES ASSUME NEW p \in Accounts, NEW n \in Nat, <<p, n>> \in refused'
               PROVE n <= signedIn[p].nr /\ (signedIn[p].state = "in" => n # signedIn[p].nr)
    BY <1>2 DEF RefusedAreOver
  <2>1. <<p, n>> \in refused \/ (p = acts[u].on /\ n = acts[u].of)
    BY <1>2
  <2>2. QED
    BY <1>3, <1>4, <2>1 DEF AccountsInv, RefusedAreOver
<1>10. RefusedStaysOut'
  <2>1. CASE acts[u].on = "claude"
    <3>1. Unlinking("claude")'
      BY <1>5, <1>6, <2>1 DEF Unlinking, On
    <3>2. QED
      BY <3>1 DEF RefusedStaysOut
  <2>2. CASE acts[u].on # "claude"
    <3>1. Unlinking("claude") => Unlinking("claude")'
      BY <1>1, <1>6 DEF Unlinking, On
    <3>2. \A n : <<"claude", n>> \in refused' => <<"claude", n>> \in refused
      BY <1>2, <2>2
    <3>3. QED
      BY <1>2, <3>1, <3>2 DEF AccountsInv, RefusedStaysOut
  <2>3. QED
    BY <2>1, <2>2
<1>11. QED
  BY <1>7, <1>8, <1>9, <1>10 DEF AccountsInv

--------------------------------------------------------------------------------
\* Signing out only loses sessions.
LEMMA SignedOutLoses ==
  ASSUME AccountsInv, NEW p \in Accounts, SignedOut(p) \/ UNCHANGED signedIn PROVE SessionsLost
BY DEF AccountsInv, AccountsTypeInv, SignedOut, SessionsLost, Session

\* The window connects and disconnects accounts.
LEMMA ConnectKeeps ==
  ASSUME AccountsInv, NEW u \in AccountUsers, ConnectOther(u) \/ LoginEnds(u) \/ Disconnect(u)
  PROVE AccountsInv'
<1>1. acts[u].at \in {"connect", "login", "disconnect"} /\ ActOK(acts[u], signedIn)
      /\ On(u) \in Accounts /\ UNCHANGED <<linked, overlapped, linkedFor, refused>>
  BY DEF ConnectOther, LoginEnds, Disconnect, listing, outside, AccountsInv, ActsFit, ActOK, On
<1>2. CASE ConnectOther(u)
  <2>1. acts[u].what = "connect" /\ On(u) # "claude" /\ UNCHANGED signedIn
    BY <1>1, <1>2 DEF ConnectOther, ActOK, outside
  <2>2. TakesList(u, TRUE) \/ ActGoes(u, "login")
    BY <1>2 DEF ConnectOther
  <2>3. CASE TakesList(u, TRUE)
    BY <1>1, <2>1, <2>3, SessionsStay, TakesListKeeps
  <2>4. CASE ActGoes(u, "login")
    <3>1. "login" \in ActSteps \ {"write", "answer", "idle", "quota?"}
      BY DEF ActSteps
    <3>2. QED
      BY <1>1, <2>1, <2>4, <3>1, ActGoesKeeps
  <2>5. QED
    BY <2>2, <2>3, <2>4
<1>3. CASE LoginEnds(u)
  <2>1. acts[u].what = "connect" /\ UNCHANGED signedIn
    BY <1>1, <1>3 DEF LoginEnds, ActOK, outside
  <2>2. \/ TakesList(u, FALSE) \/ ActEnds(u)
        \/ TakesList(u, TRUE) /\ (On(u) = "claude" => signedIn["claude"].state = "in")
    BY <1>3 DEF LoginEnds
  <2>3. CASE ActEnds(u)
    BY <1>1, <2>1, <2>3, ActEndsKeeps
  <2>4. CASE TakesList(u, FALSE)
    BY <1>1, <2>1, <2>4, SessionsStay, TakesListKeeps
  <2>5. CASE TakesList(u, TRUE) /\ (On(u) = "claude" => signedIn["claude"].state = "in")
    BY <1>1, <2>1, <2>5, SessionsStay, TakesListKeeps
  <2>6. QED
    BY <2>2, <2>3, <2>4, <2>5
<1>4. CASE Disconnect(u)
  <2>1. SignedOut(On(u)) \/ UNCHANGED signedIn
    BY <1>4 DEF Disconnect
  <2>2. SessionsLost /\ TakesList(u, FALSE)
    BY <1>1, <1>4, <2>1, SignedOutLoses DEF Disconnect
  <2>3. QED
    BY <1>1, <2>2, TakesListKeeps
<1>5. QED
  BY <1>2, <1>3, <1>4

\* Claude is signed out and unlinked before the login.
LEMMA ConnectClaudeKeeps ==
  ASSUME AccountsInv, NEW u \in AccountUsers, ConnectClaude(u) PROVE AccountsInv'
<1> DEFINE w == WithList(u, FALSE)
           q == [w EXCEPT !.then = "login"]
<1>1. acts[u].at = "connect" /\ ActOK(acts[u], signedIn) /\ On(u) = "claude"
      /\ acts' = [acts EXCEPT ![u] = q] /\ UNCHANGED <<linked, overlapped, linkedFor, refused>>
  BY DEF ConnectClaude, AccountsInv, ActsFit, listing
<1>2. w \in Act /\ ActOK(w, signedIn) /\ w.what = acts[u].what /\ w.on = acts[u].on /\ w.at = "write"
      /\ w.add = FALSE
  BY <1>1, ListTaken
<1>3. acts[u].what = "connect" /\ On(u) \in Accounts
  BY <1>1 DEF ActOK, On
<1>4. SessionsLost
  BY <1>1, <1>3, SignedOutLoses DEF ConnectClaude
<1> HIDE DEF w
<1>5. q \in Act
  BY <1>2 DEF Act
<1>6. q.what = "connect" /\ q.on = acts[u].on /\ q.at = "write" /\ q.add = FALSE
  BY <1>2, <1>3 DEF Act
<1>7. q.on \in Accounts
  BY <1>3, <1>6 DEF On
<1> HIDE DEF q
<1>8. ActOK(q, signedIn)
  BY <1>6, <1>7 DEF ActOK
<1>9. QED
  BY <1>1, <1>3, <1>4, <1>5, <1>6, <1>8, ActBecomes

\* A new session begins: only its own worker may link it, and it has not yet.
LEMMA SignInKeeps == ASSUME AccountsInv, NEW u \in AccountUsers, SignIn(u) PROVE AccountsInv'
<1> DEFINE p == acts[u].on
<1>1. acts[u].at = "login" /\ acts[u].what = "connect" /\ p \in Accounts
      /\ UNCHANGED <<linked, overlapped, linkedFor, refused, acts>>
      /\ signedIn' = [signedIn EXCEPT ![p] = [nr |-> signedIn[p].nr + 1, state |-> "in"]]
  BY DEF SignIn, AccountsInv, ActsFit, ActOK, On, listing
<1>2. signedIn[p].nr \in Nat /\ signedIn \in [Accounts -> Session]
  BY <1>1 DEF AccountsInv, AccountsTypeInv, Session
<1>3. signedIn' \in [Accounts -> Session]
  BY <1>1, <1>2 DEF Session
<1>4. \A s \in Accounts : signedIn'[s] = IF s = p THEN [nr |-> signedIn[p].nr + 1, state |-> "in"]
                                         ELSE signedIn[s]
  BY <1>1, <1>2
<1>5. \A s \in Accounts : /\ signedIn[s].nr \in Nat /\ signedIn'[s].nr \in Nat
                          /\ signedIn[s].nr <= signedIn'[s].nr
                          /\ s # p => signedIn'[s] = signedIn[s]
  BY <1>2, <1>3, <1>4 DEF Session
<1>6. AccountsTypeInv' /\ OneWorker' /\ RefusedStaysOut'
  BY <1>1, <1>3 DEF AccountsInv, AccountsTypeInv, OneWorker, RefusedStaysOut, Unlinking, On
<1>7. RefusedAreOver'
  <2> SUFFICES ASSUME NEW s \in Accounts, NEW n \in Nat, <<s, n>> \in refused
               PROVE n <= signedIn'[s].nr /\ (signedIn'[s].state = "in" => n # signedIn'[s].nr)
    BY <1>1 DEF RefusedAreOver
  <2>1. n <= signedIn[s].nr /\ (signedIn[s].state = "in" => n # signedIn[s].nr)
    BY DEF AccountsInv, RefusedAreOver
  <2>2. CASE s = p
    <3>1. signedIn'[s].nr = signedIn[s].nr + 1
      BY <1>4, <2>2
    <3>2. QED
      BY <1>5, <2>1, <3>1
  <2>3. CASE s # p
    BY <1>5, <2>1, <2>3
  <2>4. QED
    BY <2>2, <2>3
<1>8. ASSUME NEW v \in AccountUsers PROVE ActOK(acts[v], signedIn')
  <2>1. acts[v] \in Act /\ ActOK(acts[v], signedIn)
    BY DEF AccountsInv, AccountsTypeInv, ActsFit
  <2>2. acts[v].at = "answer" => acts[v].of <= signedIn'[acts[v].on].nr
    <3>1. ASSUME acts[v].at = "answer" PROVE acts[v].of <= signedIn'[acts[v].on].nr
      <4>1. acts[v].of \in Nat /\ acts[v].on \in Accounts /\ acts[v].of <= signedIn[acts[v].on].nr
        BY <2>1, <3>1 DEF Act, ActOK
      <4>2. QED
        BY <1>5, <4>1
    <3>2. QED
      BY <3>1
  <2>3. acts[v].at = "write" /\ acts[v].add /\ acts[v].on = "claude" => p # "claude"
    <3>1. ASSUME acts[v].at = "write", acts[v].add, acts[v].on = "claude", p = "claude" PROVE FALSE
      <4>1. acts[v].what = "connect"
        BY <2>1, <3>1 DEF ActOK
      <4>2. v = u
        BY <1>1, <3>1, <4>1 DEF AccountsInv, OneWorker
      <4>3. QED
        BY <1>1, <3>1, <4>2
    <3>2. QED
      BY <3>1
  <2>4. acts[v].at = "write" /\ acts[v].add /\ acts[v].on = "claude" =>
          signedIn'["claude"].nr = signedIn["claude"].nr
    BY <1>5, <2>1, <2>3 DEF ActOK
  <2>5. QED
    BY <2>1, <2>2, <2>4 DEF ActOK
<1>9. QED
  BY <1>1, <1>6, <1>7, <1>8 DEF AccountsInv, ActsFit

\* The provider, or time.
LEMMA OutsideKeeps ==
  ASSUME AccountsInv, SessionsLost,
         UNCHANGED <<linked, overlapped, linkedFor, refused, acts>>
  PROVE AccountsInv'
<1>1. AccountsTypeInv' /\ OneWorker' /\ RefusedStaysOut'
  BY DEF AccountsInv, AccountsTypeInv, OneWorker, RefusedStaysOut, Unlinking, On, SessionsLost
<1>2. RefusedAreOver' /\ \A v \in AccountUsers : ActOK(acts[v], signedIn')
  <2>1. \A v \in AccountUsers : acts[v] \in Act /\ ActOK(acts[v], signedIn)
    BY DEF AccountsInv, AccountsTypeInv, ActsFit
  <2>2. QED
    BY <2>1, LostStays
<1>3. QED
  BY <1>1, <1>2 DEF AccountsInv, ActsFit

(* Whatever statuses are asked for, sessions revoked and quotas used up meanwhile: a      *)
(* Claude session that a request has found refused is not linked again, only a new one,   *)
(* unless two threads change the list at a time (aicoder/account_providers.py).           *)
THEOREM RefusedIsNotLinked == AccountsSpec => []RefusedStaysOut
<1>1. AccountsInv /\ [AccountsNext]_accountVars => AccountsInv'
  <2> SUFFICES ASSUME AccountsInv, [AccountsNext]_accountVars PROVE AccountsInv'
    OBVIOUS
  <2>1. ASSUME NEW u \in AccountUsers, AccountUserStep(u) PROVE AccountsInv'
    BY <2>1, StartsKeeps, RerouteKeeps, ProbeKeeps, WriteListKeeps, ChatKeeps, ChatRefusedKeeps,
       ConnectKeeps, ConnectClaudeKeeps, SignInKeeps DEF AccountUserStep
  <2>2. ASSUME NEW p \in Accounts, NEW how \in {"out", "revoked"}, LosesSession(p, how)
        PROVE AccountsInv'
    <3>1. SessionsLost
      BY <2>2 DEF LosesSession, SessionsLost, AccountsInv, AccountsTypeInv, Session
    <3>2. QED
      BY <2>2, <3>1, OutsideKeeps DEF LosesSession, listing
  <2>3. ASSUME (\E p \in Accounts : QuotaRenewed(p)) \/ UNCHANGED accountVars PROVE AccountsInv'
    <3>1. UNCHANGED <<linked, overlapped, linkedFor, refused, acts, signedIn>>
      BY <2>3 DEF QuotaRenewed, outside, accountVars
    <3>2. QED
      BY <3>1, SessionsStay, OutsideKeeps
  <2>4. QED
    BY <2>1, <2>2, <2>3 DEF AccountsNext
<1>2. AccountsInv => RefusedStaysOut
  BY DEF AccountsInv
<1>3. QED
  BY AccountsInitInv, <1>1, <1>2, PTL DEF AccountsSpec

--------------------------------------------------------------------------------
(* MCP servers.  A server's configuration and its secrets are kept in two     *)
(* places and changed one after the other, with copies to undo the change.    *)
(* The invariant says of a server on which one operation at a time changes    *)
(* something that the two fit, or that the operation is midway; and that what *)
(* an operation has undone and has left to undo make what it found.           *)

ServerConfigs == {NoServer} \cup [kind : {"stdio", "key", "oauth"}, enabled : BOOLEAN]
Secrets == [key : Nat, access : Nat, refresh : Nat]
UndoSteps == [what : {"config"}, config : ServerConfigs]
               \cup [what : {"secrets"}, secrets : Secrets, real : Secrets]
Trying == {"connect", "ask", "refresh", "renew"}
Undoing == {"secrets", "config", "write back", "failed"}
Operations ==
  [op : {"use", "save", "sign in", "sign in, save", "test", "remove", "enable"},
   at : Trying \cup Undoing \cup {"keep", "supply", "check", "sign in", "store", "nested", "put", "write",
                                  "failing", "clean", "wipe"},
   on : McpServers, config : ServerConfigs, key : BOOLEAN, test : BOOLEAN, undo : Seq(UndoSteps),
   list : {<<>>} \cup [McpServers -> ServerConfigs], ask : {"initialize", "call"}, retried : BOOLEAN,
   again : BOOLEAN, token : Nat, was : {<<>>} \cup (ServerConfigs \X Secrets)]

\* What an operation has to undo, whatever other users do.
OperationTyped(o) ==
  /\ o \in Operations
  /\ o.at = "secrets" => o.undo # <<>> /\ o.undo[1].what = "secrets"
  /\ o.at \in {"config", "write back"} => o.undo # <<>> /\ o.undo[1].what = "config"
  /\ o.at \in {"write", "write back"} => o.list # <<>>

McpTyped ==
  /\ registry \in [McpServers -> ServerConfigs] /\ vault \in [McpServers -> Secrets] /\ given \in Nat
  /\ users \in [McpUsers -> Operations \cup {NoOperation}]
  /\ \A u \in McpUsers : users[u] # NoOperation => OperationTyped(users[u])

Fits(c, v) == /\ c.kind = "key" <=> v.key # 0
              /\ c.kind # "oauth" => v.access = 0 /\ v.refresh = 0

\* The steps of the code an operation goes through.
Placed(o) ==
  /\ o.op = "use" => o.at \in Trying \cup {"store", "failed"} /\ o.undo = <<>> /\ o.was = <<>>
  /\ o.op = "enable" => o.at \in {"put", "write", "failing"} /\ o.undo = <<>> /\ o.was = <<>>
  /\ o.at \in Trying => o.op \in {"use", "save", "test", "sign in"}
  /\ o.at \in {"supply", "check"} => o.op \in {"save", "test"}
  /\ o.op = "test" => o.at \in Trying \cup Undoing \cup {"keep", "supply", "check", "store"} /\ (o.at \notin Undoing => o.test)
  /\ o.at \in {"put", "write", "failing"} => o.op \in {"save", "remove", "enable"}
  /\ o.at = "clean" => o.op = "save"
  /\ o.at = "wipe" => o.op = "remove"
  /\ o.at = "sign in" => o.op \in {"sign in", "sign in, save"}
  /\ o.at = "nested" => o.op = "sign in, save"
  /\ o.op = "remove" => o.at \in {"keep", "put", "write", "failing", "wipe"} \cup Undoing
  /\ o.at \in {"refresh", "renew", "store"} => o.config.kind = "oauth"
  /\ o.op \in {"sign in", "sign in, save"} /\ o.at \notin Undoing => o.config.kind = "oauth"
  /\ o.op # "remove" /\ o.at \notin Undoing => o.config.kind # "none"
  /\ o.op = "remove" /\ o.at \notin Undoing => o.config = NoServer

\* The copies an operation has.
Shaped(o) ==
  /\ o.op \in {"save", "sign in, save"} =>
       /\ Len(o.undo) <= 4
       /\ o.op = "sign in, save" => Len(o.undo) <= 2
       /\ Len(o.undo) >= 1 => o.undo[Len(o.undo)].what = "config"
       /\ Len(o.undo) >= 2 => o.undo[Len(o.undo) - 1].what = "secrets"
       /\ Len(o.undo) >= 3 => o.undo[Len(o.undo) - 2].what = "config"
       /\ o.at \notin Undoing \cup {"keep"} => Len(o.undo) >= 2 /\ o.was # <<>>
  /\ o.op \in {"sign in", "test"} =>
       /\ Len(o.undo) <= 1
       /\ Len(o.undo) = 1 => o.undo[1].what = "secrets"
       /\ o.at \notin Undoing \cup {"keep"} => Len(o.undo) = 1 /\ o.was # <<>>
  /\ o.op = "remove" =>
       /\ Len(o.undo) <= 2
       /\ Len(o.undo) >= 1 => o.undo[Len(o.undo)].what = "secrets"
       /\ Len(o.undo) = 2 => o.undo[1].what = "config"
       /\ o.at \notin Undoing \cup {"keep"} => Len(o.undo) = 2 /\ o.was # <<>>
  /\ o.at = "keep" => \/ o.undo = <<>> /\ o.was = <<>>
                      \/ o.op = "save" /\ Len(o.undo) = 2 /\ o.was # <<>>
  /\ o.at = "failed" => o.undo = <<>>
  /\ o.op # "use" /\ o.at \in Undoing => o.was # <<>>

\* What is undone and what is left to undo make what was.
Traced(o, c, v) ==
  o.was # <<>> =>
    /\ o.op \in {"save", "sign in, save"} =>
         /\ Len(o.undo) = 0 => c = o.was[1]
         /\ Len(o.undo) >= 1 => o.undo[Len(o.undo)].config = o.was[1]
         /\ Len(o.undo) <= 1 => v = o.was[2]
         /\ Len(o.undo) >= 2 => o.undo[Len(o.undo) - 1].real = o.was[2]
    /\ o.op \in {"sign in", "test"} =>
         /\ c = o.was[1]
         /\ Len(o.undo) = 0 => v = o.was[2]
         /\ Len(o.undo) = 1 => o.undo[1].real = o.was[2]
    /\ o.op = "remove" =>
         /\ Len(o.undo) <= 1 => c = o.was[1]
         /\ Len(o.undo) = 0 => v = o.was[2]
         /\ Len(o.undo) >= 1 => o.undo[Len(o.undo)].real = o.was[2]
         /\ Len(o.undo) = 2 => o.undo[1].config = o.was[1]

\* What an operation has found out or done is still so.
StillSo(o, c, v) ==
  /\ o.op = "save" /\ o.at \in Trying \cup {"store", "put", "write", "failing", "clean"}
       /\ o.config.kind = "key" => v.key # 0
  /\ o.at = "clean" => c = o.config
  /\ o.at = "wipe" => c = NoServer
  /\ o.op = "enable" => c.kind = o.config.kind
  /\ o.op = "sign in" /\ o.at \notin Undoing => c.kind = "oauth"

Goes(o, c, v) == Placed(o) /\ Shaped(o) /\ (o.op # "use" => Traced(o, c, v) /\ StillSo(o, c, v))

\* In the middle of a change: it cannot end here.
Midway(o, c) ==
  \/ /\ o.op \in {"save", "sign in, save", "test"} /\ o.undo # <<>>
     /\ o.op # "test" /\ Len(o.undo) = 1 => c # o.undo[1].config
  \/ o.op = "remove" /\ o.at \in {"wipe", "config", "write back", "secrets"}

OnServer(u, s) == users[u] # NoOperation /\ Server(u) = s

McpSound ==
  \A s \in McpServers \ entangled :
    /\ Fits(registry[s], vault[s]) \/ \E u \in McpUsers : OnServer(u, s) /\ Midway(users[u], registry[s])
    /\ \A u \in McpUsers : OnServer(u, s) =>
         /\ Goes(users[u], registry[s], vault[s])
         /\ users[u].was # <<>> => \/ Fits(users[u].was[1], users[u].was[2])
                                   \/ \E v \in McpUsers \ {u} : OnServer(v, s) /\ Midway(users[v], registry[s])

McpInv == McpTyped /\ McpSound

--------------------------------------------------------------------------------
\* Nobody is in the middle of a change who does nothing.
LEMMA IdleIs ==
  /\ NoOperation.at = "idle" /\ NoOperation.op = "none" /\ NoOperation.undo = <<>> /\ NoOperation.was = <<>>
  /\ NoOperation.list = <<>>
  /\ \A c : ~Midway(NoOperation, c)
<1>1. NoOperation.at = "idle" /\ NoOperation.op = "none" /\ NoOperation.undo = <<>> /\ NoOperation.was = <<>>
      /\ NoOperation.list = <<>>
  BY DEF NoOperation
<1> QED
  BY <1>1 DEF Midway

\* Every server starts with the secrets its configuration calls for, and nobody at work on it.
LEMMA McpInitInv == McpInit => McpInv
<1> SUFFICES ASSUME McpInit PROVE McpInv
  OBVIOUS
<1>1. registry \in [McpServers -> ServerConfigs]
  <2>1. {NoServer} \cup Configs \subseteq ServerConfigs
    <3>1. NoServer \in ServerConfigs
      BY DEF NoServer, ServerConfigs
    <3>2. Configs \subseteq ServerConfigs
      BY DEF Configs, ServerConfigs
    <3> QED
      BY <3>1, <3>2
  <2> QED
    BY <2>1 DEF McpInit
<1>2. ASSUME NEW s \in McpServers
      PROVE  vault[s] \in Secrets /\ Fits(registry[s], vault[s])
  <2>1. registry[s].kind = "key" => vault[s] = [NoSecrets EXCEPT !.key = 1]
    BY <1>2 DEF McpInit
  <2>2. registry[s].kind = "oauth" => vault[s] = [NoSecrets EXCEPT !.access = 1, !.refresh = 1]
    BY <1>2 DEF McpInit
  <2>3. registry[s].kind \notin {"key", "oauth"} => vault[s] = NoSecrets
    BY <1>2 DEF McpInit
  <2>4. CASE registry[s].kind = "key"
    <3>1. vault[s] = [key |-> 1, access |-> 0, refresh |-> 0]
      BY <2>1, <2>4 DEF NoSecrets
    <3> QED
      BY <2>4, <3>1 DEF Secrets, Fits
  <2>5. CASE registry[s].kind = "oauth"
    <3>1. vault[s] = [key |-> 0, access |-> 1, refresh |-> 1]
      BY <2>2, <2>5 DEF NoSecrets
    <3>2. vault[s] \in Secrets
      BY <3>1 DEF Secrets
    <3>3. vault[s].key = 0
      BY <3>1
    <3> QED
      BY <2>5, <3>2, <3>3 DEF Fits
  <2>6. CASE registry[s].kind \notin {"key", "oauth"}
    <3>1. vault[s] = [key |-> 0, access |-> 0, refresh |-> 0]
      BY <2>3, <2>6 DEF NoSecrets
    <3>2. vault[s] \in Secrets
      BY <3>1 DEF Secrets
    <3>3. vault[s].key = 0 /\ vault[s].access = 0 /\ vault[s].refresh = 0
      BY <3>1
    <3> QED
      BY <2>6, <3>2, <3>3 DEF Fits
  <2> QED
    BY <2>4, <2>5, <2>6
<1>3. vault \in [McpServers -> Secrets]
  BY <1>2 DEF McpInit
<1>4. given \in Nat /\ users = [u \in McpUsers |-> NoOperation]
  BY DEF McpInit
<1>5. McpTyped
  BY <1>1, <1>3, <1>4 DEF McpTyped
<1>6. McpSound
  BY <1>2, <1>4 DEF McpSound, OnServer
<1> QED
  BY <1>5, <1>6 DEF McpInv

\* User u goes on to operation x, on server s.  Of a server that is not entangled nothing
\* changes, or nobody else is changing it, and then a change is under way or all fits.
LEMMA Moves ==
  ASSUME McpInv, NEW u \in McpUsers, NEW s \in McpServers, NEW x \in Operations \cup {NoOperation},
         x # NoOperation => OperationTyped(x) /\ x.on = s,
         users[u] # NoOperation => Server(u) = s,
         users' = [users EXCEPT ![u] = x],
         registry' \in [McpServers -> ServerConfigs], vault' \in [McpServers -> Secrets], given' \in Nat,
         entangled \subseteq entangled',
         \A t \in McpServers \ {s} : t \notin entangled' => registry'[t] = registry[t] /\ vault'[t] = vault[t],
         s \notin entangled' =>
           \/ /\ registry'[s] = registry[s] /\ vault'[s] = vault[s]
              /\ Midway(users[u], registry[s]) => Midway(x, registry[s])
           \/ /\ Others(u, s) = {}
              /\ Midway(x, registry'[s]) \/ Fits(registry'[s], vault'[s]),
         s \notin entangled' /\ x # NoOperation => Goes(x, registry'[s], vault'[s]),
         s \notin entangled' /\ x.was # <<>> =>
           \/ x.was = users[u].was
           \/ /\ x.was = <<registry[s], vault[s]>> /\ ~Midway(users[u], registry[s])
              /\ registry'[s] = registry[s] /\ vault'[s] = vault[s]
  PROVE  McpInv'
<1>1. users'[u] = x /\ \A v \in McpUsers \ {u} : users'[v] = users[v]
  BY DEF McpInv, McpTyped
<1>2. McpTyped'
  <2>1. users' \in [McpUsers -> Operations \cup {NoOperation}]
    BY DEF McpInv, McpTyped
  <2>2. \A v \in McpUsers : users'[v] # NoOperation => OperationTyped(users'[v])
    BY <1>1 DEF McpInv, McpTyped
  <2> QED
    BY <2>1, <2>2 DEF McpTyped
<1>3. ASSUME NEW t \in McpServers \ {s}, t \notin entangled'
      PROVE  /\ Fits(registry'[t], vault'[t]) \/ \E v \in McpUsers : OnServer(v, t)' /\ Midway(users'[v], registry'[t])
             /\ \A v \in McpUsers : OnServer(v, t)' =>
                  /\ Goes(users'[v], registry'[t], vault'[t])
                  /\ users'[v].was # <<>> =>
                       \/ Fits(users'[v].was[1], users'[v].was[2])
                       \/ \E w \in McpUsers \ {v} : OnServer(w, t)' /\ Midway(users'[w], registry'[t])
  <2>1. registry'[t] = registry[t] /\ vault'[t] = vault[t] /\ t \in McpServers \ entangled
    BY <1>3
  <2>2. ~OnServer(u, t)' /\ ~OnServer(u, t)
    BY <1>1, <1>3 DEF OnServer, Server
  <2>3. \A v \in McpUsers \ {u} : OnServer(v, t)' <=> OnServer(v, t)
    BY <1>1 DEF OnServer, Server
  <2>4. /\ Fits(registry[t], vault[t]) \/ \E v \in McpUsers : OnServer(v, t) /\ Midway(users[v], registry[t])
        /\ \A v \in McpUsers : OnServer(v, t) =>
             /\ Goes(users[v], registry[t], vault[t])
             /\ users[v].was # <<>> =>
                  \/ Fits(users[v].was[1], users[v].was[2])
                  \/ \E w \in McpUsers \ {v} : OnServer(w, t) /\ Midway(users[w], registry[t])
    BY <2>1, Zenon DEF McpInv, McpSound
  <2>5. Fits(registry'[t], vault'[t]) \/ \E v \in McpUsers : OnServer(v, t)' /\ Midway(users'[v], registry'[t])
    BY <1>1, <2>1, <2>2, <2>3, <2>4
  <2>6. ASSUME NEW v \in McpUsers, OnServer(v, t)'
        PROVE  /\ Goes(users'[v], registry'[t], vault'[t])
               /\ users'[v].was # <<>> =>
                    \/ Fits(users'[v].was[1], users'[v].was[2])
                    \/ \E w \in McpUsers \ {v} : OnServer(w, t)' /\ Midway(users'[w], registry'[t])
    <3>1. v # u /\ OnServer(v, t) /\ users'[v] = users[v]
      BY <1>1, <2>2, <2>3, <2>6
    <3>2. Goes(users'[v], registry'[t], vault'[t])
      BY <2>1, <2>4, <3>1
    <3>3. ASSUME NEW w \in McpUsers \ {v}, OnServer(w, t), Midway(users[w], registry[t])
          PROVE  OnServer(w, t)' /\ Midway(users'[w], registry'[t])
      BY <1>1, <2>1, <2>2, <2>3, <3>3
    <3> QED
      BY <2>4, <3>1, <3>2, <3>3
  <2> QED
    BY <2>5, <2>6
<1>4. ASSUME s \notin entangled'
      PROVE  /\ Fits(registry'[s], vault'[s]) \/ \E v \in McpUsers : OnServer(v, s)' /\ Midway(users'[v], registry'[s])
             /\ \A v \in McpUsers : OnServer(v, s)' =>
                  /\ Goes(users'[v], registry'[s], vault'[s])
                  /\ users'[v].was # <<>> =>
                       \/ Fits(users'[v].was[1], users'[v].was[2])
                       \/ \E w \in McpUsers \ {v} : OnServer(w, s)' /\ Midway(users'[w], registry'[s])
  <2>1. s \in McpServers \ entangled
    BY <1>4
  <2>2. /\ Fits(registry[s], vault[s]) \/ \E v \in McpUsers : OnServer(v, s) /\ Midway(users[v], registry[s])
        /\ \A v \in McpUsers : OnServer(v, s) =>
             /\ Goes(users[v], registry[s], vault[s])
             /\ users[v].was # <<>> =>
                  \/ Fits(users[v].was[1], users[v].was[2])
                  \/ \E w \in McpUsers \ {v} : OnServer(w, s) /\ Midway(users[w], registry[s])
    BY <2>1, Zenon DEF McpInv, McpSound
  <2>3. \A v \in McpUsers \ {u} : OnServer(v, s)' <=> OnServer(v, s)
    BY <1>1 DEF OnServer, Server
  <2>4. OnServer(u, s)' <=> x # NoOperation
    BY <1>1 DEF OnServer, Server
  <2>5. x.was # <<>> => x # NoOperation
    BY IdleIs
  <2>6. \A c : Midway(x, c) => x # NoOperation
    BY IdleIs
  <2>7. \A c : Midway(users[u], c) => OnServer(u, s)
    BY IdleIs DEF OnServer
  <2>8. Goes(x, registry'[s], vault'[s]) \/ x = NoOperation
    BY <1>4
  <2>9. users[u].was # <<>> => OnServer(u, s)
    BY IdleIs DEF OnServer
  <2>10. CASE /\ registry'[s] = registry[s] /\ vault'[s] = vault[s]
              /\ Midway(users[u], registry[s]) => Midway(x, registry[s])
    <3>1. ASSUME NEW w \in McpUsers, OnServer(w, s), Midway(users[w], registry[s])
          PROVE  OnServer(w, s)' /\ Midway(users'[w], registry'[s])
      <4>1. CASE w = u
        BY <1>1, <2>4, <2>6, <2>10, <3>1, <4>1
      <4>2. CASE w # u
        BY <1>1, <2>3, <2>10, <3>1, <4>2
      <4> QED
        BY <4>1, <4>2
    <3>2. Fits(registry'[s], vault'[s]) \/ \E v \in McpUsers : OnServer(v, s)' /\ Midway(users'[v], registry'[s])
      BY <2>2, <2>10, <3>1
    <3>3. ASSUME NEW v \in McpUsers, OnServer(v, s)'
          PROVE  /\ Goes(users'[v], registry'[s], vault'[s])
                 /\ users'[v].was # <<>> =>
                      \/ Fits(users'[v].was[1], users'[v].was[2])
                      \/ \E w \in McpUsers \ {v} : OnServer(w, s)' /\ Midway(users'[w], registry'[s])
      <4>1. CASE v # u
        <5>1. OnServer(v, s) /\ users'[v] = users[v]
          BY <1>1, <2>3, <3>3, <4>1
        <5> QED
          BY <2>2, <2>10, <3>1, <5>1
      <4>2. CASE v = u
        <5>1. Goes(users'[u], registry'[s], vault'[s])
          BY <1>1, <2>4, <2>8, <3>3, <4>2
        <5>2. CASE x.was # <<>> /\ x.was = users[u].was
          <6>1. OnServer(u, s) /\ users[u].was # <<>>
            BY <2>9, <5>2
          <6>2. \/ Fits(users[u].was[1], users[u].was[2])
                \/ \E w \in McpUsers \ {u} : OnServer(w, s) /\ Midway(users[w], registry[s])
            BY <2>2, <6>1
          <6> QED
            BY <1>1, <3>1, <4>2, <5>1, <5>2, <6>2
        <5>3. CASE x.was = <<registry[s], vault[s]>> /\ ~Midway(users[u], registry[s])
          <6>1. \/ Fits(registry[s], vault[s])
                \/ \E w \in McpUsers \ {u} : OnServer(w, s) /\ Midway(users[w], registry[s])
            BY <2>2, <5>3
          <6>2. x.was[1] = registry[s] /\ x.was[2] = vault[s]
            BY <5>3
          <6> QED
            BY <1>1, <3>1, <4>2, <5>1, <6>1, <6>2
        <5>4. CASE x.was = <<>>
          BY <1>1, <4>2, <5>1, <5>4
        <5> QED
          BY <1>4, <5>2, <5>3, <5>4
      <4> QED
        BY <4>1, <4>2
    <3> QED
      BY <3>2, <3>3
  <2>11. CASE /\ Others(u, s) = {}
              /\ Midway(x, registry'[s]) \/ Fits(registry'[s], vault'[s])
    <3>1. ASSUME NEW v \in McpUsers \ {u}, OnServer(v, s)
          PROVE  users[v].op = "use"
      <4>1. users[v].at # "idle" /\ Server(v) = s
        BY <3>1 DEF OnServer, McpInv, McpTyped, Operations, Trying, Undoing
      <4> QED
        BY <2>11, <4>1 DEF Others
    <3>2. \A v \in McpUsers \ {u} : OnServer(v, s) => ~Midway(users[v], registry[s]) /\ users[v].was = <<>>
      BY <2>2, <3>1 DEF Midway, Goes, Placed
    <3>3. Fits(registry'[s], vault'[s]) \/ \E v \in McpUsers : OnServer(v, s)' /\ Midway(users'[v], registry'[s])
      BY <1>1, <2>4, <2>6, <2>11
    <3>4. ASSUME NEW v \in McpUsers, OnServer(v, s)'
          PROVE  /\ Goes(users'[v], registry'[s], vault'[s])
                 /\ users'[v].was # <<>> => Fits(users'[v].was[1], users'[v].was[2])
      <4>1. CASE v # u
        <5>1. OnServer(v, s) /\ users'[v] = users[v] /\ users[v].op = "use" /\ users[v].was = <<>>
          BY <1>1, <2>3, <3>1, <3>2, <3>4, <4>1
        <5>2. Goes(users[v], registry[s], vault[s])
          BY <2>2, <5>1
        <5> QED
          BY <5>1, <5>2 DEF Goes
      <4>2. CASE v = u
        <5>1. Goes(users'[u], registry'[s], vault'[s])
          BY <1>1, <2>4, <2>8, <3>4, <4>2
        <5>2. CASE x.was # <<>> /\ x.was = users[u].was
          BY <1>1, <2>2, <2>9, <3>2, <4>2, <5>1, <5>2
        <5>3. CASE x.was = <<registry[s], vault[s]>> /\ ~Midway(users[u], registry[s])
          <6>1. Fits(registry[s], vault[s])
            BY <2>2, <3>2, <5>3
          <6>2. x.was[1] = registry[s] /\ x.was[2] = vault[s]
            BY <5>3
          <6> QED
            BY <1>1, <4>2, <5>1, <6>1, <6>2
        <5>4. CASE x.was = <<>>
          BY <1>1, <4>2, <5>1, <5>4
        <5> QED
          BY <1>4, <5>2, <5>3, <5>4
      <4> QED
        BY <4>1, <4>2
    <3> QED
      BY <3>3, <3>4
  <2> QED
    BY <1>4, <2>10, <2>11
<1>5. McpSound'
  <2> SUFFICES ASSUME NEW t \in McpServers, t \notin entangled'
               PROVE  /\ Fits(registry'[t], vault'[t]) \/ \E v \in McpUsers : OnServer(v, t)' /\ Midway(users'[v], registry'[t])
                      /\ \A v \in McpUsers : OnServer(v, t)' =>
                           /\ Goes(users'[v], registry'[t], vault'[t])
                           /\ users'[v].was # <<>> =>
                                \/ Fits(users'[v].was[1], users'[v].was[2])
                                \/ \E w \in McpUsers \ {v} : OnServer(w, t)' /\ Midway(users'[w], registry'[t])
    BY DEF McpSound
  <2>1. CASE t = s
    BY <1>4, <2>1
  <2>2. CASE t # s
    BY <1>3, <2>2
  <2> QED
    BY <2>1, <2>2
<1> QED
  BY <1>2, <1>5 DEF McpInv

--------------------------------------------------------------------------------
\* An operation that is where another is, but for its place and its session.
Same(x, o) == /\ x.op = o.op /\ x.on = o.on /\ x.config = o.config /\ x.undo = o.undo /\ x.was = o.was
              /\ x.test <=> o.test
Places == Trying \cup Undoing \cup {"keep", "supply", "check", "sign in", "store", "nested", "put", "write",
                                    "failing", "clean", "wipe"}

\* An operation with one field changed: where it is, ...
LEMMA PlaceChanges ==
  ASSUME NEW o \in Operations, NEW a \in Places
  PROVE  LET x == [o EXCEPT !.at = a] IN x \in Operations /\ x.at = a /\ Same(x, o) /\ x.list = o.list
<1> DEFINE x == [o EXCEPT !.at = a]
<1>1. x \in Operations
  BY DEF Operations, Places
<1>2. x.at = a /\ x.op = o.op /\ x.on = o.on /\ x.config = o.config /\ x.undo = o.undo /\ x.was = o.was
      /\ x.list = o.list
  BY DEF Operations
<1>3. x.test <=> o.test
  BY Zenon DEF Operations
<1> QED
  BY <1>1, <1>2, <1>3 DEF Same

\* ... and the token it uses, ...
LEMMA TokenChanges ==
  ASSUME NEW o \in Operations, NEW a \in Places, NEW t \in Nat
  PROVE  LET x == [o EXCEPT !.at = a, !.token = t] IN x \in Operations /\ x.at = a /\ Same(x, o)
<1> DEFINE x == [o EXCEPT !.at = a, !.token = t]
<1>1. x \in Operations
  BY DEF Operations, Places
<1>2. x.at = a /\ x.op = o.op /\ x.on = o.on /\ x.config = o.config /\ x.undo = o.undo /\ x.was = o.was
  BY DEF Operations
<1>3. x.test <=> o.test
  BY Zenon DEF Operations
<1> QED
  BY <1>1, <1>2, <1>3 DEF Same

\* ... the places that have a list to write, ...
LEMMA PlacesAre == {"clean", "wipe", "failing", "write", "write back"} \subseteq Places
BY DEF Places, Undoing

Listed(x, o, a, list) == x \in Operations /\ x.at = a /\ Same(x, o) /\ x.list = list

\* ... the list it read, ...
LEMMA ListChanges ==
  ASSUME NEW o \in Operations, NEW a \in Places, NEW list \in {<<>>} \cup [McpServers -> ServerConfigs]
  PROVE  Listed([o EXCEPT !.at = a, !.list = list], o, a, list)
<1> DEFINE x == [o EXCEPT !.at = a, !.list = list]
<1>1. x \in Operations
  BY DEF Operations, Places
<1>2. x.at = a /\ x.op = o.op /\ x.on = o.on /\ x.config = o.config /\ x.undo = o.undo /\ x.was = o.was
      /\ x.list = list
  BY DEF Operations
<1>3. x.test <=> o.test
  BY Zenon DEF Operations
<1> QED
  BY <1>1, <1>2, <1>3 DEF Same, Listed

\* ... what it asks, ...
LEMMA AskChanges ==
  ASSUME NEW o \in Operations, NEW ask \in {"initialize", "call"}
  PROVE  LET x == [o EXCEPT !.ask = ask] IN x \in Operations /\ x.at = o.at /\ Same(x, o)
<1> DEFINE x == [o EXCEPT !.ask = ask]
<1>1. x \in Operations
  BY DEF Operations
<1>2. x.at = o.at /\ x.op = o.op /\ x.on = o.on /\ x.config = o.config /\ x.undo = o.undo /\ x.was = o.was
  BY DEF Operations
<1>3. x.test <=> o.test
  BY Zenon DEF Operations
<1> QED
  BY <1>1, <1>2, <1>3 DEF Same

\* ... whether it has asked before, ...
LEMMA RetriedChanges ==
  ASSUME NEW o \in Operations, NEW r \in BOOLEAN
  PROVE  LET x == [o EXCEPT !.retried = r] IN x \in Operations /\ x.at = o.at /\ Same(x, o)
<1> DEFINE x == [o EXCEPT !.retried = r]
<1>1. x \in Operations
  BY DEF Operations
<1>2. x.at = o.at /\ x.op = o.op /\ x.on = o.on /\ x.config = o.config /\ x.undo = o.undo /\ x.was = o.was
  BY DEF Operations
<1>3. x.test <=> o.test
  BY Zenon DEF Operations
<1> QED
  BY <1>1, <1>2, <1>3 DEF Same

\* ... whether it asks again, ...
LEMMA AgainChanges ==
  ASSUME NEW o \in Operations, NEW r \in BOOLEAN
  PROVE  LET x == [o EXCEPT !.again = r] IN x \in Operations /\ x.at = o.at /\ Same(x, o)
<1> DEFINE x == [o EXCEPT !.again = r]
<1>1. x \in Operations
  BY DEF Operations
<1>2. x.at = o.at /\ x.op = o.op /\ x.on = o.on /\ x.config = o.config /\ x.undo = o.undo /\ x.was = o.was
  BY DEF Operations
<1>3. x.test <=> o.test
  BY Zenon DEF Operations
<1> QED
  BY <1>1, <1>2, <1>3 DEF Same

\* ... the token alone.
LEMMA OnlyTokenChanges ==
  ASSUME NEW o \in Operations, NEW t \in Nat
  PROVE  LET x == [o EXCEPT !.token = t] IN x \in Operations /\ x.at = o.at /\ Same(x, o)
<1> DEFINE x == [o EXCEPT !.token = t]
<1>1. x \in Operations
  BY DEF Operations
<1>2. x.at = o.at /\ x.op = o.op /\ x.on = o.on /\ x.config = o.config /\ x.undo = o.undo /\ x.was = o.was
  BY DEF Operations
<1>3. x.test <=> o.test
  BY Zenon DEF Operations
<1> QED
  BY <1>1, <1>2, <1>3 DEF Same

\* A session opens again, goes on, or ends well.
LEMMA SessionChanges ==
  ASSUME NEW o \in Operations, NEW x,
         \/ x = [o EXCEPT !.at = "put", !.ask = "initialize", !.retried = FALSE, !.again = FALSE, !.token = 0]
         \/ x = [o EXCEPT !.at = "connect", !.ask = "call", !.retried = o.again, !.token = 0]
         \/ x = [o EXCEPT !.at = "connect", !.ask = "initialize", !.again = TRUE]
         \/ x = [o EXCEPT !.at = "refresh", !.retried = TRUE]
  PROVE  x \in Operations /\ Same(x, o)
<1>0. {"put", "connect", "refresh"} \subseteq Places
  BY DEF Places, Trying
<1>1. ASSUME NEW a \in {"put", "connect", "refresh"}
      PROVE  [o EXCEPT !.at = a] \in Operations /\ [o EXCEPT !.at = a].at = a /\ Same([o EXCEPT !.at = a], o)
  BY <1>0, PlaceChanges
<1>2. CASE x = [o EXCEPT !.at = "put", !.ask = "initialize", !.retried = FALSE, !.again = FALSE, !.token = 0]
  <2> DEFINE o1 == [o EXCEPT !.at = "put"]
             o2 == [o1 EXCEPT !.ask = "initialize"]
             o3 == [o2 EXCEPT !.retried = FALSE]
             o4 == [o3 EXCEPT !.again = FALSE]
             o5 == [o4 EXCEPT !.token = 0]
  <2>1. x = o5
    BY <1>2
  <2>2. o1 \in Operations /\ o1.at = "put" /\ Same(o1, o)
    BY <1>1
  <2> HIDE DEF o1
  <2>3. o2 \in Operations /\ o2.at = "put" /\ Same(o2, o)
    BY <2>2, AskChanges DEF Same
  <2> HIDE DEF o2
  <2>4. o3 \in Operations /\ o3.at = "put" /\ Same(o3, o)
    BY <2>3, RetriedChanges DEF Same
  <2> HIDE DEF o3
  <2>5. o4 \in Operations /\ o4.at = "put" /\ Same(o4, o)
    BY <2>4, AgainChanges DEF Same
  <2> HIDE DEF o4
  <2>6. o5 \in Operations /\ o5.at = "put" /\ Same(o5, o)
    BY <2>5, OnlyTokenChanges DEF Same
  <2> HIDE DEF o5
  <2> QED
    BY <2>1, <2>6
<1>3. CASE x = [o EXCEPT !.at = "connect", !.ask = "call", !.retried = o.again, !.token = 0]
  <2> DEFINE o1 == [o EXCEPT !.at = "connect"]
             o2 == [o1 EXCEPT !.ask = "call"]
             o3 == [o2 EXCEPT !.retried = o.again]
             o4 == [o3 EXCEPT !.token = 0]
  <2>1. x = o4
    BY <1>3
  <2>2. o.again \in BOOLEAN
    BY DEF Operations
  <2>3. o1 \in Operations /\ o1.at = "connect" /\ Same(o1, o)
    BY <1>1
  <2> HIDE DEF o1
  <2>4. o2 \in Operations /\ o2.at = "connect" /\ Same(o2, o)
    BY <2>3, AskChanges DEF Same
  <2> HIDE DEF o2
  <2>5. o3 \in Operations /\ o3.at = "connect" /\ Same(o3, o)
    BY <2>4, <2>2, RetriedChanges DEF Same
  <2> HIDE DEF o3
  <2>6. o4 \in Operations /\ o4.at = "connect" /\ Same(o4, o)
    BY <2>5, OnlyTokenChanges DEF Same
  <2> HIDE DEF o4
  <2> QED
    BY <2>1, <2>6
<1>4. CASE x = [o EXCEPT !.at = "connect", !.ask = "initialize", !.again = TRUE]
  <2> DEFINE o1 == [o EXCEPT !.at = "connect"]
             o2 == [o1 EXCEPT !.ask = "initialize"]
             o3 == [o2 EXCEPT !.again = TRUE]
  <2>1. x = o3
    BY <1>4
  <2>2. o1 \in Operations /\ o1.at = "connect" /\ Same(o1, o)
    BY <1>1
  <2> HIDE DEF o1
  <2>3. o2 \in Operations /\ o2.at = "connect" /\ Same(o2, o)
    BY <2>2, AskChanges DEF Same
  <2> HIDE DEF o2
  <2>4. o3 \in Operations /\ o3.at = "connect" /\ Same(o3, o)
    BY <2>3, AgainChanges DEF Same
  <2> HIDE DEF o3
  <2> QED
    BY <2>1, <2>4
<1>5. CASE x = [o EXCEPT !.at = "refresh", !.retried = TRUE]
  <2> DEFINE o1 == [o EXCEPT !.at = "refresh"]
             o2 == [o1 EXCEPT !.retried = TRUE]
  <2>1. x = o2
    BY <1>5
  <2>2. o1 \in Operations /\ o1.at = "refresh" /\ Same(o1, o)
    BY <1>1
  <2> HIDE DEF o1
  <2>3. o2 \in Operations /\ o2.at = "refresh" /\ Same(o2, o)
    BY <2>2, RetriedChanges DEF Same
  <2> HIDE DEF o2
  <2> QED
    BY <2>1, <2>3
<1> QED
  BY <1>2, <1>3, <1>4, <1>5

\* Sequences of copies.
LEMMA CopiesAre ==
  /\ <<>> \in Seq(UndoSteps)
  /\ \A q \in Seq(UndoSteps) : q # <<>> => q[1] \in UndoSteps /\ q[1].what \in {"secrets", "config"} /\ Len(q) >= 1
<1>1. <<>> \in Seq(UndoSteps)
  OBVIOUS
<1>2. ASSUME NEW q \in Seq(UndoSteps), q # <<>>
      PROVE  q[1] \in UndoSteps /\ q[1].what \in {"secrets", "config"} /\ Len(q) >= 1
  <2>1. q[1] \in UndoSteps /\ Len(q) >= 1
    BY <1>2
  <2> QED
    BY <2>1 DEF UndoSteps
<1> QED
  BY <1>1, <1>2

\* What there is to undo, and where that leads.
LEMMA UnwindIs ==
  ASSUME NEW o \in Operations, NEW steps \in Seq(UndoSteps)
  PROVE  LET x == [NoOperation EXCEPT !.op = o.op, !.on = o.on, !.undo = steps, !.was = o.was,
                     !.at = IF steps = <<>> THEN "failed" ELSE steps[1].what]
         IN /\ OperationTyped(x) /\ x.op = o.op /\ x.on = o.on /\ x.undo = steps /\ x.was = o.was
            /\ x.at = IF steps = <<>> THEN "failed" ELSE steps[1].what
<1> DEFINE a == IF steps = <<>> THEN "failed" ELSE steps[1].what
           x == [NoOperation EXCEPT !.op = o.op, !.on = o.on, !.undo = steps, !.was = o.was, !.at = a]
<1>1. a \in {"failed", "secrets", "config"} /\ (steps = <<>> => a = "failed")
      /\ (steps # <<>> => a = steps[1].what /\ a \in {"secrets", "config"})
  <2>1. CASE steps = <<>>
    BY <2>1
  <2>2. CASE steps # <<>>
    <3>1. steps[1] \in UndoSteps
      BY <2>2
    <3> QED
      BY <2>2, <3>1 DEF UndoSteps
  <2> QED
    BY <2>1, <2>2
<1> HIDE DEF a
<1> DEFINE any == CHOOSE s \in McpServers : TRUE
           All == [op : {"none", "use", "save", "sign in", "sign in, save", "test", "remove", "enable"},
                   at : Places \cup {"idle"}, on : McpServers \cup {any}, config : ServerConfigs, key : BOOLEAN,
                   test : BOOLEAN, undo : Seq(UndoSteps), list : {<<>>} \cup [McpServers -> ServerConfigs],
                   ask : {"initialize", "call"}, retried : BOOLEAN, again : BOOLEAN, token : Nat,
                   was : {<<>>} \cup (ServerConfigs \X Secrets)]
           n1 == [NoOperation EXCEPT !.op = o.op]
           n2 == [n1 EXCEPT !.on = o.on]
           n3 == [n2 EXCEPT !.undo = steps]
           n4 == [n3 EXCEPT !.was = o.was]
           n5 == [n4 EXCEPT !.at = a]
<1>2. x = n5
  OBVIOUS
<1>3. NoOperation \in All /\ NoOperation.list = <<>>
  <2>1. NoServer \in ServerConfigs
    BY DEF NoServer, ServerConfigs
  <2>2. <<>> \in Seq(UndoSteps) /\ any \in McpServers \cup {any}
    OBVIOUS
  <2>3. NoOperation = [op |-> "none", at |-> "idle", on |-> any, config |-> NoServer, key |-> FALSE, test |-> TRUE,
                       undo |-> <<>>, list |-> <<>>, ask |-> "initialize", retried |-> FALSE, again |-> FALSE,
                       token |-> 0, was |-> <<>>]
    BY DEF NoOperation
  <2> HIDE DEF any
  <2> QED
    BY <2>1, <2>2, <2>3
<1> HIDE DEF x, any
<1>4. n1 \in All /\ n1.op = o.op
  <2> DEFINE ops == {"none", "use", "save", "sign in", "sign in, save", "test", "remove", "enable"}
  <2>1. o.op \in ops
    BY DEF Operations
  <2> HIDE DEF ops
  <2>2. n1.op = o.op
    BY <1>3
  <2> QED
    BY <1>3, <2>1, <2>2 DEF ops
<1> HIDE DEF n1
<1>5. n2 \in All /\ n2.op = o.op /\ n2.on = o.on
  BY <1>4 DEF Operations
<1> HIDE DEF n2
<1>6. n3 \in All /\ n3.op = o.op /\ n3.on = o.on /\ n3.undo = steps
  BY <1>5
<1> HIDE DEF n3
<1>7. n4 \in All /\ n4.op = o.op /\ n4.on = o.on /\ n4.undo = steps /\ n4.was = o.was
  BY <1>6 DEF Operations
<1> HIDE DEF n4
<1>8. n5 \in All /\ n5.op = o.op /\ n5.on = o.on /\ n5.undo = steps /\ n5.was = o.was /\ n5.at = a
  <2>1. a \in Places
    BY <1>1 DEF Places, Undoing
  <2> QED
    BY <1>7, <2>1
<1> HIDE DEF n5
<1>9. x \in Operations
  <2>1. o.op \in {"use", "save", "sign in", "sign in, save", "test", "remove", "enable"} /\ o.on \in McpServers
        /\ a \in Places
    BY <1>1 DEF Operations, Places, Undoing
  <2> QED
    <3> DEFINE ops == {"use", "save", "sign in", "sign in, save", "test", "remove", "enable"}
    <3>1. Operations = [op : ops, at : Places, on : McpServers, config : ServerConfigs, key : BOOLEAN,
                   test : BOOLEAN, undo : Seq(UndoSteps), list : {<<>>} \cup [McpServers -> ServerConfigs],
                   ask : {"initialize", "call"}, retried : BOOLEAN, again : BOOLEAN, token : Nat,
                   was : {<<>>} \cup (ServerConfigs \X Secrets)]
      BY DEF Operations, Places
    <3>2. n5.op \in ops /\ n5.at \in Places /\ n5.on \in McpServers
      BY <1>8, <2>1
    <3> HIDE DEF ops
    <3>3. n5 \in Operations
      BY <1>8, <3>1, <3>2
    <3> QED
      BY <1>2, <3>3
<1>10. OperationTyped(x)
  BY <1>1, <1>2, <1>8, <1>9 DEF OperationTyped
<1> QED
  BY <1>2, <1>10, <1>8 DEF x, a

\* What is known of an operation that is under way.
LEMMA UserHas ==
  ASSUME McpInv, NEW u \in McpUsers, Me(u).at # "idle"
  PROVE  /\ users[u] \in Operations /\ users[u] # NoOperation /\ OperationTyped(users[u])
         /\ Server(u) \in McpServers /\ Server(u) = users[u].on
         /\ users[u].undo \in Seq(UndoSteps) /\ Len(users[u].undo) \in Nat
         /\ Server(u) \notin entangled => Goes(users[u], registry[Server(u)], vault[Server(u)])
<1>1. users[u] # NoOperation
  BY IdleIs DEF Me
<1>2. users[u] \in Operations /\ OperationTyped(users[u])
  BY <1>1 DEF McpInv, McpTyped
<1>3. Server(u) \in McpServers /\ Server(u) = users[u].on
  BY <1>2 DEF Server, Operations
<1>4. users[u].undo \in Seq(UndoSteps)
  BY <1>2 DEF Operations
<1>5. Len(users[u].undo) \in Nat
  BY <1>4
<1> QED
  BY <1>1, <1>2, <1>3, <1>4, <1>5 DEF McpInv, McpSound, OnServer

\* User u goes on to x, and neither settings nor secrets change.
LEMMA QuietMoves ==
  ASSUME McpInv, NEW u \in McpUsers, Me(u).at # "idle", NEW x \in Operations \cup {NoOperation},
         x # NoOperation => OperationTyped(x) /\ x.on = users[u].on,
         users' = [users EXCEPT ![u] = x], UNCHANGED <<registry, vault>>, given' \in Nat, entangled' = entangled,
         ASSUME Server(u) \notin entangled, Goes(users[u], registry[Server(u)], vault[Server(u)])
         PROVE  /\ x # NoOperation => Goes(x, registry[Server(u)], vault[Server(u)])
                /\ Midway(users[u], registry[Server(u)]) => Midway(x, registry[Server(u)])
                /\ x.was # <<>> =>
                     \/ x.was = users[u].was
                     \/ /\ x.was = <<registry[Server(u)], vault[Server(u)]>>
                        /\ ~Midway(users[u], registry[Server(u)])
  PROVE  McpInv'
<1> DEFINE s == Server(u)
<1>1. users[u] \in Operations /\ users[u] # NoOperation /\ s \in McpServers /\ s = users[u].on
      /\ (s \notin entangled => Goes(users[u], registry[s], vault[s]))
  BY UserHas
<1>2. s \notin entangled =>
        /\ x # NoOperation => Goes(x, registry[s], vault[s])
        /\ Midway(users[u], registry[s]) => Midway(x, registry[s])
        /\ x.was # <<>> =>
             x.was = users[u].was \/ (x.was = <<registry[s], vault[s]>> /\ ~Midway(users[u], registry[s]))
  BY <1>1
<1>3. registry' = registry /\ vault' = vault /\ registry' \in [McpServers -> ServerConfigs]
      /\ vault' \in [McpServers -> Secrets]
  BY DEF McpInv, McpTyped
<1>4. PICK t \in McpServers : t = s
  BY <1>1
<1>5. x # NoOperation => OperationTyped(x) /\ x.on = t
  BY <1>1, <1>4
<1>6. Server(u) = t
  BY <1>4
<1> HIDE DEF s
<1>7. t \notin entangled' =>
        \/ /\ registry'[t] = registry[t] /\ vault'[t] = vault[t]
           /\ Midway(users[u], registry[t]) => Midway(x, registry[t])
        \/ /\ Others(u, t) = {}
           /\ Midway(x, registry'[t]) \/ Fits(registry'[t], vault'[t])
  BY <1>2, <1>3, <1>4
<1>8. t \notin entangled' /\ x # NoOperation => Goes(x, registry'[t], vault'[t])
  BY <1>2, <1>3, <1>4
<1>9. t \notin entangled' /\ x.was # <<>> =>
        \/ x.was = users[u].was
        \/ /\ x.was = <<registry[t], vault[t]>> /\ ~Midway(users[u], registry[t])
           /\ registry'[t] = registry[t] /\ vault'[t] = vault[t]
  BY <1>2, <1>3, <1>4
<1> QED
  BY <1>3, <1>5, <1>6, <1>7, <1>8, <1>9, Moves

\* User u goes on to x, and sets what the keyring has of its server, or has it from a use
\* with the settings that are there.
LEMMA VaultMoves ==
  ASSUME McpInv, NEW u \in McpUsers, Me(u).at # "idle", NEW x \in Operations \cup {NoOperation}, NEW w \in Secrets,
         x # NoOperation => OperationTyped(x) /\ x.on = users[u].on, x.was # <<>> => x.was = users[u].was,
         users' = [users EXCEPT ![u] = x], SetsVault(u, w), registry' = registry, given' \in Nat,
         ASSUME Server(u) \notin entangled, Goes(users[u], registry[Server(u)], vault[Server(u)]),
                users[u].op = "use" => registry[Server(u)] = users[u].config,
                Fits(registry[Server(u)], vault[Server(u)]) \/ Midway(users[u], registry[Server(u)]),
                users[u].was # <<>> => Fits(users[u].was[1], users[u].was[2])
         PROVE  /\ x # NoOperation => Goes(x, registry[Server(u)], w)
                /\ Midway(x, registry[Server(u)]) \/ Fits(registry[Server(u)], w)
  PROVE  McpInv'
<1> DEFINE s == Server(u)
<1>1. users[u] \in Operations /\ users[u] # NoOperation /\ s \in McpServers /\ s = users[u].on
      /\ (s \notin entangled => Goes(users[u], registry[s], vault[s]))
  BY UserHas
<1>2. /\ vault' = [vault EXCEPT ![s] = w]
      /\ entangled' = IF Others(u, s) # {} \/ (users[u].op = "use" /\ registry[s] # users[u].config)
                        THEN entangled \cup {s} ELSE entangled
  BY DEF SetsVault, Leaves, Crosses, Me
<1>3. registry' \in [McpServers -> ServerConfigs] /\ vault' \in [McpServers -> Secrets] /\ vault'[s] = w
      /\ \A t \in McpServers \ {s} : registry'[t] = registry[t] /\ vault'[t] = vault[t]
  BY <1>1, <1>2 DEF McpInv, McpTyped
<1>4. entangled \subseteq entangled'
  BY <1>2
<1>5. s \notin entangled' => s \notin entangled /\ Others(u, s) = {}
                             /\ (users[u].op = "use" => registry[s] = users[u].config)
  BY <1>2
<1>6. ASSUME s \notin entangled'
      PROVE  /\ Fits(registry[s], vault[s]) \/ Midway(users[u], registry[s])
             /\ users[u].was # <<>> => Fits(users[u].was[1], users[u].was[2])
  <2>1. ASSUME NEW v \in McpUsers \ {u}, OnServer(v, s)
        PROVE  ~Midway(users[v], registry[s])
    <3>1. users[v].at # "idle" /\ Server(v) = s
      BY <2>1 DEF OnServer, McpInv, McpTyped, Operations, Trying, Undoing
    <3>2. users[v].op = "use"
      BY <1>5, <1>6, <3>1 DEF Others
    <3> QED
      BY <3>2 DEF Midway
  <2>2. /\ Fits(registry[s], vault[s]) \/ \E v \in McpUsers : OnServer(v, s) /\ Midway(users[v], registry[s])
        /\ users[u].was # <<>> =>
             \/ Fits(users[u].was[1], users[u].was[2])
             \/ \E v \in McpUsers \ {u} : OnServer(v, s) /\ Midway(users[v], registry[s])
    BY <1>1, <1>5, <1>6 DEF McpInv, McpSound, OnServer
  <2> QED
    BY <2>1, <2>2
<1>7. ASSUME s \notin entangled'
      PROVE  /\ x # NoOperation => Goes(x, registry[s], w)
             /\ Midway(x, registry[s]) \/ Fits(registry[s], w)
  BY <1>1, <1>5, <1>6, <1>7
<1>8. PICK t \in McpServers : t = s
  BY <1>1
<1>9. (x # NoOperation => OperationTyped(x) /\ x.on = t) /\ Server(u) = t
  BY <1>1, <1>8
<1> HIDE DEF s
<1>10. t \notin entangled' =>
         \/ /\ registry'[t] = registry[t] /\ vault'[t] = vault[t]
            /\ Midway(users[u], registry[t]) => Midway(x, registry[t])
         \/ /\ Others(u, t) = {}
            /\ Midway(x, registry'[t]) \/ Fits(registry'[t], vault'[t])
  BY <1>3, <1>5, <1>7, <1>8
<1>11. t \notin entangled' /\ x # NoOperation => Goes(x, registry'[t], vault'[t])
  BY <1>3, <1>7, <1>8
<1>12. t \notin entangled' /\ x.was # <<>> =>
        \/ x.was = users[u].was
        \/ /\ x.was = <<registry[t], vault[t]>> /\ ~Midway(users[u], registry[t])
           /\ registry'[t] = registry[t] /\ vault'[t] = vault[t]
  OBVIOUS
<1>13. \A r \in McpServers \ {t} : r \notin entangled' => registry'[r] = registry[r] /\ vault'[r] = vault[r]
  BY <1>3, <1>8
<1> QED
  BY <1>3, <1>4, <1>9, <1>10, <1>11, <1>12, <1>13, Moves

\* User u goes on to x, and replaces the file, with c as the settings of its server.
LEMMA FileMoves ==
  ASSUME McpInv, NEW u \in McpUsers, Me(u).at # "idle", NEW x \in Operations \cup {NoOperation},
         NEW c \in ServerConfigs,
         x # NoOperation => OperationTyped(x) /\ x.on = users[u].on, x.was # <<>> => x.was = users[u].was,
         users' = [users EXCEPT ![u] = x], Me(u).list \in [McpServers -> ServerConfigs], Writes(u, c),
         vault' = vault, given' \in Nat,
         ASSUME Server(u) \notin entangled, Goes(users[u], registry[Server(u)], vault[Server(u)]),
                Fits(registry[Server(u)], vault[Server(u)]) \/ Midway(users[u], registry[Server(u)]),
                users[u].was # <<>> => Fits(users[u].was[1], users[u].was[2])
         PROVE  /\ x # NoOperation => Goes(x, c, vault[Server(u)])
                /\ Midway(x, c) \/ Fits(c, vault[Server(u)])
  PROVE  McpInv'
<1> DEFINE s == Server(u)
           list == users[u].list
<1>1. users[u] \in Operations /\ users[u] # NoOperation /\ s \in McpServers /\ s = users[u].on
      /\ (s \notin entangled => Goes(users[u], registry[s], vault[s]))
  BY UserHas
<1>2. /\ registry' = [list EXCEPT ![s] = c] /\ list \in [McpServers -> ServerConfigs]
      /\ entangled' = entangled \cup {t \in McpServers : list[t] # registry[t]}
                        \cup (IF Others(u, s) = {} THEN {} ELSE {s})
  BY DEF Writes, Overwrites, Me
<1>3. registry' \in [McpServers -> ServerConfigs] /\ vault' \in [McpServers -> Secrets] /\ registry'[s] = c
      /\ \A t \in McpServers \ {s} : t \notin entangled' => registry'[t] = registry[t] /\ vault'[t] = vault[t]
  BY <1>1, <1>2 DEF McpInv, McpTyped
<1>4. entangled \subseteq entangled'
  BY <1>2
<1>5. s \notin entangled' => s \notin entangled /\ Others(u, s) = {}
  BY <1>2
<1>6. ASSUME s \notin entangled'
      PROVE  /\ Fits(registry[s], vault[s]) \/ Midway(users[u], registry[s])
             /\ users[u].was # <<>> => Fits(users[u].was[1], users[u].was[2])
  <2>1. ASSUME NEW v \in McpUsers \ {u}, OnServer(v, s)
        PROVE  ~Midway(users[v], registry[s])
    <3>1. users[v].at # "idle" /\ Server(v) = s
      BY <2>1 DEF OnServer, McpInv, McpTyped, Operations, Trying, Undoing
    <3>2. users[v].op = "use"
      BY <1>5, <1>6, <3>1 DEF Others
    <3> QED
      BY <3>2 DEF Midway
  <2>2. /\ Fits(registry[s], vault[s]) \/ \E v \in McpUsers : OnServer(v, s) /\ Midway(users[v], registry[s])
        /\ users[u].was # <<>> =>
             \/ Fits(users[u].was[1], users[u].was[2])
             \/ \E v \in McpUsers \ {u} : OnServer(v, s) /\ Midway(users[v], registry[s])
    BY <1>1, <1>5, <1>6 DEF McpInv, McpSound, OnServer
  <2> QED
    BY <2>1, <2>2
<1>7. ASSUME s \notin entangled'
      PROVE  /\ x # NoOperation => Goes(x, c, vault[s])
             /\ Midway(x, c) \/ Fits(c, vault[s])
  BY <1>1, <1>5, <1>6, <1>7
<1>8. PICK t \in McpServers : t = s
  BY <1>1
<1>9. (x # NoOperation => OperationTyped(x) /\ x.on = t) /\ Server(u) = t
  BY <1>1, <1>8
<1> HIDE DEF s, list
<1>10. t \notin entangled' =>
         \/ /\ registry'[t] = registry[t] /\ vault'[t] = vault[t]
            /\ Midway(users[u], registry[t]) => Midway(x, registry[t])
         \/ /\ Others(u, t) = {}
            /\ Midway(x, registry'[t]) \/ Fits(registry'[t], vault'[t])
  BY <1>3, <1>5, <1>7, <1>8
<1>11. t \notin entangled' /\ x # NoOperation => Goes(x, registry'[t], vault'[t])
  BY <1>3, <1>7, <1>8
<1>12. t \notin entangled' /\ x.was # <<>> =>
        \/ x.was = users[u].was
        \/ /\ x.was = <<registry[t], vault[t]>> /\ ~Midway(users[u], registry[t])
           /\ registry'[t] = registry[t] /\ vault'[t] = vault[t]
  OBVIOUS
<1>13. \A r \in McpServers \ {t} : r \notin entangled' => registry'[r] = registry[r] /\ vault'[r] = vault[r]
  BY <1>3, <1>8
<1> QED
  BY <1>3, <1>4, <1>9, <1>10, <1>11, <1>12, <1>13, Moves

\* User u goes on to x on a server that counts as entangled from now on.
LEMMA GivesUp ==
  ASSUME McpInv, NEW u \in McpUsers, Me(u).at # "idle", NEW x \in Operations \cup {NoOperation}, NEW w \in Secrets,
         x # NoOperation => OperationTyped(x) /\ x.on = users[u].on,
         users' = [users EXCEPT ![u] = x], Leaves(u, w, TRUE), registry' = registry, given' \in Nat
  PROVE  McpInv'
<1>1. PICK s \in McpServers : s = Server(u) /\ s = users[u].on
  BY UserHas
<1>2. vault' = [vault EXCEPT ![s] = w] /\ entangled' = entangled \cup {s}
  BY <1>1 DEF Leaves, Crosses
<1>3. /\ registry' \in [McpServers -> ServerConfigs] /\ vault' \in [McpServers -> Secrets]
      /\ \A t \in McpServers \ {s} : registry'[t] = registry[t] /\ vault'[t] = vault[t]
  BY <1>1, <1>2 DEF McpInv, McpTyped
<1>4. s \in entangled' /\ entangled \subseteq entangled' /\ Server(u) = s
  BY <1>1, <1>2
<1>5. x # NoOperation => OperationTyped(x) /\ x.on = s
  BY <1>1
<1> QED
  BY <1>3, <1>4, <1>5, Moves

\* Secrets that are some of these and some of those.
LEMMA PartlyIs ==
  ASSUME NEW v \in Secrets, NEW w \in Secrets, NEW x \in Partly(v, w)
  PROVE  x \in Secrets /\ x.key \in {v.key, w.key} /\ x.access \in {v.access, w.access}
         /\ x.refresh \in {v.refresh, w.refresh}
<1>1. /\ x = [key |-> x.key, access |-> x.access, refresh |-> x.refresh]
      /\ x.key \in {v.key, w.key} /\ x.access \in {v.access, w.access} /\ x.refresh \in {v.refresh, w.refresh}
  BY DEF Partly
<1>2. x.key \in Nat /\ x.access \in Nat /\ x.refresh \in Nat
  BY <1>1 DEF Secrets
<1> QED
  BY <1>1, <1>2 DEF Secrets

\* What is seen of secrets is secrets.
LEMMA SeenIs == \A v \in Secrets : \A seen \in Seen(v) : seen \in Secrets
<1>1. NoSecrets \in Secrets
  BY DEF NoSecrets, Secrets
<1> QED
  BY <1>1, PartlyIs DEF Seen

\* The secrets with the tokens of an answer.
LEMMA StoredIs ==
  ASSUME McpInv, NEW u \in McpUsers, Me(u).at = "store"
  PROVE  Stored(u) \in Secrets /\ Stored(u).key = vault[Server(u)].key
<1>1. Me(u).at # "idle" /\ Me(u) = users[u]
  BY DEF Me
<1>2. users[u] \in Operations /\ vault[Server(u)] \in Secrets
  BY <1>1, UserHas DEF McpInv, McpTyped
<1>3. Me(u).token \in Nat
  BY <1>1, <1>2 DEF Operations
<1> QED
  BY <1>2, <1>3 DEF Stored, Secrets

\* The secrets that settings of this kind use.
LEMMA UsedIs ==
  ASSUME NEW v \in Secrets, NEW kind
  PROVE  /\ Used(kind, v) \in Secrets
         /\ kind = "key" => Used(kind, v).key = v.key
         /\ kind # "key" => Used(kind, v).key = 0
         /\ kind # "oauth" => Used(kind, v).access = 0 /\ Used(kind, v).refresh = 0
BY DEF Used, NoSecrets, Secrets

--------------------------------------------------------------------------------
\* An operation begins.
LEMMA StartsKeep ==
  ASSUME McpInv, NEW u \in McpUsers, NEW s \in McpServers, NEW x \in Operations, OperationTyped(x), x.on = s,
         x.undo = <<>>, x.was = <<>>, x.at \in {"keep", "connect", "put"},
         x.op = "use" <=> x.at = "connect", x.op = "enable" <=> x.at = "put",
         Placed(x), StillSo(x, registry[s], vault[s]),
         users[u] = NoOperation, users' = [users EXCEPT ![u] = x],
         UNCHANGED <<registry, vault, given, entangled>>
  PROVE  McpInv'
<1>1. ~Midway(users[u], registry[s])
  BY IdleIs
<1>2. Shaped(x)
  <2>1. Len(x.undo) = 0 /\ x.at \notin Undoing /\ (x.op \notin {"use", "enable"} => x.at = "keep") /\ x.at # "failed"
    BY DEF Undoing, Operations
  <2>2. ~(Len(x.undo) >= 1) /\ ~(Len(x.undo) >= 2) /\ ~(Len(x.undo) >= 3) /\ Len(x.undo) # 1
        /\ Len(x.undo) # 2 /\ Len(x.undo) <= 4 /\ Len(x.undo) <= 2 /\ Len(x.undo) <= 1
    BY <2>1
  <2>3. x.op \in {"save", "sign in, save", "sign in", "test", "remove"} => x.at = "keep"
    BY <2>1
  <2> QED
    BY <2>1, <2>2, <2>3, Zenon DEF Shaped
<1>3. Traced(x, registry[s], vault[s])
  BY DEF Traced
<1>4. Goes(x, registry[s], vault[s])
  BY <1>2, <1>3 DEF Goes
<1>5. registry \in [McpServers -> ServerConfigs] /\ vault \in [McpServers -> Secrets] /\ given \in Nat
  BY DEF McpInv, McpTyped
<1> QED
  BY <1>1, <1>4, <1>5, Moves

\* A user takes up an operation: nothing of the server has changed by it.
LEMMA BeginsKeep ==
  ASSUME McpInv, NEW u \in McpUsers, NEW s \in McpServers,
         \/ SaveStarts(u, s) \/ AuthorizeStarts(u, s) \/ TestStarts(u, s)
         \/ RemoveStarts(u, s) \/ ToggleStarts(u, s) \/ UseStarts(u, s)
  PROVE  McpInv'
<1>1. Configs \subseteq ServerConfigs /\ NoServer \in ServerConfigs
  BY DEF Configs, ServerConfigs, NoServer
<1>2. registry[s] \in ServerConfigs
  BY DEF McpInv, McpTyped
<1>3. /\ \A c \in Configs : c.kind # "none"
      /\ registry[s] # NoServer => registry[s].kind # "none"
      /\ registry[s].enabled => registry[s].kind # "none"
  <2>1. \A c \in Configs : c.kind # "none"
    BY DEF Configs
  <2>2. ASSUME registry[s] # NoServer PROVE registry[s].kind # "none"
    BY <1>2, <2>2 DEF ServerConfigs
  <2>3. ~NoServer.enabled
    BY DEF NoServer
  <2> QED
    BY <2>1, <2>2, <2>3, Zenon
<1>4. ASSUME NEW op \in {"use", "save", "sign in", "sign in, save", "test", "remove", "enable"},
             NEW at \in {"keep", "connect", "put"}, NEW c \in ServerConfigs,
             NEW key \in BOOLEAN, NEW test \in BOOLEAN, OpBegins(u, op, at, s, c, key, test),
             op = "use" <=> at = "connect", op = "enable" <=> at = "put", op = "test" => test = TRUE,
             op \in {"sign in", "sign in, save"} => c.kind = "oauth",
             op \in {"sign in", "enable"} => c.kind = registry[s].kind,
             op # "remove" => c.kind # "none", op = "remove" => c = NoServer
      PROVE  McpInv'
  <2> DEFINE begun == [NoOperation EXCEPT !.op = op, !.at = at, !.on = s, !.config = c, !.key = key, !.test = test]
  <2>1. users[u] = NoOperation /\ users' = [users EXCEPT ![u] = begun] /\ UNCHANGED <<registry, vault, given, entangled>>
    BY <1>4, Zenon DEF OpBegins, UserGoes, stored
  <2>2. PICK x : x = begun
    OBVIOUS
  <2>3. /\ x \in Operations /\ OperationTyped(x) /\ x.op = op /\ x.at = at /\ x.on = s /\ x.config = c
        /\ x.undo = <<>> /\ x.was = <<>> /\ x.test = test
    <3> DEFINE any == CHOOSE r \in McpServers : TRUE
               All == [op : {"none", "use", "save", "sign in", "sign in, save", "test", "remove", "enable"},
                       at : Places \cup {"idle"}, on : McpServers \cup {any}, config : ServerConfigs, key : BOOLEAN,
                       test : BOOLEAN, undo : Seq(UndoSteps), list : {<<>>} \cup [McpServers -> ServerConfigs],
                       ask : {"initialize", "call"}, retried : BOOLEAN, again : BOOLEAN, token : Nat,
                       was : {<<>>} \cup (ServerConfigs \X Secrets)]
               n1 == [NoOperation EXCEPT !.op = op]
               n2 == [n1 EXCEPT !.at = at]
               n3 == [n2 EXCEPT !.on = s]
               n4 == [n3 EXCEPT !.config = c]
               n5 == [n4 EXCEPT !.key = key]
               n6 == [n5 EXCEPT !.test = test]
    <3>1. x = n6
      BY <2>2
    <3>2. NoOperation \in All /\ NoOperation.undo = <<>> /\ NoOperation.was = <<>>
      <4>1. NoServer \in ServerConfigs
        BY DEF NoServer, ServerConfigs
      <4>2. <<>> \in Seq(UndoSteps)
        BY CopiesAre
      <4>3. NoOperation = [op |-> "none", at |-> "idle", on |-> any, config |-> NoServer, key |-> FALSE, test |-> TRUE,
                           undo |-> <<>>, list |-> <<>>, ask |-> "initialize", retried |-> FALSE, again |-> FALSE,
                           token |-> 0, was |-> <<>>]
        BY DEF NoOperation
      <4> HIDE DEF any
      <4>4. any \in McpServers \cup {any}
        OBVIOUS
      <4> QED
        BY <4>1, <4>2, <4>3, <4>4
    <3> HIDE DEF any
    <3>3. n1 \in All /\ n1.op = op /\ n1.undo = <<>> /\ n1.was = <<>>
      BY <3>2
    <3> HIDE DEF n1
    <3>4. n2 \in All /\ n2.op = op /\ n2.at = at /\ n2.undo = <<>> /\ n2.was = <<>>
      <4>1. at \in Places
        BY <1>4 DEF Places, Trying
      <4> QED
        BY <3>3, <4>1
    <3> HIDE DEF n2
    <3>5. n3 \in All /\ n3.op = op /\ n3.at = at /\ n3.on = s /\ n3.undo = <<>> /\ n3.was = <<>>
      BY <3>4
    <3> HIDE DEF n3
    <3>6. n4 \in All /\ n4.op = op /\ n4.at = at /\ n4.on = s /\ n4.config = c /\ n4.undo = <<>> /\ n4.was = <<>>
      BY <3>5
    <3> HIDE DEF n4
    <3>7. n5 \in All /\ n5.op = op /\ n5.at = at /\ n5.on = s /\ n5.config = c /\ n5.undo = <<>> /\ n5.was = <<>>
      BY <3>6
    <3> HIDE DEF n5
    <3>8. n6 \in All /\ n6.op = op /\ n6.at = at /\ n6.on = s /\ n6.config = c /\ n6.undo = <<>> /\ n6.was = <<>>
      BY <3>7
    <3>9. n6.test <=> test
      BY <3>7, Zenon
    <3> HIDE DEF n6
    <3>10. n6 \in Operations
      <4> DEFINE ops == {"use", "save", "sign in", "sign in, save", "test", "remove", "enable"}
      <4>1. Operations = [op : ops, at : Places, on : McpServers, config : ServerConfigs, key : BOOLEAN,
                     test : BOOLEAN, undo : Seq(UndoSteps), list : {<<>>} \cup [McpServers -> ServerConfigs],
                     ask : {"initialize", "call"}, retried : BOOLEAN, again : BOOLEAN, token : Nat,
                     was : {<<>>} \cup (ServerConfigs \X Secrets)]
        BY DEF Operations, Places
      <4>2. op \in ops /\ at \in Places /\ s \in McpServers
        BY DEF Places, Trying
      <4> HIDE DEF ops
      <4> QED
        BY <3>8, <4>1, <4>2
    <3>11. OperationTyped(n6)
      BY <3>8, <3>10 DEF OperationTyped
    <3> QED
      BY <3>1, <3>8, <3>9, <3>10, <3>11
  <2> HIDE DEF begun
  <2>4. users[u] = NoOperation /\ users' = [users EXCEPT ![u] = x] /\ UNCHANGED <<registry, vault, given, entangled>>
    BY <2>1, <2>2, Zenon
  <2>5. x.op = "test" => x.test = TRUE
    BY <1>4, <2>3, Zenon
  <2>6. /\ x.op = "use" <=> x.at = "connect"
        /\ x.op = "enable" <=> x.at = "put"
        /\ Placed(x) /\ StillSo(x, registry[s], vault[s])
        /\ x.at \in {"keep", "connect", "put"}
    <3>1. /\ x.op = "use" <=> x.at = "connect"
          /\ x.op = "enable" <=> x.at = "put"
          /\ x.op \in {"sign in", "sign in, save"} => x.config.kind = "oauth"
          /\ x.op \in {"sign in", "enable"} => x.config.kind = registry[s].kind
          /\ x.op # "remove" => x.config.kind # "none"
          /\ x.op = "remove" => x.config = NoServer
          /\ x.at \in {"keep", "connect", "put"}
      BY <1>4, <2>3, Zenon
    <3>2. x.op = "sign in" => registry[s].kind = "oauth"
      BY <3>1, Zenon
    <3>3. x.at \in {"keep", "connect", "put"} /\ ~(x.op = "save" /\ x.at = "connect")
          /\ ~(x.op = "save" /\ x.at = "put")
      BY <3>1, Zenon
    <3>4. ~(x.op = "save" /\ x.at \in Trying \cup {"store", "put", "write", "failing", "clean"})
          /\ x.at # "clean" /\ x.at # "wipe"
      BY <3>3 DEF Trying
    <3>5. StillSo(x, registry[s], vault[s])
      BY <3>1, <3>2, <3>4, Zenon DEF StillSo
    <3>6. x.op = "use" => x.at \in Trying \cup {"store", "failed"}
      BY <3>1 DEF Trying
    <3>7. x.op = "test" => x.at \in Trying \cup Undoing \cup {"keep", "supply", "check", "store"} /\ x.test
      BY <2>5, <3>1, Zenon
    <3>8. x.op = "remove" => x.at \in {"keep", "put", "write", "failing", "wipe"} \cup Undoing
      BY <3>1, Zenon
    <3>9. /\ x.at \in Trying => x.op \in {"use", "save", "test", "sign in"}
          /\ x.at \notin {"supply", "check", "clean", "wipe", "sign in", "nested", "refresh", "renew", "store"}
          /\ x.at \in {"put", "write", "failing"} => x.op \in {"save", "remove", "enable"}
          /\ x.op = "enable" => x.at \in {"put", "write", "failing"}
      BY <3>1, Zenon DEF Trying
    <3>10. Placed(x)
      BY <2>3, <3>1, <3>6, <3>7, <3>8, <3>9, Zenon DEF Placed
    <3> QED
      BY <3>1, <3>5, <3>10
  <2>7. x \in Operations /\ OperationTyped(x) /\ x.on = s /\ x.undo = <<>> /\ x.was = <<>>
    BY <2>3
  <2> QED
    BY <2>4, <2>6, <2>7, StartsKeep
<1>5. ASSUME NEW c \in Configs, NEW key \in BOOLEAN, NEW test \in BOOLEAN, OpBegins(u, "save", "keep", s, c, key, test)
      PROVE  McpInv'
  BY <1>1, <1>4, <1>5, <1>3, Zenon
<1>6. ASSUME NEW c \in Configs, c.kind = "oauth", OpBegins(u, "sign in, save", "keep", s, c, FALSE, TRUE)
      PROVE  McpInv'
  BY <1>1, <1>4, <1>6, <1>3, Zenon
<1>7. ASSUME registry[s].kind = "oauth", OpBegins(u, "sign in", "keep", s, registry[s], FALSE, TRUE)
      PROVE  McpInv'
  BY <1>2, <1>4, <1>7, <1>3, Zenon
<1>8. ASSUME NEW c \in Configs, NEW key \in BOOLEAN, OpBegins(u, "test", "keep", s, c, key, TRUE)
      PROVE  McpInv'
  BY <1>1, <1>4, <1>8, <1>3, Zenon
<1>9. ASSUME registry[s].kind # "none", OpBegins(u, "use", "connect", s, registry[s], FALSE, TRUE)
      PROVE  McpInv'
  BY <1>2, <1>4, <1>9, Zenon
<1>10. ASSUME OpBegins(u, "remove", "keep", s, NoServer, FALSE, FALSE)
       PROVE  McpInv'
  BY <1>1, <1>4, <1>10, <1>3, Zenon
<1>11. ASSUME ToggleStarts(u, s)
       PROVE  McpInv'
  <2> DEFINE c == [registry[s] EXCEPT !.enabled = ~@]
  <2>1. c \in ServerConfigs /\ c.kind = registry[s].kind /\ c.kind # "none"
    <3>1. registry[s] \in [kind : {"stdio", "key", "oauth"}, enabled : BOOLEAN]
      BY <1>2, <1>11 DEF ServerConfigs, ToggleStarts
    <3> QED
      BY <3>1 DEF ServerConfigs
  <2>2. OpBegins(u, "enable", "put", s, c, FALSE, FALSE)
    BY <1>11 DEF ToggleStarts
  <2> HIDE DEF c
  <2> QED
    BY <1>4, <2>1, <2>2, Zenon
<1>12. CASE SaveStarts(u, s)
  BY <1>5, <1>12, Zenon DEF SaveStarts
<1>13. CASE AuthorizeStarts(u, s)
  BY <1>6, <1>7, <1>13, Zenon DEF AuthorizeStarts
<1>14. CASE TestStarts(u, s)
  BY <1>8, <1>9, <1>14, <1>3, Zenon DEF TestStarts
<1>15. CASE RemoveStarts(u, s) \/ UseStarts(u, s)
  BY <1>9, <1>10, <1>15, <1>3, Zenon DEF RemoveStarts, UseStarts
<1> QED
  BY <1>11, <1>12, <1>13, <1>14, <1>15

--------------------------------------------------------------------------------
\* What cannot be done is undone, when neither settings nor secrets change in this step.
LEMMA FailsKeeps ==
  ASSUME McpInv, NEW u \in McpUsers, Fails(u), UNCHANGED <<registry, vault>>, given' \in Nat,
         entangled' = entangled,
         \/ Me(u).at \in Trying \cup {"supply", "check", "sign in", "store"}
         \/ Me(u).at = "failing" /\ Me(u).op = "save"
  PROVE  McpInv'
<1> DEFINE o == users[u]
           x == [NoOperation EXCEPT !.op = o.op, !.on = o.on, !.undo = o.undo, !.was = o.was,
                     !.at = IF o.undo = <<>> THEN "failed" ELSE o.undo[1].what]
<1>1. Me(u).at # "idle" /\ o.at \in Trying \cup {"supply", "check", "sign in", "store", "failing"}
      /\ (o.at = "failing" => o.op = "save")
  BY DEF Trying, Me
<1>2. o \in Operations /\ o # NoOperation /\ o.undo \in Seq(UndoSteps)
  BY <1>1, UserHas DEF Operations
<1>3. users' = [users EXCEPT ![u] = x]
  BY DEF Fails, Unwind, UserGoes, Me, Server
<1>4. /\ OperationTyped(x) /\ x.op = o.op /\ x.on = o.on /\ x.undo = o.undo /\ x.was = o.was
      /\ x.at = IF o.undo = <<>> THEN "failed" ELSE o.undo[1].what
  BY <1>2, UnwindIs
<1>5. x \in Operations
  BY <1>4 DEF OperationTyped
<1> HIDE DEF x
<1>6. ASSUME Server(u) \notin entangled, Goes(users[u], registry[Server(u)], vault[Server(u)])
      PROVE  /\ x # NoOperation => Goes(x, registry[Server(u)], vault[Server(u)])
             /\ Midway(users[u], registry[Server(u)]) => Midway(x, registry[Server(u)])
             /\ x.was # <<>> =>
                  \/ x.was = users[u].was
                  \/ /\ x.was = <<registry[Server(u)], vault[Server(u)]>>
                     /\ ~Midway(users[u], registry[Server(u)])
  <2> DEFINE c == registry[Server(u)]
             v == vault[Server(u)]
  <2>1. Placed(o) /\ Shaped(o) /\ (o.op # "use" => Traced(o, c, v) /\ StillSo(o, c, v))
    BY <1>6 DEF Goes
  <2> HIDE DEF c, v, o
  <2>2. o.op \in {"use", "save", "sign in", "sign in, save", "test"}
    BY <1>1, <1>2, <2>1 DEF Placed, Operations, Trying, Undoing
  <2>3. o.op = "use" => o.undo = <<>> /\ o.was = <<>>
    BY <2>1 DEF Placed
  <2>4. x.at \in {"failed", "secrets", "config"} /\ (x.at = "failed" => o.undo = <<>>)
    <3> DEFINE q == o.undo
    <3>1. q \in Seq(UndoSteps)
      BY <1>2
    <3> HIDE DEF q
    <3>2. q # <<>> => q[1].what \in {"secrets", "config"}
      BY <3>1, CopiesAre
    <3> QED
      BY <1>4, <3>2 DEF q
  <2>5. Placed(x)
    BY <1>4, <2>2, <2>3, <2>4 DEF Placed, Trying, Undoing
  <2>6. o.op # "use" => o.was # <<>>
    BY <1>1, <2>1, <2>2 DEF Shaped, Undoing, Trying
  <2>7. Shaped(x)
    BY <1>4, <2>1, <2>2, <2>4, <2>6 DEF Shaped, Undoing
  <2>8. o.op # "use" => Traced(x, c, v)
    BY <1>4, <2>1 DEF Traced
  <2>9. StillSo(x, c, v)
    BY <1>4, <2>2, <2>4 DEF StillSo, Trying, Undoing
  <2>10. Goes(x, c, v)
    BY <1>4, <2>5, <2>7, <2>8, <2>9 DEF Goes
  <2>11. Midway(o, c) => Midway(x, c)
    BY <1>4, <2>2 DEF Midway
  <2> QED
    BY <1>4, <2>10, <2>11 DEF o, c, v
<1> QED
  BY <1>1, <1>3, <1>4, <1>5, <1>6, QuietMoves

\* Every other step of an operation that changes nothing but its place.
LEMMA StepsOn ==
  ASSUME McpInv, NEW u \in McpUsers, Me(u).at # "idle", Me(u).at \notin Undoing \cup {"keep", "clean", "wipe"},
         NEW x \in Operations, OperationTyped(x), Same(x, users[u]), x.at \notin Undoing,
         users' = [users EXCEPT ![u] = x], UNCHANGED <<registry, vault>>, given' \in Nat, entangled' = entangled,
         ASSUME Server(u) \notin entangled, Placed(users[u]) PROVE Placed(x) /\ x.at \notin {"keep", "clean", "wipe"},
         Server(u) \notin entangled /\ Placed(users[u]) /\ users[u].op = "save"
           /\ x.at \in Trying \cup {"store", "put", "write", "failing"} /\ users[u].config.kind = "key" =>
             \/ users[u].at \in Trying \cup {"store", "put", "write", "failing"}
             \/ vault[Server(u)].key # 0
  PROVE  McpInv'
<1> DEFINE o == users[u]
<1>1. ASSUME Server(u) \notin entangled, Goes(users[u], registry[Server(u)], vault[Server(u)])
      PROVE  /\ x # NoOperation => Goes(x, registry[Server(u)], vault[Server(u)])
             /\ Midway(users[u], registry[Server(u)]) => Midway(x, registry[Server(u)])
             /\ x.was # <<>> =>
                  \/ x.was = users[u].was
                  \/ /\ x.was = <<registry[Server(u)], vault[Server(u)]>>
                     /\ ~Midway(users[u], registry[Server(u)])
  <2> DEFINE c == registry[Server(u)]
             v == vault[Server(u)]
  <2>1. Placed(o) /\ Shaped(o) /\ (o.op # "use" => Traced(o, c, v) /\ StillSo(o, c, v))
    BY <1>1 DEF Goes
  <2>2. Placed(x) /\ x.at \notin {"keep", "clean", "wipe"}
    BY <1>1, <2>1
  <2>3. Same(x, o) /\ o.at \notin Undoing \cup {"keep", "clean", "wipe"} /\ x.at \notin Undoing
        /\ (o.op = "save" /\ x.at \in Trying \cup {"store", "put", "write", "failing"} /\ o.config.kind = "key" =>
             o.at \in Trying \cup {"store", "put", "write", "failing"} \/ v.key # 0)
    BY <1>1, <2>1 DEF Me
  <2> HIDE DEF c, v, o
  <2>4. Shaped(x)
    BY <2>1, <2>2, <2>3 DEF Shaped, Same, Undoing
  <2>5. o.op # "use" => Traced(x, c, v)
    BY <2>1, <2>3 DEF Traced, Same
  <2>6. o.op # "use" => StillSo(x, c, v)
    BY <2>1, <2>2, <2>3 DEF StillSo, Same
  <2>7. Goes(x, c, v)
    BY <2>2, <2>3, <2>4, <2>5, <2>6 DEF Goes, Same
  <2>8. Midway(o, c) => Midway(x, c)
    <3>1. CASE o.op = "remove"
      <4>1. o.at \in {"put", "write", "failing"}
        BY <2>1, <2>3, <3>1 DEF Placed, Undoing
      <4> QED
        BY <2>2, <2>3, <3>1, <4>1 DEF Midway, Same, Undoing, Placed
    <3>2. CASE o.op # "remove"
      BY <2>3, <3>2 DEF Midway, Same
    <3> QED
      BY <3>1, <3>2
  <2> QED
    BY <2>3, <2>7, <2>8 DEF Same, o, c, v
<1> QED
  BY <1>1, QuietMoves DEF Same

\* An operation is over that has nothing left to undo or to put right.
LEMMA EndsKeep ==
  ASSUME McpInv, NEW u \in McpUsers, Me(u).at # "idle", users' = [users EXCEPT ![u] = NoOperation],
         UNCHANGED <<registry, vault>>, given' \in Nat, entangled' = entangled,
         \/ Me(u).at = "ask" /\ Me(u).op \notin {"save", "test"}
         \/ Me(u).at = "failing" /\ Me(u).op # "save"
         \/ Me(u).at = "failed"
  PROVE  McpInv'
<1> DEFINE o == users[u]
<1>1. o.at \in {"ask", "failing", "failed"} /\ (o.at = "ask" => o.op \notin {"save", "test"})
      /\ (o.at = "failing" => o.op # "save")
  BY DEF Me
<1>2. ASSUME NEW c, NEW v, Goes(o, c, v)
      PROVE  ~Midway(o, c)
  <2>1. Placed(o) /\ Shaped(o)
    BY <1>2 DEF Goes
  <2> HIDE DEF o
  <2>2. CASE o.at = "ask"
    <3>1. o.op \in {"use", "sign in"}
      BY <1>1, <2>1, <2>2 DEF Placed, Trying
    <3> QED
      BY <3>1 DEF Midway
  <2>3. CASE o.at = "failing"
    <3>1. o.op \in {"remove", "enable"}
      BY <1>1, <2>1, <2>3 DEF Placed
    <3> QED
      BY <2>3, <3>1 DEF Midway
  <2>4. CASE o.at = "failed"
    BY <2>1, <2>4 DEF Midway, Shaped
  <2> QED
    BY <1>1, <2>2, <2>3, <2>4
<1>3. NoOperation.was = <<>>
  BY IdleIs
<1> QED
  BY <1>2, <1>3, QuietMoves

\* A failure is shown.
LEMMA FailedKeeps ==
  ASSUME McpInv, NEW u \in McpUsers, Failed(u)
  PROVE  McpInv'
BY EndsKeep DEF Failed, Quiet, stored, UserGoes, Me, McpInv, McpTyped

\* The list was not written: a save undoes what it has done.
LEMMA FailingKeeps ==
  ASSUME McpInv, NEW u \in McpUsers, Failing(u)
  PROVE  McpInv'
<1>1. Me(u).at = "failing" /\ UNCHANGED <<registry, vault>> /\ given' \in Nat /\ entangled' = entangled
  BY DEF Failing, Quiet, stored, McpInv, McpTyped
<1>2. CASE Me(u).op = "save"
  BY <1>1, <1>2, FailsKeeps DEF Failing
<1>3. CASE Me(u).op # "save"
  BY <1>1, <1>3, EndsKeep DEF Failing, UserGoes
<1> QED
  BY <1>2, <1>3

\* Steps that only fail.
LEMMA FailuresKeep ==
  ASSUME McpInv, NEW u \in McpUsers, SignInFails(u) \/ NotRenewed(u) \/ NotAnswered(u) \/ TestStopped(u)
  PROVE  McpInv'
<1>1. UNCHANGED <<registry, vault>> /\ given' \in Nat /\ entangled' = entangled /\ Fails(u)
      /\ Me(u).at \in {"sign in", "supply", "check", "connect", "ask", "refresh", "renew", "store"}
  BY DEF SignInFails, NotRenewed, NotAnswered, TestStopped, Quiet, stored, McpInv, McpTyped
<1>2. Me(u).at \in Trying \cup {"supply", "check", "sign in", "store"}
  BY <1>1 DEF Trying
<1> QED
  BY <1>1, <1>2, FailsKeeps

\* The step to another place, with a new token or not.
LEMMA PlaceMoves ==
  ASSUME McpInv, NEW u \in McpUsers, Me(u).at # "idle", Me(u).at \notin Undoing \cup {"keep", "clean", "wipe"},
         NEW a \in Places \ Undoing, a \notin {"keep", "clean", "wipe", "write"},
         To(u, a) \/ (\E t \in Nat : UserGoes(u, [Me(u) EXCEPT !.at = a, !.token = t])),
         UNCHANGED <<registry, vault>>, given' \in Nat, entangled' = entangled,
         ASSUME NEW x, Same(x, users[u]), x.at = a, Server(u) \notin entangled, Placed(users[u]) PROVE Placed(x),
         Server(u) \notin entangled /\ Placed(users[u]) /\ users[u].op = "save"
           /\ a \in Trying \cup {"store", "put", "write", "failing"} /\ users[u].config.kind = "key" =>
             \/ users[u].at \in Trying \cup {"store", "put", "write", "failing"}
             \/ vault[Server(u)].key # 0
  PROVE  McpInv'
<1> DEFINE o == users[u]
<1>1. o \in Operations
  BY UserHas
<1>2. ASSUME NEW x, x \in Operations, x.at = a, Same(x, o), users' = [users EXCEPT ![u] = x]
      PROVE  McpInv'
  <2>1. OperationTyped(x)
    BY <1>2 DEF OperationTyped, Undoing
  <2>2. Server(u) \notin entangled /\ Placed(o) => Placed(x) /\ x.at \notin {"keep", "clean", "wipe"}
    BY <1>2
  <2> QED
    BY <1>2, <2>1, <2>2, StepsOn
<1>3. CASE To(u, a)
  <2> DEFINE x == [o EXCEPT !.at = a]
  <2>1. users' = [users EXCEPT ![u] = x]
    BY <1>3 DEF To, UserGoes, Me
  <2>2. x \in Operations /\ x.at = a /\ Same(x, o)
    BY <1>1, PlaceChanges
  <2> HIDE DEF x, o
  <2> QED
    BY <1>2, <2>1, <2>2
<1>4. CASE \E t \in Nat : UserGoes(u, [Me(u) EXCEPT !.at = a, !.token = t])
  <2>0. PICK t \in Nat : UserGoes(u, [Me(u) EXCEPT !.at = a, !.token = t])
    BY <1>4
  <2> DEFINE x == [o EXCEPT !.at = a, !.token = t]
  <2>1. users' = [users EXCEPT ![u] = x]
    BY <2>0 DEF UserGoes, Me
  <2>2. x \in Operations /\ x.at = a /\ Same(x, o)
    BY <1>1, TokenChanges
  <2> HIDE DEF x, o
  <2> QED
    BY <1>2, <2>1, <2>2
<1> QED
  BY <1>3, <1>4

\* A server with a key needs it before it is tried or written.
LEMMA CheckKeeps ==
  ASSUME McpInv, NEW u \in McpUsers, Check(u)
  PROVE  McpInv'
<1>1. Me(u).at = "check" /\ UNCHANGED <<registry, vault>> /\ given' \in Nat /\ entangled' = entangled
  BY DEF Check, Quiet, stored, McpInv, McpTyped
<1>2. CASE Fails(u)
  BY <1>1, <1>2, FailsKeeps
<1>3. CASE /\ Me(u).op = "save" /\ Me(u).config.kind = "key" => vault[Server(u)].key # 0
           /\ To(u, IF Me(u).test THEN "connect" ELSE "put")
  <2> DEFINE a == IF users[u].test THEN "connect" ELSE "put"
  <2>1. To(u, a)
    BY <1>3 DEF Me
  <2>2. a \in {"connect", "put"} /\ (a = "put" => ~users[u].test)
    OBVIOUS
  <2> HIDE DEF a
  <2>3. a \in Places \ Undoing /\ a \notin {"keep", "clean", "wipe", "write"}
        /\ Me(u).at \notin Undoing \cup {"keep", "clean", "wipe"} /\ Me(u).at # "idle"
    BY <1>1, <2>2 DEF Places, Trying, Undoing
  <2>4. ASSUME NEW x, Same(x, users[u]), x.at = a, Server(u) \notin entangled, Placed(users[u]) PROVE Placed(x)
    <3> DEFINE o == users[u]
    <3>1. Same(x, o) /\ Placed(o) /\ o.at = "check" /\ (x.at = "put" => ~o.test)
      BY <1>1, <2>2, <2>4 DEF Me
    <3> HIDE DEF o
    <3>2. o.op \in {"save", "test"} /\ (o.op = "test" => o.test)
      BY <3>1 DEF Placed, Undoing
    <3>3. x.op = o.op /\ (x.test <=> o.test) /\ x.at \in {"connect", "put"} /\ x.was = o.was /\ x.undo = o.undo
          /\ x.config.kind = o.config.kind
      BY <2>2, <2>4, <3>1 DEF Same
    <3>4. o.config.kind # "none"
      BY <3>1, <3>2 DEF Placed, Undoing
    <3> QED
      BY <3>1, <3>2, <3>3, <3>4 DEF Placed, Trying, Undoing
  <2>5. users[u].op = "save" /\ users[u].config.kind = "key" => vault[Server(u)].key # 0
    BY <1>3 DEF Me
  <2> QED
    BY <1>1, <2>1, <2>3, <2>4, <2>5, PlaceMoves
<1> QED
  BY <1>2, <1>3 DEF Check

\* Numbers of copies.
LEMMA Counts ==
  \A n \in Nat : (n >= 2 => n # 0 /\ ~(n <= 1) /\ n # 1) /\ (n = 1 => n # 0)
OBVIOUS

\* A place in a session leads to the next.
LEMMA SupplyKeeps ==
  ASSUME McpInv, NEW u \in McpUsers, SupplyKey(u)
  PROVE  McpInv'
<1> DEFINE o == users[u]
           s == Server(u)
<1>1. Me(u).at = "supply" /\ o.at = "supply" /\ registry' = registry
  BY DEF SupplyKey, Me
<1>2. o \in Operations /\ OperationTyped(o) /\ s \in McpServers /\ given \in Nat /\ vault[s] \in Secrets
  BY <1>1, UserHas DEF McpInv, McpTyped
<1>3. "check" \in Places \ Undoing /\ "check" \notin {"keep", "clean", "wipe", "write"}
      /\ Me(u).at \notin Undoing \cup {"keep", "clean", "wipe"} /\ Me(u).at # "idle"
      /\ "check" \notin Trying \cup {"store", "put", "write", "failing"}
  BY <1>1 DEF Places, Trying, Undoing
<1>4. ASSUME NEW x, Same(x, o), x.at = "check", Placed(o) PROVE Placed(x)
  <2>1. o.op \in {"save", "test"} /\ o.at = "supply"
    BY <1>1, <1>4 DEF Placed
  <2> HIDE DEF o
  <2> QED
    BY <1>4, <2>1 DEF Placed, Same, Trying, Undoing
<1>5. CASE ~Me(u).key /\ To(u, "check") /\ UNCHANGED <<vault, given, entangled>>
  BY <1>1, <1>2, <1>3, <1>4, <1>5, PlaceMoves
<1>6. CASE Fails(u) /\ UNCHANGED <<vault, given, entangled>>
  BY <1>1, <1>2, <1>6, FailsKeeps
<1>7. CASE /\ given' = given + 1
           /\ SetsVault(u, [vault[s] EXCEPT !.key = given + 1]) /\ To(u, "check")
  <2> DEFINE w == [vault[s] EXCEPT !.key = given + 1]
             x == [o EXCEPT !.at = "check"]
  <2>1. w \in Secrets /\ given' \in Nat
    BY <1>2, <1>7 DEF Secrets
  <2>2. users' = [users EXCEPT ![u] = x] /\ SetsVault(u, w)
    BY <1>7 DEF To, UserGoes, Me
  <2>3. x \in Operations /\ x.at = "check" /\ Same(x, o)
    BY <1>2, PlaceChanges DEF Places
  <2> HIDE DEF x, w
  <2>4. OperationTyped(x) /\ x.on = users[u].on /\ x.was = users[u].was
    BY <2>3 DEF OperationTyped, Same
  <2>5. ASSUME s \notin entangled, Goes(o, registry[s], vault[s])
        PROVE  /\ x # NoOperation => Goes(x, registry[s], w)
               /\ Midway(x, registry[s]) \/ Fits(registry[s], w)
    <3> DEFINE c == registry[s]
               v == vault[s]
    <3>1. Placed(o) /\ Shaped(o) /\ (o.op # "use" => Traced(o, c, v) /\ StillSo(o, c, v)) /\ o.at = "supply"
      BY <1>1, <2>5 DEF Goes
    <3> HIDE DEF c, v, o
    <3>2. Placed(x)
      BY <1>4, <2>3, <3>1
    <3>3. o.op \in {"save", "test"}
      BY <3>1 DEF Placed
    <3>4. x.op = o.op /\ x.undo = o.undo /\ x.was = o.was /\ x.at = "check"
      BY <2>3 DEF Same
    <3>5. Shaped(x)
      BY <3>1, <3>3, <3>4 DEF Shaped, Undoing
    <3>6. Len(o.undo) \in Nat
      BY <1>1, UserHas DEF o
    <3>7. (o.op = "save" => Len(o.undo) >= 2) /\ (o.op = "test" => Len(o.undo) = 1)
      BY <3>1, <3>3 DEF Shaped, Undoing
    <3>8. /\ o.op = "save" => Len(o.undo) # 0 /\ ~(Len(o.undo) <= 1) /\ Len(o.undo) # 1
          /\ o.op = "test" => Len(o.undo) # 0
      BY <3>7, <3>6, Counts, Zenon
    <3>9. Traced(x, c, w)
      <4>1. CASE o.op = "save"
        BY <3>1, <3>4, <3>8, <4>1, Zenon DEF Traced
      <4>2. CASE o.op = "test"
        BY <3>1, <3>4, <3>8, <4>2, Zenon DEF Traced
      <4> QED
        BY <3>3, <4>1, <4>2
    <3>10. StillSo(x, c, w)
      BY <3>3, <3>4 DEF StillSo, Trying
    <3>11. Goes(x, c, w)
      BY <3>2, <3>5, <3>9, <3>10 DEF Goes
    <3>12. o.undo # <<>>
      BY <3>3, <3>7
    <3>13. Midway(x, c)
      BY <3>3, <3>4, <3>12, <3>8, Zenon DEF Midway
    <3> QED
      BY <3>11, <3>13 DEF c
  <2> QED
    BY <1>1, <1>3, <2>1, <2>2, <2>3, <2>4, <2>5, VaultMoves
<1> QED
  BY <1>5, <1>6, <1>7 DEF SupplyKey

\* A sign-in or a renewal has led to tokens.
LEMMA TokensKeep ==
  ASSUME McpInv, NEW u \in McpUsers, SignInServer(u) \/ Renewed(u)
  PROVE  McpInv'
<1> DEFINE o == users[u]
<1>0. given \in Nat
  BY DEF McpInv, McpTyped
<1>1. Me(u).at \in {"sign in", "renew"} /\ o.at \in {"sign in", "renew"} /\ UNCHANGED <<registry, vault>>
      /\ entangled' = entangled /\ given + 1 \in Nat /\ given' \in Nat
      /\ UserGoes(u, [Me(u) EXCEPT !.at = "store", !.token = given + 1])
  <2>1. CASE SignInServer(u)
    <3>1. Me(u).at = "sign in" /\ UNCHANGED <<registry, vault>> /\ entangled' = entangled /\ given' = given + 1
          /\ UserGoes(u, [Me(u) EXCEPT !.at = "store", !.token = given + 1])
      BY <2>1, Zenon DEF SignInServer
    <3>2. o.at = "sign in"
      BY <3>1 DEF Me
    <3>3. given + 1 \in Nat
      BY <1>0
    <3>4. given' \in Nat
      BY <3>1, <3>3, Zenon
    <3> QED
      BY <3>1, <3>2, <3>3, <3>4, Zenon
  <2>2. CASE Renewed(u)
    BY <1>0, <2>2 DEF Renewed, Me
  <2> QED
    BY <2>1, <2>2
<1>2. "store" \in Places \ Undoing /\ "store" \notin {"keep", "clean", "wipe", "write"}
      /\ Me(u).at \notin Undoing \cup {"keep", "clean", "wipe"} /\ Me(u).at # "idle"
  BY <1>1 DEF Places, Trying, Undoing
<1>3. ASSUME NEW x, Same(x, o), x.at = "store", Server(u) \notin entangled, Placed(o) PROVE Placed(x)
  <2>1. o.at \in {"sign in", "renew"}
    BY <1>1
  <2> HIDE DEF o
  <2>2. o.op \in {"use", "save", "test", "sign in", "sign in, save"} /\ o.config.kind = "oauth"
    BY <1>3, <2>1 DEF Placed, Trying, Undoing
  <2> QED
    BY <1>3, <2>1, <2>2 DEF Placed, Same, Trying, Undoing
<1>4. Placed(o) /\ o.op = "save" /\ o.config.kind = "key" =>
        o.at \in Trying \cup {"store", "put", "write", "failing"} \/ vault[Server(u)].key # 0
  <2>1. CASE o.at = "renew"
    BY <2>1 DEF Trying
  <2>2. CASE o.at = "sign in"
    BY <2>2 DEF Placed
  <2> QED
    BY <1>1, <2>1, <2>2
<1> QED
  BY <1>1, <1>2, <1>3, <1>4, PlaceMoves

\* The refresh token is read.
LEMMA ReadRefreshKeeps ==
  ASSUME McpInv, NEW u \in McpUsers, ReadRefresh(u)
  PROVE  McpInv'
<1> DEFINE o == users[u]
<1>1. Me(u).at = "refresh" /\ o.at = "refresh" /\ UNCHANGED <<registry, vault>> /\ given' \in Nat
      /\ entangled' = entangled
  BY DEF ReadRefresh, Quiet, stored, McpInv, McpTyped, Me
<1>2. CASE Fails(u)
  <2>1. Me(u).at \in Trying
    BY <1>1 DEF Trying
  <2> QED
    BY <1>1, <1>2, <2>1, FailsKeeps
<1>3. CASE UserGoes(u, [Me(u) EXCEPT !.at = "renew", !.token = vault[Server(u)].refresh])
  <2> DEFINE t == vault[Server(u)].refresh
  <2>1. t \in Nat
    <3>1. Server(u) \in McpServers
      BY <1>1, UserHas
    <3>2. vault[Server(u)] \in Secrets
      BY <3>1 DEF McpInv, McpTyped
    <3> QED
      BY <3>2 DEF Secrets
  <2>2. UserGoes(u, [Me(u) EXCEPT !.at = "renew", !.token = t])
    BY <1>3
  <2> HIDE DEF t
  <2>3. \E n \in Nat : UserGoes(u, [Me(u) EXCEPT !.at = "renew", !.token = n])
    BY <2>1, <2>2
  <2>4. "renew" \in Places \ Undoing /\ "renew" \notin {"keep", "clean", "wipe", "write"}
        /\ Me(u).at \notin Undoing \cup {"keep", "clean", "wipe"} /\ Me(u).at # "idle"
    BY <1>1 DEF Places, Trying, Undoing
  <2>5. ASSUME NEW x, Same(x, o), x.at = "renew", Server(u) \notin entangled, Placed(o) PROVE Placed(x)
    <3>1. o.at = "refresh"
      BY <1>1
    <3> HIDE DEF o
    <3>2. o.op \in {"use", "save", "test", "sign in"} /\ o.config.kind = "oauth"
      BY <2>5, <3>1 DEF Placed, Trying
    <3> QED
      BY <2>5, <3>1, <3>2 DEF Placed, Same, Trying, Undoing
  <2>6. o.at \in Trying \cup {"store", "put", "write", "failing"}
    BY <1>1 DEF Trying
  <2> QED
    BY <1>1, <2>3, <2>4, <2>5, <2>6, PlaceMoves
<1> QED
  BY <1>2, <1>3 DEF ReadRefresh

\* The credential of a request is read.
LEMMA ConnectsKeeps ==
  ASSUME McpInv, NEW u \in McpUsers, Connect(u)
  PROVE  McpInv'
<1> DEFINE o == users[u]
           v == vault[Server(u)]
<1>1. Me(u).at = "connect" /\ o.at = "connect" /\ UNCHANGED <<registry, vault>> /\ given' \in Nat
      /\ entangled' = entangled
  BY DEF Connect, Quiet, stored, McpInv, McpTyped, Me
<1>2. Me(u).at \notin Undoing \cup {"keep", "clean", "wipe"} /\ Me(u).at # "idle" /\ Me(u).at \in Trying
      /\ o.at \in Trying \cup {"store", "put", "write", "failing"}
  BY <1>1 DEF Trying, Undoing
<1>3. o \in Operations /\ v.access \in Nat
  <2>1. Server(u) \in McpServers
    BY <1>1, UserHas
  <2>2. vault[Server(u)] \in Secrets
    BY <2>1 DEF McpInv, McpTyped
  <2> QED
    BY <1>1, <2>2, UserHas DEF Secrets
<1>4. o.config.kind \in {"none", "stdio", "key", "oauth"}
  <2>1. o.config \in ServerConfigs
    BY <1>3 DEF Operations
  <2>2. NoServer.kind = "none"
    BY DEF NoServer
  <2> QED
    BY <2>1, <2>2 DEF ServerConfigs
<1>5. ASSUME NEW x, Same(x, o), x.at = "ask", Placed(o) PROVE Placed(x)
  <2>1. o.at = "connect"
    BY <1>1
  <2> HIDE DEF o
  <2>2. o.op \in {"use", "save", "test", "sign in"}
    BY <1>5, <2>1 DEF Placed, Trying
  <2> QED
    BY <1>5, <2>1, <2>2 DEF Placed, Same, Trying, Undoing
<1>6. "ask" \in Places \ Undoing /\ "ask" \notin {"keep", "clean", "wipe", "write"}
      /\ "refresh" \in Places \ Undoing /\ "refresh" \notin {"keep", "clean", "wipe", "write"}
  BY DEF Places, Trying, Undoing
<1>7. CASE To(u, "ask") \/ (\E t \in Nat : UserGoes(u, [Me(u) EXCEPT !.at = "ask", !.token = t]))
  BY <1>1, <1>2, <1>5, <1>6, <1>7, PlaceMoves
<1>8. CASE Fails(u)
  BY <1>1, <1>2, <1>8, FailsKeeps
<1>9. CASE To(u, "refresh") /\ o.config.kind \notin {"stdio", "key"}
  <2>1. ASSUME NEW x, Same(x, o), x.at = "refresh", Placed(o) PROVE Placed(x)
    <3>1. o.at = "connect" /\ o.config.kind \in {"none", "oauth"}
      BY <1>1, <1>4, <1>9
    <3> HIDE DEF o
    <3>2. o.op \in {"use", "save", "test", "sign in"}
      BY <2>1, <3>1 DEF Placed, Trying
    <3>3. o.config.kind = "oauth"
      BY <2>1, <3>1, <3>2 DEF Placed, Undoing
    <3> QED
      BY <2>1, <3>1, <3>2, <3>3 DEF Placed, Same, Trying, Undoing
  <2> QED
    BY <1>1, <1>2, <1>6, <1>9, <2>1, PlaceMoves
<1> QED
  BY <1>1, <1>3, <1>7, <1>8, <1>9 DEF Connect, Me

\* An answer leads to the next request of a session, or out of it.
LEMMA AskMoves ==
  ASSUME McpInv, NEW u \in McpUsers, Me(u).at = "ask", NEW x \in Operations, Same(x, users[u]),
         x.at \in {"connect", "refresh", "put"}, x.at = "refresh" => users[u].config.kind = "oauth",
         x.at = "put" => users[u].op = "save", users' = [users EXCEPT ![u] = x], Quiet
  PROVE  McpInv'
<1> DEFINE o == users[u]
<1>1. Me(u).at # "idle" /\ Me(u).at \notin Undoing \cup {"keep", "clean", "wipe"} /\ x.at \notin Undoing
      /\ o.at = "ask" /\ o.at \in Trying
  BY DEF Undoing, Trying, Me
<1>2. OperationTyped(x)
  BY DEF OperationTyped
<1>3. UNCHANGED <<registry, vault>> /\ given' \in Nat /\ entangled' = entangled
  BY DEF Quiet, stored, McpInv, McpTyped
<1>4. Placed(o) => Placed(x) /\ x.at \notin {"keep", "clean", "wipe"}
  <2>1. o.at = "ask" /\ Same(x, o) /\ (x.at = "refresh" => o.config.kind = "oauth") /\ (x.at = "put" => o.op = "save")
    BY <1>1
  <2> HIDE DEF o
  <2>2. ASSUME Placed(o) PROVE o.op \in {"use", "save", "test", "sign in"}
    BY <2>1, <2>2 DEF Placed, Trying
  <2> QED
    BY <2>1, <2>2 DEF Placed, Same, Trying, Undoing
<1> QED
  BY <1>1, <1>2, <1>3, <1>4, StepsOn

\* The server answers, ...
LEMMA AnsweredKeeps ==
  ASSUME McpInv, NEW u \in McpUsers, Answered_mcp(u)
  PROVE  McpInv'
<1> DEFINE o == users[u]
<1>1. Me(u).at = "ask" /\ Quiet /\ Me(u).at # "idle"
  BY DEF Answered_mcp
<1>2. o \in Operations /\ o.again \in BOOLEAN
  BY <1>1, UserHas DEF Operations
<1>3. UNCHANGED <<registry, vault>> /\ given' \in Nat /\ entangled' = entangled /\ Me(u).at \in Trying
  BY <1>1 DEF Quiet, stored, McpInv, McpTyped, Trying
<1>4. CASE o.ask # "call"
  <2>1. PICK x : x = [o EXCEPT !.at = "connect", !.ask = "call", !.retried = o.again, !.token = 0]
    OBVIOUS
  <2>2. users' = [users EXCEPT ![u] = x]
    BY <2>1, <1>4 DEF Answered_mcp, UserGoes, Me
  <2>3. x \in Operations /\ Same(x, o)
    BY <1>2, <2>1, SessionChanges
  <2>4. x.at = "connect"
    BY <1>2, <2>1 DEF Operations
  <2> QED
    BY <1>1, <2>2, <2>3, <2>4, AskMoves
<1>5. CASE o.ask = "call"
  <2>1. SessionEnds(u)
    BY <1>5 DEF Answered_mcp, Me
  <2>2. CASE o.op = "save"
    <3>1. PICK x : x = [o EXCEPT !.at = "put", !.ask = "initialize", !.retried = FALSE, !.again = FALSE, !.token = 0]
      OBVIOUS
    <3>2. users' = [users EXCEPT ![u] = x]
      BY <3>1, <2>1, <2>2 DEF SessionEnds, UserGoes, Me
    <3>3. x \in Operations /\ Same(x, o)
      BY <1>2, <3>1, SessionChanges
    <3>4. x.at = "put"
      BY <1>2, <3>1 DEF Operations
    <3> QED
      BY <1>1, <2>2, <3>2, <3>3, <3>4, AskMoves
  <2>3. CASE o.op = "test"
    <3>1. Fails(u)
      BY <2>1, <2>3 DEF SessionEnds, Me
    <3> QED
      BY <1>3, <3>1, FailsKeeps
  <2>4. CASE o.op \notin {"save", "test"}
    <3>1. users' = [users EXCEPT ![u] = NoOperation]
      BY <2>1, <2>4 DEF SessionEnds, UserGoes, Me
    <3>2. Me(u).op \notin {"save", "test"}
      BY <2>4 DEF Me
    <3> QED
      BY <1>1, <1>3, <3>1, <3>2, EndsKeep
  <2> QED
    BY <2>2, <2>3, <2>4
<1> QED
  BY <1>4, <1>5

\* ... refuses the token, or has forgotten the session.
LEMMA RefusedKeeps ==
  ASSUME McpInv, NEW u \in McpUsers, Unauthorized(u) \/ Forgotten(u)
  PROVE  McpInv'
<1> DEFINE o == users[u]
<1>1. Me(u).at = "ask" /\ Quiet /\ Me(u).at # "idle"
  BY DEF Unauthorized, Forgotten
<1>2. o \in Operations
  BY <1>1, UserHas
<1>3. CASE Unauthorized(u)
  <2>1. PICK x : x = [o EXCEPT !.at = "refresh", !.retried = TRUE]
    OBVIOUS
  <2>2. users' = [users EXCEPT ![u] = x] /\ o.config.kind = "oauth"
    BY <2>1, <1>3 DEF Unauthorized, UserGoes, Me
  <2>3. x \in Operations /\ Same(x, o)
    BY <1>2, <2>1, SessionChanges
  <2>4. x.at = "refresh"
    BY <1>2, <2>1 DEF Operations
  <2> QED
    BY <1>1, <2>2, <2>3, <2>4, AskMoves
<1>4. CASE Forgotten(u)
  <2>1. PICK x : x = [o EXCEPT !.at = "connect", !.ask = "initialize", !.again = TRUE]
    OBVIOUS
  <2>2. users' = [users EXCEPT ![u] = x]
    BY <2>1, <1>4 DEF Forgotten, UserGoes, Me
  <2>3. x \in Operations /\ Same(x, o)
    BY <1>2, <2>1, SessionChanges
  <2>4. x.at = "connect"
    BY <1>2, <2>1 DEF Operations
  <2> QED
    BY <1>1, <2>2, <2>3, <2>4, AskMoves
<1> QED
  BY <1>3, <1>4

\* The save that follows a sign-in has the copies of the sign-in.
LEMMA SavesSignedIn ==
  ASSUME McpInv, NEW u \in McpUsers, SaveSignedIn(u)
  PROVE  McpInv'
<1> DEFINE o == users[u]
           c == registry[Server(u)]
           v == vault[Server(u)]
<1>1. Me(u).at = "nested" /\ o.at = "nested" /\ Me(u).at # "idle" /\ UNCHANGED <<registry, vault>>
      /\ given' \in Nat /\ entangled' = entangled
  BY DEF SaveSignedIn, Quiet, stored, McpInv, McpTyped, Me
<1>2. o \in Operations /\ Len(o.undo) \in Nat
  BY <1>1, UserHas
<1>3. Len(o.undo) >= 2 /\ Len(o.undo) <= 2 => Len(o.undo) = 2
  <2>1. \A n \in Nat : n >= 2 /\ n <= 2 => n = 2
    OBVIOUS
  <2> QED
    BY <1>2, <2>1, Zenon
<1>4. PICK x : x = [o EXCEPT !.op = "save", !.at = "keep"]
  OBVIOUS
<1>5. users' = [users EXCEPT ![u] = x]
  BY <1>4 DEF SaveSignedIn, UserGoes, Me
<1>6. /\ x \in Operations /\ x.op = "save" /\ x.at = "keep" /\ x.on = o.on /\ x.config = o.config
      /\ x.undo = o.undo /\ x.was = o.was
  <2> DEFINE n == [o EXCEPT !.at = "keep"]
  <2>1. n \in Operations /\ n.at = "keep" /\ Same(n, o)
    BY <1>2, PlaceChanges DEF Places
  <2>2. x = [n EXCEPT !.op = "save"]
    BY <1>4
  <2> HIDE DEF n
  <2>3. x \in Operations
    BY <2>1, <2>2 DEF Operations
  <2> QED
    BY <2>1, <2>2, <2>3 DEF Same, Operations
<1>7. OperationTyped(x)
  BY <1>6 DEF OperationTyped
<1>8. ASSUME Server(u) \notin entangled, Goes(o, c, v)
      PROVE  Goes(x, c, v) /\ (Midway(o, c) => Midway(x, c))
  <2>1. Placed(o) /\ Shaped(o) /\ (o.op # "use" => Traced(o, c, v) /\ StillSo(o, c, v)) /\ o.at = "nested"
    BY <1>1, <1>8 DEF Goes
  <2> HIDE DEF c, v, o
  <2>2. o.op = "sign in, save"
    BY <2>1 DEF Placed
  <2>3. o.config.kind = "oauth"
    BY <2>1, <2>2 DEF Placed, Undoing
  <2>4. Len(o.undo) >= 2 /\ Len(o.undo) <= 2 /\ o.was # <<>>
    BY <2>1, <2>2 DEF Shaped, Undoing
  <2>5. Len(o.undo) = 2
    BY <2>4, <1>3
  <2>6. Placed(x)
    BY <1>6, <2>3 DEF Placed, Trying, Undoing
  <2>7. Shaped(x)
    BY <1>6, <2>1, <2>2, <2>4, <2>5 DEF Shaped, Undoing
  <2>8. Traced(x, c, v)
    BY <1>6, <2>1, <2>2 DEF Traced
  <2>9. StillSo(x, c, v)
    BY <1>6 DEF StillSo, Trying
  <2> QED
    BY <1>6, <2>2, <2>6, <2>7, <2>8, <2>9 DEF Goes, Midway
<1> QED
  BY <1>1, <1>5, <1>6, <1>7, <1>8, QuietMoves

\* Tokens go to the keyring.
LEMMA StoreKeeps ==
  ASSUME McpInv, NEW u \in McpUsers, StoreTokens(u)
  PROVE  McpInv'
<1> DEFINE o == users[u]
           c == registry[Server(u)]
           v == vault[Server(u)]
<1>1. Me(u).at = "store" /\ o.at = "store" /\ Me(u).at # "idle" /\ registry' = registry /\ given' \in Nat
  BY DEF StoreTokens, McpInv, McpTyped, Me
<1>2. o \in Operations /\ o.token \in Nat /\ v \in Secrets
  <2>1. o \in Operations /\ Server(u) \in McpServers
    BY <1>1, UserHas
  <2>2. o.token \in Nat
    BY <2>1 DEF Operations
  <2> QED
    BY <2>1, <2>2 DEF McpInv, McpTyped
<1>3. Len(o.undo) \in Nat
  BY <1>1, UserHas
<1>4. PICK w : w = Stored(u)
  OBVIOUS
<1>5. SetsVault(u, w)
  BY <1>4 DEF StoreTokens
<1>6. w \in Secrets /\ w.key = v.key
  BY <1>1, <1>4, StoredIs
<1>7. PICK x : x = [o EXCEPT !.at = IF o.op = "sign in, save" THEN "nested" ELSE "connect"]
  OBVIOUS
<1>8. users' = [users EXCEPT ![u] = x]
  BY <1>7 DEF StoreTokens, UserGoes, Me
<1>9. /\ x \in Operations /\ Same(x, o)
      /\ IF o.op = "sign in, save" THEN x.at = "nested" ELSE x.at = "connect"
  <2>1. PICK a \in Places : x = [o EXCEPT !.at = a] /\ a = IF o.op = "sign in, save" THEN "nested" ELSE "connect"
    BY <1>7 DEF Places, Trying
  <2>2. x \in Operations /\ Same(x, o) /\ x.at = a
    BY <1>2, <2>1, PlaceChanges
  <2> QED
    BY <2>1, <2>2
<1>10. OperationTyped(x) /\ x.on = o.on /\ x.was = o.was
  BY <1>9 DEF OperationTyped, Same
<1>11. ASSUME Server(u) \notin entangled, Goes(o, c, v), o.op = "use" => c = o.config,
              Fits(c, v) \/ Midway(o, c)
       PROVE  Goes(x, c, w) /\ (Midway(x, c) \/ Fits(c, w))
  <2>1. Placed(o) /\ Shaped(o) /\ (o.op # "use" => Traced(o, c, v) /\ StillSo(o, c, v)) /\ o.at = "store"
        /\ (o.op = "use" => c = o.config) /\ (Fits(c, v) \/ Midway(o, c)) /\ Same(x, o)
    BY <1>1, <1>9, <1>11 DEF Goes
  <2>2. w.key = v.key
    BY <1>6
  <2>3. IF o.op = "sign in, save" THEN x.at = "nested" ELSE x.at = "connect"
    BY <1>9
  <2>4. \A n \in Nat : (n >= 2 => n # 0 /\ ~(n <= 1) /\ n # 1) /\ (n = 1 => n # 0)
    BY Counts
  <2>5. Len(o.undo) \in Nat
    BY <1>3
  <2> HIDE DEF c, v, o
  <2>6. o.config.kind = "oauth" /\ o.op \in {"use", "save", "test", "sign in", "sign in, save"}
    <3>1. o.op \in {"use", "save", "test", "sign in", "sign in, save", "remove", "enable"}
      BY <1>2 DEF Operations
    <3> QED
      BY <2>1, <3>1 DEF Placed, Trying, Undoing
  <2>7. /\ o.op \in {"save", "sign in, save"} => Len(o.undo) >= 2 /\ o.was # <<>>
        /\ o.op \in {"test", "sign in"} => Len(o.undo) = 1 /\ o.was # <<>>
    BY <2>1 DEF Shaped, Undoing
  <2>8. /\ o.op \in {"save", "sign in, save"} => Len(o.undo) # 0 /\ ~(Len(o.undo) <= 1) /\ Len(o.undo) # 1
        /\ o.op \in {"test", "sign in"} => Len(o.undo) # 0
    BY <2>7, <2>4, <2>5, Zenon
  <2>9. x.op = o.op /\ x.config = o.config /\ x.undo = o.undo /\ x.was = o.was
        /\ x.at \in {"nested", "connect"} /\ (x.at = "nested" <=> o.op = "sign in, save")
    BY <2>1, <2>3 DEF Same
  <2>10. Placed(x)
    BY <2>1, <2>6, <2>9 DEF Placed, Same, Trying, Undoing
  <2>11. Shaped(x)
    BY <2>1, <2>7, <2>9 DEF Shaped, Undoing
  <2>12. o.op # "use" => Traced(x, c, w)
    <3>1. CASE o.op \in {"save", "sign in, save"}
      BY <2>1, <2>8, <2>9, <3>1, Zenon DEF Traced
    <3>2. CASE o.op \in {"test", "sign in"}
      BY <2>1, <2>8, <2>9, <3>2, Zenon DEF Traced
    <3> QED
      BY <2>6, <3>1, <3>2
  <2>13. o.op # "use" => StillSo(x, c, w)
    BY <2>1, <2>6, <2>9 DEF StillSo, Undoing
  <2>14. Midway(x, c) \/ Fits(c, w)
    <3>1. CASE o.op \in {"save", "sign in, save", "test"}
      <4>1. x.undo # <<>>
        <5>1. Len(<<>>) = 0
          OBVIOUS
        <5> QED
          BY <2>6, <2>8, <2>9, <3>1, <5>1, Zenon
      <4> QED
        BY <2>8, <2>9, <3>1, <4>1, Zenon DEF Midway
    <3>2. CASE o.op \in {"use", "sign in"}
      <4>1. Fits(c, v) /\ c.kind = "oauth"
        BY <2>1, <2>6, <3>2 DEF Midway, StillSo, Undoing
      <4> QED
        BY <2>2, <4>1 DEF Fits
    <3> QED
      BY <2>6, <3>1, <3>2
  <2> QED
    BY <2>9, <2>10, <2>11, <2>12, <2>13, <2>14 DEF Goes
<1> QED
  BY <1>1, <1>5, <1>6, <1>8, <1>9, <1>10, <1>11, VaultMoves

\* What is left when the first of the copies is put back.
LEMMA TailIs ==
  ASSUME NEW q \in Seq(UndoSteps), q # <<>>
  PROVE  /\ Tail(q) \in Seq(UndoSteps) /\ Len(q) \in Nat /\ Len(Tail(q)) \in Nat /\ Len(q) = Len(Tail(q)) + 1
         /\ Len(Tail(q)) = 0 <=> Tail(q) = <<>>
         /\ Len(Tail(q)) >= 1 => Tail(q)[Len(Tail(q))] = q[Len(q)]
         /\ Len(Tail(q)) >= 2 => Tail(q)[Len(Tail(q)) - 1] = q[Len(q) - 1]
         /\ Len(Tail(q)) >= 3 => Tail(q)[Len(Tail(q)) - 2] = q[Len(q) - 2]
         /\ Tail(q) # <<>> => Tail(q)[1] \in UndoSteps
<1>1. Tail(q) \in Seq(UndoSteps) /\ Len(q) \in Nat /\ Len(Tail(q)) \in Nat /\ Len(q) = Len(Tail(q)) + 1
  OBVIOUS
<1>2. \A i \in 1..Len(Tail(q)) : Tail(q)[i] = q[i + 1]
  OBVIOUS
<1>3. Len(Tail(q)) = 0 <=> Tail(q) = <<>>
  <2>1. \A t \in Seq(UndoSteps) : Len(t) = 0 <=> t = <<>>
    OBVIOUS
  <2> QED
    BY <1>1, <2>1, Zenon
<1>4. Len(Tail(q)) >= 1 => Tail(q)[Len(Tail(q))] = q[Len(q)]
  BY <1>1, <1>2
<1>5. Len(Tail(q)) >= 2 => Tail(q)[Len(Tail(q)) - 1] = q[Len(q) - 1]
  BY <1>1, <1>2
<1>6. Len(Tail(q)) >= 3 => Tail(q)[Len(Tail(q)) - 2] = q[Len(q) - 2]
  BY <1>1, <1>2
<1>7. Tail(q) # <<>> => Tail(q)[1] \in UndoSteps
  BY <1>1
<1> QED
  BY <1>1, <1>3, <1>4, <1>5, <1>6, <1>7

\* Where an operation goes that has only these steps left to undo.
Unwound(x, o, steps) ==
  /\ x.op = o.op /\ x.on = o.on /\ x.undo = steps /\ x.was = o.was
  /\ x.at = IF steps = <<>> THEN "failed" ELSE steps[1].what

\* The first copy is put back, or that fails and others are left: settings c become d and
\* secrets v become w.
PutsBack(o, c, v, d, w) ==
  /\ o.at \in {"secrets", "config", "write back"}
  /\ o.at = "secrets" => d = c /\ (Len(o.undo) <= 2 => w = o.undo[1].real)
  /\ o.at # "secrets" => (Len(o.undo) <= 2 => d = o.undo[1].config) /\ w = v

\* An operation that has begun to undo, with steps left of those that it had.
LEMMA UnwoundIs ==
  ASSUME NEW o \in Operations, NEW x, NEW steps \in Seq(UndoSteps),
         Unwound(x, o, steps), o.op \notin {"use", "enable"}, o.was # <<>>, NEW c, NEW v
  PROVE  Placed(x) /\ StillSo(x, c, v) /\ x.at \in Undoing /\ x.at \notin {"keep", "write back"}
         /\ (x.at = "failed" => x.undo = <<>>) /\ (steps # <<>> => x.at = steps[1].what)
<1>1. x.at \in {"failed", "secrets", "config"} /\ (x.at = "failed" => x.undo = <<>>)
      /\ (steps # <<>> => x.at = steps[1].what)
  BY CopiesAre DEF Unwound
<1>2. o.op \in {"save", "sign in", "sign in, save", "test", "remove"}
  BY DEF Operations
<1>3. Placed(x)
  BY <1>1, <1>2 DEF Placed, Trying, Undoing, Unwound
<1>4. StillSo(x, c, v)
  BY <1>1, <1>2 DEF Unwound, StillSo, Trying, Undoing
<1> QED
  BY <1>1, <1>3, <1>4 DEF Undoing

\* The numbers of copies before and after one is put back.
LEMMA Downs ==
  /\ 0 <= 4 /\ 0 <= 2 /\ 0 <= 1 /\ ~(0 >= 1) /\ ~(0 >= 2) /\ ~(0 >= 3) /\ 0 # 1 /\ 0 # 2
  /\ 1 <= 4 /\ 1 <= 2 /\ 1 <= 1 /\ 1 >= 1 /\ ~(1 >= 2) /\ ~(1 >= 3) /\ 1 # 0 /\ 1 # 2
  /\ \A n, m \in Nat : n = m + 1 =>
       /\ n = 1 => m = 0
       /\ n = 2 => m = 1
       /\ n # 1 /\ n # 2 => /\ n >= 3 /\ n >= 2 /\ n >= 1 /\ m >= 2 /\ m >= 1 /\ m # 1 /\ m # 0
                            /\ ~(n <= 2) /\ ~(m <= 1) /\ ~(n <= 1)
       /\ n <= 4 => m <= 4
       /\ n <= 1 => n = 1
       /\ n <= 2 /\ n # 1 => n = 2
OBVIOUS

\* The numbers of copies of a save within a sign-in.
LEMMA Nested ==
  \A n, m \in Nat : n = m + 1 =>
    /\ ~(n <= 2) => m # 0 /\ ~(n <= 1) /\ n >= 3
    /\ ~(n <= 2) /\ n <= 4 /\ n # 3 => n = 4 /\ ~(m <= 2)
    /\ 3 - 2 = 1 /\ 4 - 2 = 2
OBVIOUS

\* A copy that is put back leaves what was, or more to put back.
LEMMA UndoneIs ==
  ASSUME NEW o \in Operations, OperationTyped(o), o.undo # <<>>, NEW c, NEW v, Goes(o, c, v), NEW x,
         Unwound(x, o, Tail(o.undo)), NEW d, NEW w, PutsBack(o, c, v, d, w)
  PROVE  /\ Goes(x, d, w)
         /\ Fits(o.was[1], o.was[2]) => Midway(x, d) \/ Fits(d, w)
         /\ Midway(o, c) /\ d = c /\ o.op # "remove" /\ o.at # "secrets" => Midway(x, d)
<1> DEFINE q == o.undo
           t == Tail(q)
<1>1. q \in Seq(UndoSteps)
  BY DEF Operations
<1>2. Placed(o) /\ Shaped(o) /\ (o.op # "use" => Traced(o, c, v))
  BY DEF Goes
<1>3. o.op \in {"save", "sign in", "sign in, save", "test", "remove"} /\ o.was # <<>>
  <2>1. o.op \in {"save", "sign in", "sign in, save", "test", "remove", "use", "enable"}
    BY DEF Operations
  <2>2. o.op \notin {"use", "enable"}
    BY <1>2 DEF Placed
  <2>3. o.was # <<>>
    BY <1>2, <2>2 DEF Shaped, Undoing, PutsBack
  <2> QED
    BY <2>1, <2>2, <2>3
<1>4. q # <<>> /\ q[1].what \in {"secrets", "config"} /\ (o.at = "secrets" <=> q[1].what = "secrets")
  BY <1>1, CopiesAre DEF OperationTyped, PutsBack
<1>5. t \in Seq(UndoSteps) /\ Len(q) \in Nat /\ Len(t) \in Nat /\ Len(q) = Len(t) + 1
      /\ (Len(t) = 0 <=> t = <<>>)
      /\ (Len(t) >= 1 => t[Len(t)] = q[Len(q)])
      /\ (Len(t) >= 2 => t[Len(t) - 1] = q[Len(q) - 1])
      /\ (Len(t) >= 3 => t[Len(t) - 2] = q[Len(q) - 2])
  BY <1>1, <1>4, TailIs
<1>6. Placed(x) /\ StillSo(x, d, w) /\ x.at \in Undoing /\ x.at \notin {"keep", "write back"}
      /\ (x.at = "failed" => x.undo = <<>>) /\ (t # <<>> => x.at = t[1].what)
  BY <1>3, <1>5, UnwoundIs
<1>7. x.op = o.op /\ x.undo = t /\ x.was = o.was
  BY DEF Unwound
<1>8. /\ Len(q) = 1 => Len(t) = 0 /\ t = <<>>
      /\ Len(q) = 2 => Len(t) = 1 /\ t # <<>>
      /\ Len(q) \notin {1, 2} =>
           /\ Len(q) >= 3 /\ Len(q) >= 2 /\ Len(q) >= 1 /\ Len(t) >= 2 /\ Len(t) >= 1 /\ Len(t) # 1 /\ Len(t) # 0
           /\ ~(Len(q) <= 2) /\ ~(Len(t) <= 1) /\ t # <<>>
      /\ Len(q) <= 4 => Len(t) <= 4
      /\ Len(q) <= 1 => Len(q) = 1
      /\ Len(q) <= 2 /\ Len(q) # 1 => Len(q) = 2
  <2> HIDE DEF q, t
  <2>1. Len(q) \notin {1, 2} => Len(q) # 1 /\ Len(q) # 2
    OBVIOUS
  <2>2. (Len(t) = 1 => t # <<>>) /\ (Len(t) # 0 => t # <<>>)
    BY <1>5, Downs, Zenon
  <2> QED
    BY <1>5, <2>1, <2>2, Downs, Zenon
<1> HIDE DEF q, t
<1>9. x.was # <<>> /\ x.at \in Undoing /\ x.at # "keep" /\ (x.at = "failed" => x.undo = <<>>) /\ x.op = o.op
  BY <1>3, <1>6, <1>7
<1>10. Len(x.undo) = 0 => Shaped(x)
  BY <1>9, Downs, Zenon DEF Shaped
<1>11. ASSUME Len(x.undo) = 1, o.op \in {"save", "sign in, save"}, x.undo[1].what = "config"
       PROVE  Shaped(x)
  <2>1. x.op \notin {"sign in", "test"} /\ x.op # "remove" /\ x.undo[Len(x.undo)].what = "config"
    BY <1>9, <1>11
  <2> QED
    BY <1>9, <1>11, <2>1, Downs, Zenon DEF Shaped
<1>12. ASSUME Len(x.undo) = 1, o.op \notin {"save", "sign in, save"}, x.undo[1].what = "secrets"
       PROVE  Shaped(x)
  <2>1. x.op \notin {"save", "sign in, save"} /\ x.undo[Len(x.undo)].what = "secrets"
    BY <1>9, <1>12
  <2> QED
    BY <1>9, <1>12, <2>1, Downs, Zenon DEF Shaped
<1>13. CASE o.op \in {"save", "sign in, save"}
  <2>1. /\ Len(q) <= 4 /\ (o.op = "sign in, save" => Len(q) <= 2)
        /\ Len(q) >= 1 => q[Len(q)].what = "config"
        /\ Len(q) >= 2 => q[Len(q) - 1].what = "secrets"
        /\ Len(q) >= 3 => q[Len(q) - 2].what = "config"
    BY <1>2, <1>13 DEF Shaped, q
  <2>2. /\ Len(q) >= 1 => q[Len(q)].config = o.was[1]
        /\ Len(q) <= 1 => v = o.was[2]
        /\ Len(q) >= 2 => q[Len(q) - 1].real = o.was[2]
    BY <1>2, <1>3, <1>13 DEF Traced, q
  <2>3. CASE Len(q) = 1
    <3>1. Len(t) = 0 /\ t = <<>>
      BY <1>8, <2>3
    <3>2. Len(q) >= 1 /\ Len(q) <= 1 /\ Len(q) <= 2
      BY <2>3
    <3>3. q[1].what = "config" /\ q[1].config = o.was[1] /\ v = o.was[2]
      BY <2>1, <2>2, <2>3, <3>2, Zenon
    <3>4. o.at # "secrets"
      BY <1>4, <3>3
    <3>5. d = o.was[1] /\ w = v
      BY <3>2, <3>3, <3>4 DEF q, PutsBack
    <3>6. Shaped(x) /\ Traced(x, d, w)
      <4>1. x.undo = <<>> /\ Len(x.undo) = 0 /\ x.was # <<>> /\ x.op \in {"save", "sign in, save"}
        BY <1>3, <1>7, <1>13, <3>1
      <4>2. Shaped(x)
        BY <1>10, <4>1
      <4>3. Traced(x, d, w)
        <5>1. x.op \notin {"sign in", "test"} /\ x.op # "remove" /\ x.was = o.was
          BY <1>7, <4>1
        <5> QED
          BY <3>3, <3>5, <4>1, <5>1, Downs, Zenon DEF Traced
      <4> QED
        BY <4>2, <4>3
    <3>7. Fits(o.was[1], o.was[2]) => Fits(d, w)
      BY <3>3, <3>5
    <3>8. ~(Midway(o, c) /\ d = c /\ o.at # "secrets")
      BY <1>13, <2>3, <3>3, <3>4, <3>5 DEF Midway, q
    <3> QED
      BY <1>6, <3>6, <3>7, <3>8 DEF Goes
  <2>4. CASE Len(q) = 2
    <3>1. Len(t) = 1 /\ t # <<>>
      BY <1>8, <2>4
    <3>2. q[Len(q) - 1] = q[1]
      BY <2>4
    <3>3. q[1].what = "secrets" /\ q[1].real = o.was[2] /\ q[Len(q)].what = "config" /\ q[Len(q)].config = o.was[1]
      <4>1. Len(q) >= 2 /\ Len(q) >= 1
        BY <2>4
      <4> QED
        BY <2>1, <2>2, <3>2, <4>1, Zenon
    <3>4. o.at = "secrets"
      BY <1>4, <3>3
    <3>5. d = c /\ w = o.was[2] /\ t[1] = q[Len(q)]
      <4>1. Len(q) <= 2
        BY <2>4
      <4> QED
        BY <1>5, <3>1, <3>3, <3>4, <4>1 DEF q, PutsBack
    <3>6. Shaped(x)
      <4>1. Len(x.undo) = 1 /\ x.was # <<>> /\ x.op \in {"save", "sign in, save"} /\ x.undo[1].what = "config"
        BY <1>3, <1>7, <1>13, <3>1, <3>3, <3>5
      <4> QED
        BY <1>13, <1>11, <4>1
    <3>7. Traced(x, d, w)
      <4>1. Len(x.undo) = 1 /\ x.undo[Len(x.undo)].config = o.was[1] /\ w = o.was[2]
        BY <1>7, <3>1, <3>3, <3>5
      <4>2. x.op \notin {"sign in", "test"} /\ x.op # "remove" /\ x.was = o.was
        BY <1>7, <1>13
      <4> QED
        BY <4>1, <4>2, Downs, Zenon DEF Traced
    <3>8. Fits(o.was[1], o.was[2]) => Midway(x, d) \/ Fits(d, w)
      <4>1. CASE d = o.was[1]
        BY <3>5, <4>1
      <4>2. CASE d # o.was[1]
        BY <1>7, <1>13, <3>1, <3>3, <3>5, <4>2 DEF Midway
      <4> QED
        BY <4>1, <4>2
    <3> QED
      BY <1>6, <3>4, <3>6, <3>7, <3>8 DEF Goes
  <2>5. CASE Len(q) \notin {1, 2}
    <3>1. Len(q) >= 3 /\ Len(q) >= 2 /\ Len(q) >= 1 /\ Len(t) >= 2 /\ Len(t) >= 1 /\ Len(t) <= 4 /\ Len(t) # 1 /\ Len(t) # 0
          /\ t # <<>> /\ ~(Len(q) <= 2) /\ ~(Len(t) <= 1)
      BY <1>8, <2>1, <2>5, Zenon
    <3>2. o.op = "save"
      BY <1>13, <2>1, <3>1
    <3>3. /\ t[Len(t)].what = "config" /\ t[Len(t)].config = o.was[1]
          /\ t[Len(t) - 1].what = "secrets" /\ t[Len(t) - 1].real = o.was[2]
          /\ Len(t) >= 3 => t[Len(t) - 2].what = "config"
      BY <1>5, <2>1, <2>2, <3>1, Zenon
    <3>4. Shaped(x)
      BY <1>3, <1>6, <1>7, <3>1, <3>2, <3>3 DEF Shaped
    <3>5. Traced(x, d, w)
      BY <1>7, <3>1, <3>2, <3>3, Zenon DEF Traced
    <3>6. Midway(x, d)
      BY <1>7, <3>1, <3>2, Zenon DEF Midway
    <3> QED
      BY <1>6, <3>4, <3>5, <3>6 DEF Goes
  <2> QED
    BY <2>3, <2>4, <2>5
<1>14. CASE o.op \in {"sign in", "test"}
  <2>1. Len(q) <= 1 /\ (Len(q) = 1 => q[1].what = "secrets")
    BY <1>2, <1>14 DEF Shaped, q
  <2>2. Len(q) = 1 /\ Len(t) = 0 /\ t = <<>>
    BY <1>8, <2>1, Zenon
  <2>3. c = o.was[1] /\ q[1].real = o.was[2]
    BY <1>2, <1>3, <1>14, <2>2 DEF Traced, q
  <2>4. o.at = "secrets" /\ d = c /\ w = o.was[2]
    <3>1. Len(q) <= 2
      BY <2>2
    <3> QED
      BY <1>4, <2>1, <2>2, <2>3, <3>1 DEF q, PutsBack
  <2>5. Len(x.undo) = 0 /\ x.undo = <<>>
    BY <1>7, <2>2
  <2>6. Shaped(x)
    BY <1>10, <2>5
  <2>7. Traced(x, d, w)
    <3>1. x.op \notin {"save", "sign in, save"} /\ x.op # "remove" /\ x.was = o.was /\ w = o.was[2]
      BY <1>7, <1>14, <2>4
    <3> QED
      BY <2>3, <2>4, <2>5, <3>1, Downs, Zenon DEF Traced
  <2> QED
    BY <1>6, <2>3, <2>4, <2>6, <2>7 DEF Goes
<1>15. CASE o.op = "remove"
  <2>1. Len(q) <= 2 /\ (Len(q) >= 1 => q[Len(q)].what = "secrets") /\ (Len(q) = 2 => q[1].what = "config")
    BY <1>2, <1>15 DEF Shaped, q
  <2>2. /\ Len(q) <= 1 => c = o.was[1]
        /\ Len(q) >= 1 => q[Len(q)].real = o.was[2]
        /\ Len(q) = 2 => q[1].config = o.was[1]
    BY <1>2, <1>3, <1>15 DEF Traced, q
  <2>3. CASE Len(q) = 1
    <3>1. Len(t) = 0 /\ t = <<>> /\ q[1].what = "secrets" /\ q[1].real = o.was[2] /\ c = o.was[1]
      BY <1>8, <2>1, <2>2, <2>3
    <3>2. o.at = "secrets" /\ d = c /\ w = o.was[2]
      BY <1>4, <2>1, <3>1 DEF q, PutsBack
    <3>3. Len(x.undo) = 0 /\ x.undo = <<>>
      BY <1>7, <3>1
    <3>4. Shaped(x)
      BY <1>10, <3>3
    <3>5. Traced(x, d, w)
      BY <1>7, <1>15, <3>1, <3>2, <3>3 DEF Traced
    <3> QED
      BY <1>6, <1>15, <3>1, <3>2, <3>4, <3>5 DEF Goes
  <2>4. CASE Len(q) # 1
    <3>1. Len(q) = 2 /\ Len(t) = 1 /\ t # <<>>
      BY <1>8, <2>1, <2>4, Zenon
    <3>2. q[1].what = "config" /\ q[1].config = o.was[1] /\ t[1].what = "secrets" /\ t[1].real = o.was[2]
      <4>1. Len(t) >= 1 /\ Len(q) >= 1
        BY <3>1
      <4> QED
        BY <1>5, <2>1, <2>2, <3>1, <4>1, Zenon
    <3>3. o.at # "secrets" /\ d = o.was[1] /\ w = v
      BY <1>4, <2>1, <3>2 DEF q, PutsBack
    <3>4. x.at = "secrets" /\ Len(x.undo) = 1 /\ x.undo = t
      BY <1>6, <1>7, <3>1, <3>2
    <3>5. Shaped(x)
      BY <1>7, <1>15, <1>12, <3>2, <3>4
    <3>6. Traced(x, d, w)
      BY <1>7, <1>15, <3>2, <3>3, <3>4 DEF Traced
    <3>7. Midway(x, d)
      BY <1>7, <1>15, <3>4 DEF Midway
    <3> QED
      BY <1>6, <1>15, <3>5, <3>6, <3>7 DEF Goes
  <2> QED
    BY <2>3, <2>4
<1> QED
  BY <1>3, <1>13, <1>14, <1>15

\* The state of an operation that unwinds to these steps.
LEMMA UnwindGoes ==
  ASSUME McpInv, NEW u \in McpUsers, Me(u).at # "idle", NEW steps \in Seq(UndoSteps), Unwind(u, steps)
  PROVE  \E x \in Operations : /\ users' = [users EXCEPT ![u] = x] /\ OperationTyped(x)
                               /\ Unwound(x, users[u], steps)
<1> DEFINE o == users[u]
<1>1. PICK x : x = [NoOperation EXCEPT !.op = o.op, !.on = o.on, !.undo = steps, !.was = o.was,
                      !.at = IF steps = <<>> THEN "failed" ELSE steps[1].what]
  OBVIOUS
<1>2. users' = [users EXCEPT ![u] = x]
  BY <1>1 DEF Unwind, UserGoes, Me, Server
<1>3. o \in Operations
  BY UserHas
<1>4. OperationTyped(x) /\ Unwound(x, o, steps)
  BY <1>1, <1>3, UnwindIs DEF Unwound
<1>5. x \in Operations
  BY <1>4 DEF OperationTyped
<1> QED
  BY <1>2, <1>4, <1>5

\* The keyring does not take the tokens, or only some of them.
LEMMA StoreFailsKeeps ==
  ASSUME McpInv, NEW u \in McpUsers, StoreFails(u)
  PROVE  McpInv'
<1> DEFINE o == users[u]
           c == registry[Server(u)]
           v == vault[Server(u)]
<1>1. Me(u).at = "store" /\ o.at = "store" /\ Me(u).at # "idle" /\ registry' = registry /\ given' \in Nat
      /\ Unwind(u, o.undo)
  BY DEF StoreFails, Fails, McpInv, McpTyped, Me
<1>2. o \in Operations /\ o.undo \in Seq(UndoSteps) /\ Len(o.undo) \in Nat /\ v \in Secrets
  <2>1. o \in Operations /\ o.undo \in Seq(UndoSteps) /\ Len(o.undo) \in Nat /\ Server(u) \in McpServers
    BY <1>1, UserHas
  <2> QED
    BY <2>1 DEF McpInv, McpTyped
<1>3. PICK w \in Secrets : SetsVault(u, w) /\ w.key = v.key
  <2>1. PICK access \in {0, v.access, Stored(u).access}, refresh \in {0, v.refresh, Stored(u).refresh} :
          SetsVault(u, [v EXCEPT !.access = access, !.refresh = refresh])
    BY DEF StoreFails
  <2>2. access \in Nat /\ refresh \in Nat
    BY <1>1, <1>2, StoredIs DEF Secrets
  <2>3. PICK w : w = [v EXCEPT !.access = access, !.refresh = refresh]
    OBVIOUS
  <2>4. w \in Secrets /\ w.key = v.key
    BY <1>2, <2>2, <2>3 DEF Secrets
  <2> QED
    BY <2>1, <2>3, <2>4
<1>4. PICK x \in Operations : users' = [users EXCEPT ![u] = x] /\ OperationTyped(x) /\ Unwound(x, o, o.undo)
  BY <1>1, <1>2, UnwindGoes
<1>5. x.on = o.on /\ x.was = o.was /\ x.op = o.op /\ x.undo = o.undo
  BY <1>4 DEF Unwound
<1>6. ASSUME Goes(o, c, v), o.op = "use" => c = o.config, Fits(c, v) \/ Midway(o, c)
      PROVE  Goes(x, c, w) /\ (Midway(x, c) \/ Fits(c, w))
  <2>1. Placed(o) /\ Shaped(o) /\ (o.op # "use" => Traced(o, c, v) /\ StillSo(o, c, v)) /\ o.at = "store"
        /\ (o.op = "use" => c = o.config) /\ (Fits(c, v) \/ Midway(o, c))
    BY <1>1, <1>6 DEF Goes
  <2>2. w.key = v.key
    BY <1>3
  <2>3. o.op \in {"use", "save", "sign in", "sign in, save", "test", "remove", "enable"}
    BY <1>2 DEF Operations
  <2>4. o \in Operations /\ o.undo \in Seq(UndoSteps) /\ Len(o.undo) \in Nat
    BY <1>2
  <2> HIDE DEF c, v, o
  <2>5. o.config.kind = "oauth" /\ o.op \in {"use", "save", "test", "sign in", "sign in, save"}
    BY <2>1, <2>3 DEF Placed, Trying, Undoing
  <2>6. CASE o.op = "use"
    <3>1. o.undo = <<>> /\ o.was = <<>>
      BY <2>1, <2>6 DEF Placed
    <3>2. x.at = "failed"
      BY <1>4, <3>1 DEF Unwound
    <3>3. Placed(x) /\ Shaped(x)
      BY <1>5, <2>6, <3>1, <3>2 DEF Placed, Shaped, Trying, Undoing
    <3>4. Fits(c, v) /\ c.kind = "oauth"
      BY <2>1, <2>5, <2>6 DEF Midway
    <3>5. Fits(c, w)
      BY <2>2, <3>4 DEF Fits
    <3> QED
      BY <1>5, <2>6, <3>3, <3>5 DEF Goes
  <2>7. CASE o.op # "use"
    <3>1. /\ o.op \in {"save", "sign in, save"} => Len(o.undo) >= 2 /\ o.was # <<>>
          /\ o.op \in {"test", "sign in"} => Len(o.undo) = 1 /\ o.was # <<>>
      BY <2>1 DEF Shaped, Undoing
    <3>2. /\ o.op \in {"save", "sign in, save"} => Len(o.undo) # 0 /\ ~(Len(o.undo) <= 1) /\ Len(o.undo) # 1
          /\ o.op \in {"test", "sign in"} => Len(o.undo) # 0
      BY <2>4, <3>1, Counts, Zenon
    <3>3. o.was # <<>> /\ o.undo # <<>> /\ o.op \notin {"use", "enable"}
      <4>1. Len(<<>>) = 0
        OBVIOUS
      <4> QED
        BY <2>5, <2>7, <3>1, <3>2, <4>1, Zenon
    <3>4. Placed(x) /\ StillSo(x, c, w) /\ x.at \in Undoing /\ x.at # "keep"
          /\ (x.at = "failed" => x.undo = <<>>)
      BY <1>4, <2>4, <3>3, UnwoundIs
    <3>5. Shaped(x)
      BY <1>5, <2>1, <2>5, <3>1, <3>3, <3>4 DEF Shaped
    <3>6. Traced(x, c, w)
      <4>1. CASE o.op \in {"save", "sign in, save"}
        BY <1>5, <2>1, <3>2, <4>1, Zenon DEF Traced
      <4>2. CASE o.op \in {"test", "sign in"}
        BY <1>5, <2>1, <3>2, <4>2, Zenon DEF Traced
      <4> QED
        BY <2>5, <2>7, <4>1, <4>2
    <3>7. Midway(x, c) \/ Fits(c, w)
      <4>1. CASE o.op \in {"save", "sign in, save", "test"}
        BY <1>5, <3>2, <3>3, <4>1, Zenon DEF Midway
      <4>2. CASE o.op = "sign in"
        <5>1. Fits(c, v) /\ c.kind = "oauth"
          BY <2>1, <4>2 DEF Midway, StillSo, Undoing
        <5> QED
          BY <2>2, <5>1 DEF Fits
      <4> QED
        BY <2>5, <2>7, <4>1, <4>2
    <3> QED
      BY <3>4, <3>5, <3>6, <3>7 DEF Goes
  <2> QED
    BY <2>6, <2>7
<1> HIDE DEF o
<1> QED
  BY <1>1, <1>3, <1>4, <1>5, <1>6, VaultMoves DEF o

\* Secrets are put back, or some of them stay that were not seen.
LEMMA UndoSecretsKeeps ==
  ASSUME McpInv, NEW u \in McpUsers, UndoSecrets(u)
  PROVE  McpInv'
<1> DEFINE o == users[u]
           c == registry[Server(u)]
           v == vault[Server(u)]
           q == o.undo[1]
<1>1. Me(u).at = "secrets" /\ o.at = "secrets" /\ Me(u).at # "idle" /\ registry' = registry /\ given' \in Nat
      /\ Unwind(u, Tail(o.undo))
  BY DEF UndoSecrets, McpInv, McpTyped, Me
<1>2. o \in Operations /\ OperationTyped(o) /\ o.undo \in Seq(UndoSteps) /\ v \in Secrets
  <2>1. o \in Operations /\ OperationTyped(o) /\ o.undo \in Seq(UndoSteps) /\ Server(u) \in McpServers
    BY <1>1, UserHas
  <2> QED
    BY <2>1 DEF McpInv, McpTyped
<1>3. o.undo # <<>> /\ q.what = "secrets"
  BY <1>1, <1>2 DEF OperationTyped
<1>4. q.secrets \in Secrets
  <2>1. q \in UndoSteps
    BY <1>2, <1>3
  <2> QED
    BY <1>3, <2>1 DEF UndoSteps
<1>5. Tail(o.undo) \in Seq(UndoSteps)
  BY <1>2, <1>3, TailIs
<1>6. PICK x \in Operations : /\ users' = [users EXCEPT ![u] = x] /\ OperationTyped(x)
                              /\ Unwound(x, o, Tail(o.undo))
  BY <1>1, <1>5, UnwindGoes
<1>7. x.on = o.on /\ x.was = o.was
  BY <1>6 DEF Unwound
<1>8. PICK w \in Partly(v, q.secrets) :
        Leaves(u, w, Len(o.undo) <= 2 /\ ~(q.secrets = q.real /\ w = q.secrets))
  BY DEF UndoSecrets, Restored, Outermost, Me
<1>9. w \in Secrets
  BY <1>2, <1>4, <1>8, PartlyIs
<1>10. CASE Len(o.undo) <= 2 /\ ~(q.secrets = q.real /\ w = q.secrets)
  <2>1. Leaves(u, w, TRUE)
    BY <1>8, <1>10 DEF Leaves, Crosses
  <2> HIDE DEF o
  <2> QED
    BY <1>1, <1>6, <1>7, <1>9, <2>1, GivesUp DEF o
<1>11. CASE ~(Len(o.undo) <= 2 /\ ~(q.secrets = q.real /\ w = q.secrets))
  <2>1. SetsVault(u, w)
    BY <1>8, <1>11 DEF SetsVault, Leaves, Crosses
  <2>2. ASSUME Goes(o, c, v), o.was # <<>> => Fits(o.was[1], o.was[2])
        PROVE  Goes(x, c, w) /\ (Midway(x, c) \/ Fits(c, w))
    <3>1. PutsBack(o, c, v, c, w)
      BY <1>1, <1>11 DEF PutsBack
    <3>2. o.was # <<>>
      <4>1. o.at = "secrets" /\ Placed(o) /\ Shaped(o) /\ o.undo # <<>>
        BY <1>1, <1>3, <2>2 DEF Goes
      <4> HIDE DEF o
      <4>2. o.op # "use"
        BY <4>1 DEF Placed
      <4> QED
        BY <4>1, <4>2 DEF Shaped, Undoing
    <3> HIDE DEF o, c, v
    <3>3. /\ Goes(x, c, w)
          /\ Fits(o.was[1], o.was[2]) => Midway(x, c) \/ Fits(c, w)
      BY <1>2, <1>3, <1>6, <2>2, <3>1, UndoneIs
    <3> QED
      BY <2>2, <3>2, <3>3
  <2> QED
    BY <1>1, <1>6, <1>7, <1>9, <2>1, <2>2, VaultMoves
<1> QED
  BY <1>10, <1>11

\* Settings are put back, in a file that is replaced.
LEMMA UndoConfigKeeps ==
  ASSUME McpInv, NEW u \in McpUsers, UndoConfig(u)
  PROVE  McpInv'
<1> DEFINE o == users[u]
           c == registry[Server(u)]
           v == vault[Server(u)]
<1>1. Me(u).at = "write back" /\ o.at = "write back" /\ Me(u).at # "idle" /\ vault' = vault /\ given' \in Nat
      /\ Writes(u, o.undo[1].config) /\ Unwind(u, Tail(o.undo))
  BY DEF UndoConfig, McpInv, McpTyped, Me
<1>2. o \in Operations /\ OperationTyped(o) /\ o.undo \in Seq(UndoSteps)
  BY <1>1, UserHas
<1>3. o.undo # <<>> /\ o.undo[1].what = "config" /\ o.list # <<>>
  BY <1>1, <1>2 DEF OperationTyped
<1>4. o.undo[1].config \in ServerConfigs
  <2>1. o.undo[1] \in UndoSteps
    BY <1>2, <1>3
  <2> QED
    BY <1>3, <2>1 DEF UndoSteps
<1>5. Tail(o.undo) \in Seq(UndoSteps)
  BY <1>2, <1>3, TailIs
<1>6. PICK x \in Operations : /\ users' = [users EXCEPT ![u] = x] /\ OperationTyped(x)
                              /\ Unwound(x, o, Tail(o.undo))
  BY <1>1, <1>5, UnwindGoes
<1>7. x.on = o.on /\ x.was = o.was
  BY <1>6 DEF Unwound
<1>8. PICK d \in ServerConfigs : d = o.undo[1].config
  BY <1>4
<1>9. ASSUME Goes(o, c, v), o.was # <<>> => Fits(o.was[1], o.was[2])
      PROVE  Goes(x, d, v) /\ (Midway(x, d) \/ Fits(d, v))
  <2>1. PutsBack(o, c, v, d, v)
    BY <1>1, <1>8 DEF PutsBack
  <2>2. o.was # <<>>
    <3>1. o.at = "write back" /\ Placed(o) /\ Shaped(o) /\ o.undo # <<>>
      BY <1>1, <1>3, <1>9 DEF Goes
    <3> HIDE DEF o
    <3>2. o.op # "use"
      BY <3>1 DEF Placed
    <3> QED
      BY <3>1, <3>2 DEF Shaped, Undoing
  <2> HIDE DEF o, c, v
  <2>3. /\ Goes(x, d, v)
        /\ Fits(o.was[1], o.was[2]) => Midway(x, d) \/ Fits(d, v)
    BY <1>2, <1>3, <1>6, <1>9, <2>1, UndoneIs
  <2> QED
    BY <1>9, <2>2, <2>3
<1>10. Writes(u, d)
  BY <1>1, <1>8
<1>11. Me(u).list \in [McpServers -> ServerConfigs]
  BY <1>2, <1>3 DEF Operations, Me
<1> QED
  BY <1>1, <1>6, <1>7, <1>9, <1>10, <1>11, FileMoves

\* The keyring does not take the secrets back: the server counts as entangled, or copies that
\* were taken first are left.
LEMMA UndoSecretsFailsKeeps ==
  ASSUME McpInv, NEW u \in McpUsers, UndoSecretsFails(u)
  PROVE  McpInv'
<1> DEFINE o == users[u]
           c == registry[Server(u)]
           v == vault[Server(u)]
           q == o.undo
<1>1. Me(u).at = "secrets" /\ o.at = "secrets" /\ Me(u).at # "idle" /\ registry' = registry /\ given' \in Nat
      /\ Unwind(u, IF Len(q) <= 2 THEN <<>> ELSE Tail(Tail(q)))
  BY DEF UndoSecretsFails, Outermost, McpInv, McpTyped, Me
<1>2. o \in Operations /\ OperationTyped(o) /\ q \in Seq(UndoSteps) /\ Len(q) \in Nat /\ v \in Secrets
  <2>1. o \in Operations /\ OperationTyped(o) /\ q \in Seq(UndoSteps) /\ Len(q) \in Nat /\ Server(u) \in McpServers
    BY <1>1, UserHas
  <2> QED
    BY <2>1 DEF McpInv, McpTyped
<1>3. q # <<>> /\ q[1].what = "secrets"
  BY <1>1, <1>2 DEF OperationTyped
<1>4. q[1].secrets \in Secrets
  <2>1. q[1] \in UndoSteps
    BY <1>2, <1>3
  <2> QED
    BY <1>3, <2>1 DEF UndoSteps
<1>5. PICK w \in Partly(v, q[1].secrets) : Leaves(u, w, Len(q) <= 2)
  BY DEF UndoSecretsFails, Restored, Outermost, Me
<1>6. w \in Secrets
  BY <1>2, <1>4, <1>5, PartlyIs
<1>7. CASE Len(q) <= 2
  <2>1. Leaves(u, w, TRUE)
    BY <1>5, <1>7 DEF Leaves, Crosses
  <2>2. Unwind(u, <<>>) /\ <<>> \in Seq(UndoSteps)
    BY <1>1, <1>7
  <2>3. PICK x \in Operations : users' = [users EXCEPT ![u] = x] /\ OperationTyped(x) /\ Unwound(x, o, <<>>)
    BY <1>1, <2>2, UnwindGoes
  <2>4. x.on = o.on
    BY <2>3 DEF Unwound
  <2> HIDE DEF o
  <2> QED
    BY <1>1, <1>6, <2>1, <2>3, <2>4, GivesUp DEF o
<1>8. CASE ~(Len(q) <= 2)
  <2> DEFINE t == Tail(q)
             r == Tail(t)
  <2>1. SetsVault(u, w)
    BY <1>5, <1>8 DEF SetsVault, Leaves, Crosses
  <2>2. t \in Seq(UndoSteps) /\ t # <<>> /\ Len(t) \in Nat /\ Len(q) = Len(t) + 1
    <3>1. t \in Seq(UndoSteps) /\ Len(t) \in Nat /\ Len(q) = Len(t) + 1
      BY <1>2, <1>3, TailIs
    <3>2. Len(t) # 0 /\ Len(<<>>) = 0
      <4>1. Len(<<>>) = 0
        OBVIOUS
      <4> QED
        BY <1>2, <1>8, <3>1, <4>1, Nested, Zenon
    <3> QED
      BY <3>1, <3>2, Zenon
  <2>3. r \in Seq(UndoSteps)
    BY <2>2, TailIs
  <2>4. Unwind(u, r)
    BY <1>1, <1>8
  <2>5. PICK x \in Operations : users' = [users EXCEPT ![u] = x] /\ OperationTyped(x) /\ Unwound(x, o, r)
    BY <1>1, <2>3, <2>4, UnwindGoes
  <2>6. x.on = o.on /\ x.was = o.was
    BY <2>5 DEF Unwound
  <2>7. PICK y : OperationTyped(y) /\ Unwound(y, o, t)
    <3>1. PICK y : y = [NoOperation EXCEPT !.op = o.op, !.on = o.on, !.undo = t, !.was = o.was,
                          !.at = IF t = <<>> THEN "failed" ELSE t[1].what]
      OBVIOUS
    <3>2. o \in Operations /\ t \in Seq(UndoSteps)
      BY <1>2, <2>2
    <3> HIDE DEF o, t
    <3>3. OperationTyped(y) /\ Unwound(y, o, t)
      BY <3>1, <3>2, UnwindIs DEF Unwound
    <3> QED
      BY <3>3
  <2>8. t[1] = q[2]
    BY <1>2, <2>2
  <2>9. ASSUME Goes(o, c, v), o.was # <<>> => Fits(o.was[1], o.was[2])
        PROVE  Goes(x, c, w) /\ (Midway(x, c) \/ Fits(c, w))
    <3>1. Placed(o) /\ Shaped(o) /\ o.op # "use" /\ o.op # "enable"
      BY <1>1, <1>3, <2>9 DEF Goes, Placed
    <3>2. o.was # <<>>
      BY <1>1, <3>1 DEF Shaped, Undoing
    <3>3. Len(q) = 4 /\ q[2].what = "config"
      <4>1. o.op \in {"use", "save", "sign in", "sign in, save", "test", "remove", "enable"}
        BY <1>2 DEF Operations
      <4>2. o.op = "save"
        <5>1. ~(Len(q) <= 1) /\ ~(Len(q) <= 2)
          BY <1>2, <1>8, <2>2, Nested, Zenon
        <5>2. o.op \notin {"sign in", "test", "remove", "sign in, save"}
          BY <3>1, <5>1, Zenon DEF Shaped
        <5> QED
          BY <3>1, <4>1, <5>2
      <4>3. Len(q) <= 4 /\ (Len(q) >= 3 => q[Len(q) - 2].what = "config")
        BY <3>1, <4>2 DEF Shaped
      <4>4. Len(q) >= 3 /\ 3 - 2 = 1 /\ 4 - 2 = 2
        BY <1>2, <1>8, <2>2, Nested, Zenon
      <4>5. Len(q) # 3
        <5>1. "secrets" # "config"
          OBVIOUS
        <5> QED
          BY <1>3, <4>3, <4>4, <5>1, Zenon
      <4>6. Len(q) = 4
        BY <1>2, <1>8, <2>2, <4>3, <4>5, Nested, Zenon
      <4> QED
        BY <4>3, <4>4, <4>6, Zenon
    <3>4. PutsBack(o, c, v, c, w)
      BY <1>1, <1>8 DEF PutsBack
    <3>5. y \in Operations /\ y.op = o.op /\ y.on = o.on /\ y.undo = t /\ y.was = o.was /\ y.at = "config"
      BY <2>2, <2>7, <2>8, <3>3 DEF Unwound, OperationTyped
    <3>6. Unwound(x, y, Tail(y.undo))
      BY <2>5, <3>5 DEF Unwound
    <3>7. PutsBack(y, c, w, c, w)
      <4>1. ~(Len(y.undo) <= 2)
        <5>1. 4 <= 4 /\ 4 # 3 /\ ~(4 <= 2) /\ 4 \in Nat
          OBVIOUS
        <5> QED
          BY <2>2, <3>3, <3>5, <5>1, Nested, Zenon
      <4> QED
        BY <3>5, <4>1 DEF PutsBack
    <3>8. y.undo # <<>>
      BY <2>2, <3>5
    <3>9. Unwound(y, o, Tail(o.undo))
      BY <2>7
    <3> HIDE DEF o, c, v, q, t
    <3>10. Goes(y, c, w)
      BY <1>2, <1>3, <2>9, <3>4, <3>9, UndoneIs DEF q
    <3>11. /\ Goes(x, c, w)
           /\ Fits(y.was[1], y.was[2]) => Midway(x, c) \/ Fits(c, w)
      BY <2>7, <3>5, <3>6, <3>7, <3>8, <3>10, UndoneIs
    <3> QED
      BY <2>9, <3>2, <3>5, <3>11
  <2> HIDE DEF o
  <2> QED
    BY <1>1, <1>6, <2>1, <2>5, <2>6, <2>9, VaultMoves DEF o
<1> QED
  BY <1>7, <1>8

\* The file is not written back: the server counts as entangled, or copies that were taken
\* first are left.
LEMMA UndoConfigFailsKeeps ==
  ASSUME McpInv, NEW u \in McpUsers, UndoConfigFails(u)
  PROVE  McpInv'
<1> DEFINE o == users[u]
           c == registry[Server(u)]
           v == vault[Server(u)]
           q == o.undo
<1>1. Me(u).at = "write back" /\ o.at = "write back" /\ Me(u).at # "idle" /\ UNCHANGED <<registry, vault>>
      /\ given' \in Nat /\ Unwind(u, IF Len(q) <= 2 THEN <<>> ELSE Tail(q))
      /\ entangled' = IF Len(q) <= 2 THEN entangled \cup {Server(u)} ELSE entangled
  BY DEF UndoConfigFails, Outermost, stored, McpInv, McpTyped, Me
<1>2. o \in Operations /\ OperationTyped(o) /\ q \in Seq(UndoSteps) /\ Len(q) \in Nat /\ v \in Secrets
      /\ Server(u) \in McpServers /\ vault \in [McpServers -> Secrets]
  <2>1. o \in Operations /\ OperationTyped(o) /\ q \in Seq(UndoSteps) /\ Len(q) \in Nat /\ Server(u) \in McpServers
    BY <1>1, UserHas
  <2> QED
    BY <2>1 DEF McpInv, McpTyped
<1>3. q # <<>>
  BY <1>1, <1>2 DEF OperationTyped
<1>4. CASE Len(q) <= 2
  <2>1. Leaves(u, v, TRUE)
    BY <1>1, <1>2, <1>4 DEF Leaves, Crosses
  <2>2. Unwind(u, <<>>) /\ <<>> \in Seq(UndoSteps)
    <3>1. <<>> \in Seq(UndoSteps)
      OBVIOUS
    <3>2. (IF Len(q) <= 2 THEN <<>> ELSE Tail(q)) = <<>>
      BY <1>4
    <3> QED
      BY <1>1, <3>1, <3>2, Zenon
  <2>3. PICK x \in Operations : users' = [users EXCEPT ![u] = x] /\ OperationTyped(x) /\ Unwound(x, o, <<>>)
    BY <1>1, <2>2, UnwindGoes
  <2>4. x.on = o.on
    BY <2>3 DEF Unwound
  <2> HIDE DEF o
  <2> QED
    BY <1>1, <1>2, <2>1, <2>3, <2>4, GivesUp DEF o
<1>5. CASE ~(Len(q) <= 2)
  <2>1. Tail(q) \in Seq(UndoSteps) /\ Unwind(u, Tail(q))
    BY <1>1, <1>2, <1>3, <1>5, TailIs
  <2>2. PICK x \in Operations : users' = [users EXCEPT ![u] = x] /\ OperationTyped(x) /\ Unwound(x, o, Tail(q))
    BY <1>1, <2>1, UnwindGoes
  <2>3. x.on = o.on /\ x.was = o.was
    BY <2>2 DEF Unwound
  <2>4. ASSUME Goes(o, c, v)
        PROVE  Goes(x, c, v) /\ (Midway(o, c) => Midway(x, c))
    <3>1. PutsBack(o, c, v, c, v)
      BY <1>1, <1>5 DEF PutsBack
    <3>2. o.op # "remove" /\ o.at # "secrets"
      BY <1>1, <1>5, <2>4 DEF Goes, Shaped
    <3>3. Unwound(x, o, Tail(o.undo)) /\ o.undo # <<>> /\ o \in Operations /\ OperationTyped(o)
      BY <1>2, <1>3, <2>2
    <3> HIDE DEF o, c, v
    <3> QED
      BY <2>4, <3>1, <3>2, <3>3, UndoneIs
  <2>5. entangled' = entangled
    BY <1>1, <1>5
  <2> HIDE DEF o
  <2> QED
    BY <1>1, <2>2, <2>3, <2>4, <2>5, QuietMoves DEF o
<1> QED
  BY <1>4, <1>5

\* The file is replaced.
LEMMA WriteKeeps ==
  ASSUME McpInv, NEW u \in McpUsers, Write_mcp(u)
  PROVE  McpInv'
<1> DEFINE o == users[u]
           c == registry[Server(u)]
           v == vault[Server(u)]
<1>1. Me(u).at = "write" /\ o.at = "write" /\ Me(u).at # "idle" /\ vault' = vault /\ given' \in Nat
      /\ Writes(u, o.config)
  BY DEF Write_mcp, McpInv, McpTyped, Me
<1>2. o \in Operations /\ OperationTyped(o) /\ Len(o.undo) \in Nat
  BY <1>1, UserHas
<1>3. o.config \in ServerConfigs /\ Me(u).list \in [McpServers -> ServerConfigs]
  <2>1. o.list # <<>>
    BY <1>1, <1>2 DEF OperationTyped
  <2> QED
    BY <1>2, <2>1 DEF Operations, Me
<1>4. CASE o.op = "enable"
  <2>1. users' = [users EXCEPT ![u] = NoOperation]
    BY <1>4 DEF Write_mcp, UserGoes, Me
  <2>2. ASSUME Goes(o, c, v), Fits(c, v) \/ Midway(o, c) PROVE Fits(o.config, v)
    <3>1. c.kind = o.config.kind
      BY <1>4, <2>2 DEF Goes, StillSo
    <3>2. ~Midway(o, c)
      BY <1>4 DEF Midway
    <3> QED
      BY <2>2, <3>1, <3>2 DEF Fits
  <2>3. NoOperation.was = <<>>
    BY IdleIs
  <2> QED
    BY <1>1, <1>3, <2>1, <2>2, <2>3, FileMoves
<1>5. CASE o.op # "enable"
  <2>1. PICK a \in Places : a = IF o.op = "save" THEN "clean" ELSE "wipe"
    BY DEF Places
  <2>2. PICK x : x = [o EXCEPT !.at = a, !.list = <<>>]
    OBVIOUS
  <2>3. users' = [users EXCEPT ![u] = x]
    BY <1>5, <2>2, <2>1 DEF Write_mcp, UserGoes, Me
  <2>4. a \in {"clean", "wipe"} /\ (a = "clean" <=> o.op = "save")
    BY <2>1
  <2>5. x \in Operations /\ x.at = a /\ Same(x, o)
    <3>1. o \in Operations
      BY <1>2
    <3> HIDE DEF o
    <3>2. CASE a = "clean"
      <4>1. x = [o EXCEPT !.at = "clean", !.list = <<>>]
        BY <2>2, <3>2
      <4> QED
        <5>1. "clean" \in Places /\ <<>> \in {<<>>} \cup [McpServers -> ServerConfigs]
          BY PlacesAre
        <5>2. Listed([o EXCEPT !.at = "clean", !.list = <<>>], o, "clean", <<>>)
          BY <3>1, <5>1, ListChanges, Zenon
        <5> QED
          BY <3>2, <4>1, <5>2 DEF Listed
    <3>3. CASE a = "wipe"
      <4>1. x = [o EXCEPT !.at = "wipe", !.list = <<>>]
        BY <2>2, <3>3
      <4> QED
        <5>1. "wipe" \in Places /\ <<>> \in {<<>>} \cup [McpServers -> ServerConfigs]
          BY PlacesAre
        <5>2. Listed([o EXCEPT !.at = "wipe", !.list = <<>>], o, "wipe", <<>>)
          BY <3>1, <5>1, ListChanges, Zenon
        <5> QED
          BY <3>3, <4>1, <5>2 DEF Listed
    <3> QED
      BY <2>4, <3>2, <3>3
  <2>6. OperationTyped(x) /\ x.on = o.on /\ x.was = o.was
    BY <2>4, <2>5 DEF OperationTyped, Same
  <2>7. ASSUME Goes(o, c, v)
        PROVE  Goes(x, o.config, v) /\ Midway(x, o.config)
    <3>1. Placed(o) /\ Shaped(o) /\ (o.op # "use" => Traced(o, c, v) /\ StillSo(o, c, v)) /\ o.at = "write"
          /\ o.op # "enable"
      BY <1>1, <1>5, <2>7 DEF Goes
    <3>2. Len(o.undo) \in Nat
      BY <1>2
    <3> HIDE DEF o, c, v
    <3>3. o.op \in {"save", "remove"}
      BY <3>1 DEF Placed
    <3>4. x.op = o.op /\ x.undo = o.undo /\ x.was = o.was /\ x.config = o.config /\ x.at \in {"clean", "wipe"}
          /\ (x.at = "clean" <=> o.op = "save")
      BY <2>4, <2>5 DEF Same
    <3>5. Placed(x)
      BY <3>1, <3>3, <3>4 DEF Placed, Trying, Undoing
    <3>6. Shaped(x)
      BY <3>1, <3>3, <3>4 DEF Shaped, Undoing
    <3>7. (o.op = "save" => Len(o.undo) >= 2) /\ (o.op = "remove" => Len(o.undo) = 2)
      BY <3>1 DEF Shaped, Undoing
    <3>8. Len(o.undo) # 0 /\ ~(Len(o.undo) <= 1) /\ Len(o.undo) # 1 /\ o.undo # <<>>
      <4>1. 2 >= 2 /\ 2 \in Nat
        OBVIOUS
      <4>2. Len(o.undo) >= 2
        BY <3>3, <3>7, <4>1, Zenon
      <4>3. Len(<<>>) = 0
        OBVIOUS
      <4> QED
        BY <3>2, <4>2, <4>3, Counts, Zenon
    <3>9. Traced(x, o.config, v)
      <4>1. CASE o.op = "save"
        BY <3>1, <3>4, <3>8, <4>1, Zenon DEF Traced
      <4>2. CASE o.op = "remove"
        BY <3>1, <3>4, <3>8, <4>2, Zenon DEF Traced
      <4> QED
        BY <3>3, <4>1, <4>2
    <3>10. StillSo(x, o.config, v)
      <4>1. o.op = "save" /\ o.config.kind = "key" => v.key # 0
        BY <3>1 DEF StillSo
      <4>2. o.op = "remove" => o.config = NoServer
        BY <3>1 DEF Placed, Undoing
      <4> QED
        BY <3>3, <3>4, <4>1, <4>2 DEF StillSo, Trying
    <3>11. Midway(x, o.config)
      <4>1. CASE o.op = "save"
        BY <3>4, <3>8, <4>1, Zenon DEF Midway
      <4>2. CASE o.op = "remove"
        BY <3>4, <4>2 DEF Midway
      <4> QED
        BY <3>3, <4>1, <4>2
    <3> QED
      BY <3>5, <3>6, <3>9, <3>10, <3>11 DEF Goes
  <2> QED
    BY <1>1, <1>3, <2>3, <2>5, <2>6, <2>7, FileMoves
<1> QED
  BY <1>4, <1>5

\* The list of servers cannot be written.
LEMMA WriteFailsKeeps ==
  ASSUME McpInv, NEW u \in McpUsers, WriteFails(u)
  PROVE  McpInv'
<1> DEFINE o == users[u]
<1>1. Me(u).at = "write" /\ o.at = "write" /\ Me(u).at # "idle" /\ UNCHANGED <<registry, vault>> /\ given' \in Nat
      /\ entangled' = entangled
  BY DEF WriteFails, Quiet, stored, McpInv, McpTyped, Me
<1>2. o \in Operations
  BY <1>1, UserHas
<1>3. PICK x : x = [o EXCEPT !.at = "failing", !.list = <<>>]
  OBVIOUS
<1>4. users' = [users EXCEPT ![u] = x]
  BY <1>3 DEF WriteFails, UserGoes, Me
<1>5. x \in Operations /\ x.at = "failing" /\ Same(x, o)
  <2>1. "failing" \in Places /\ <<>> \in {<<>>} \cup [McpServers -> ServerConfigs]
    BY PlacesAre
  <2>2. Listed([o EXCEPT !.at = "failing", !.list = <<>>], o, "failing", <<>>)
    BY <1>2, <2>1, ListChanges, Zenon
  <2> QED
    BY <1>3, <2>2 DEF Listed
<1>6. OperationTyped(x) /\ x.at \notin Undoing /\ Me(u).at \notin Undoing \cup {"keep", "clean", "wipe"}
  BY <1>1, <1>5 DEF OperationTyped, Undoing
<1>7. Placed(o) => Placed(x) /\ x.at \notin {"keep", "clean", "wipe"}
  <2>1. o.at = "write" /\ Same(x, o) /\ x.at = "failing"
    BY <1>1, <1>5
  <2> HIDE DEF o
  <2> QED
    BY <2>1 DEF Placed, Same, Trying, Undoing
<1> QED
  BY <1>1, <1>4, <1>5, <1>6, <1>7, StepsOn

\* The file is read, to be written, or because settings are to be put back.
LEMMA ReadRegistryKeeps ==
  ASSUME McpInv, NEW u \in McpUsers, ReadRegistry(u)
  PROVE  McpInv'
<1> DEFINE o == users[u]
           c == registry[Server(u)]
           v == vault[Server(u)]
<1>1. o.at \in {"put", "config"} /\ Me(u).at \in {"put", "config"} /\ Me(u).at = o.at /\ Me(u).at # "idle"
      /\ UNCHANGED <<registry, vault>> /\ given' \in Nat /\ entangled' = entangled
      /\ registry \in [McpServers -> ServerConfigs]
  BY DEF ReadRegistry, Quiet, stored, McpInv, McpTyped, Me
<1>2. o \in Operations /\ OperationTyped(o) /\ o.undo \in Seq(UndoSteps)
  BY <1>1, UserHas
<1>3. o \in Operations
  BY <1>2
<1>4. CASE o.at = "config" /\ o.op # "remove" /\ c = o.undo[1].config
  <2>1. Unwind(u, Tail(o.undo))
    BY <1>4 DEF ReadRegistry, Me
  <2>2. o.undo # <<>>
    BY <1>2, <1>4 DEF OperationTyped
  <2>3. Tail(o.undo) \in Seq(UndoSteps)
    BY <1>2, <2>2, TailIs
  <2>4. PICK x \in Operations : /\ users' = [users EXCEPT ![u] = x] /\ OperationTyped(x)
                                /\ Unwound(x, o, Tail(o.undo))
    BY <1>1, <2>1, <2>3, UnwindGoes
  <2>5. x.on = o.on /\ x.was = o.was
    BY <2>4 DEF Unwound
  <2>6. ASSUME Goes(o, c, v)
        PROVE  Goes(x, c, v) /\ (Midway(o, c) => Midway(x, c))
    <3>1. PutsBack(o, c, v, c, v)
      BY <1>4 DEF PutsBack
    <3>2. o.at # "secrets" /\ o.op # "remove"
      BY <1>4
    <3> HIDE DEF o, c, v
    <3>3. /\ Goes(x, c, v)
          /\ Midway(o, c) /\ c = c /\ o.op # "remove" /\ o.at # "secrets" => Midway(x, c)
      BY <1>2, <2>2, <2>4, <2>6, <3>1, UndoneIs
    <3> QED
      BY <3>2, <3>3
  <2> QED
    BY <1>1, <2>4, <2>5, <2>6, QuietMoves
<1>5. CASE o.at = "config" /\ ~(o.op # "remove" /\ c = o.undo[1].config)
  <2>1. PICK x : x = [o EXCEPT !.at = "write back", !.list = registry]
    OBVIOUS
  <2>2. users' = [users EXCEPT ![u] = x]
    BY <1>5, <2>1 DEF ReadRegistry, UserGoes, Me
  <2>3. x \in Operations /\ x.at = "write back" /\ Same(x, o) /\ x.list = registry
    <3> HIDE DEF o
    <3>1. "write back" \in Places /\ registry \in {<<>>} \cup [McpServers -> ServerConfigs]
      BY <1>1, PlacesAre
    <3>2. Listed([o EXCEPT !.at = "write back", !.list = registry], o, "write back", registry)
      BY <1>3, <3>1, ListChanges, Zenon
    <3> QED
      BY <2>1, <3>2 DEF Listed
  <2>4. registry # <<>>
    <3>1. DOMAIN registry = McpServers /\ Server(u) \in McpServers
      BY <1>1, UserHas
    <3>2. DOMAIN <<>> = {}
      OBVIOUS
    <3> QED
      BY <3>1, <3>2
  <2>5. OperationTyped(x) /\ x.on = o.on /\ x.was = o.was
    <3>1. o.undo # <<>> /\ o.undo[1].what = "config" /\ x.undo = o.undo
      BY <1>2, <1>5, <2>3 DEF OperationTyped, Same
    <3> QED
      BY <2>3, <2>4, <3>1 DEF OperationTyped, Same
  <2>6. ASSUME Goes(o, c, v)
        PROVE  Goes(x, c, v) /\ (Midway(o, c) => Midway(x, c))
    <3>1. Placed(o) /\ Shaped(o) /\ (o.op # "use" => Traced(o, c, v) /\ StillSo(o, c, v)) /\ o.at = "config"
      BY <1>5, <2>6 DEF Goes
    <3> HIDE DEF o, c, v
    <3>2. Placed(x)
      BY <2>3, <3>1 DEF Placed, Same, Trying, Undoing
    <3>3. Shaped(x)
      BY <2>3, <3>1 DEF Shaped, Same, Undoing
    <3>4. o.op # "use" => Traced(x, c, v)
      BY <2>3, <3>1 DEF Traced, Same
    <3>5. o.op # "use" => StillSo(x, c, v)
      BY <2>3, <3>1 DEF StillSo, Same, Trying, Undoing
    <3>6. Midway(o, c) => Midway(x, c)
      BY <2>3, <3>1 DEF Midway, Same
    <3> QED
      BY <2>3, <3>2, <3>3, <3>4, <3>5, <3>6 DEF Goes, Same
  <2> QED
    BY <1>1, <2>2, <2>3, <2>5, <2>6, QuietMoves
<1>6. CASE o.at = "put"
  <2>1. PICK x : x = [o EXCEPT !.at = "write", !.list = registry]
    OBVIOUS
  <2>2. users' = [users EXCEPT ![u] = x]
    BY <1>6, <2>1 DEF ReadRegistry, UserGoes, Me
  <2>3. x \in Operations /\ x.at = "write" /\ Same(x, o) /\ x.list = registry
    <3> HIDE DEF o
    <3>1. "write" \in Places /\ registry \in {<<>>} \cup [McpServers -> ServerConfigs]
      BY <1>1, PlacesAre
    <3>2. Listed([o EXCEPT !.at = "write", !.list = registry], o, "write", registry)
      BY <1>3, <3>1, ListChanges, Zenon
    <3> QED
      BY <2>1, <3>2 DEF Listed
  <2>4. registry # <<>>
    <3>1. DOMAIN registry = McpServers /\ Server(u) \in McpServers
      BY <1>1, UserHas
    <3>2. DOMAIN <<>> = {}
      OBVIOUS
    <3> QED
      BY <3>1, <3>2
  <2>5. OperationTyped(x) /\ x.at \notin Undoing /\ Me(u).at \notin Undoing \cup {"keep", "clean", "wipe"}
    BY <1>1, <1>6, <2>3, <2>4 DEF OperationTyped, Undoing
  <2>6. Placed(o) => Placed(x) /\ x.at \notin {"keep", "clean", "wipe"}
    <3>1. o.at = "put"
      BY <1>6
    <3> HIDE DEF o
    <3> QED
      BY <2>3, <3>1 DEF Placed, Same, Trying, Undoing
  <2> QED
    BY <1>1, <1>6, <2>2, <2>3, <2>5, <2>6, StepsOn
<1> QED
  BY <1>1, <1>4, <1>5, <1>6

\* What the settings do not use is removed from the keyring, as far as it is seen.
LEMMA CleanKeeps ==
  ASSUME McpInv, NEW u \in McpUsers, Clean(u)
  PROVE  McpInv'
<1> DEFINE o == users[u]
           c == registry[Server(u)]
           v == vault[Server(u)]
           used == Used(o.config.kind, v)
<1>1. o.at \in {"clean", "wipe"} /\ Me(u).at = o.at /\ Me(u).at # "idle" /\ registry' = registry /\ given' \in Nat
      /\ users' = [users EXCEPT ![u] = NoOperation]
  BY DEF Clean, McpInv, McpTyped, Me, UserGoes
<1>2. PICK w \in Partly(v, used) : Leaves(u, w, w # used)
  BY DEF Clean, Me
<1>3. o \in Operations /\ v \in Secrets
  <2>1. o \in Operations /\ Server(u) \in McpServers
    BY <1>1, UserHas
  <2> QED
    BY <2>1 DEF McpInv, McpTyped
<1>4. \A kind : /\ Used(kind, v) \in Secrets
                /\ kind = "key" => Used(kind, v).key = v.key
                /\ kind # "key" => Used(kind, v).key = 0
                /\ kind # "oauth" => Used(kind, v).access = 0 /\ Used(kind, v).refresh = 0
  BY <1>3, UsedIs
<1>5. w \in Secrets
  BY <1>2, <1>3, <1>4, PartlyIs
<1>6. ASSUME Goes(o, c, v), w = used PROVE Fits(c, w)
  <2>1. CASE o.at = "wipe"
    <3>1. o.op = "remove"
      BY <1>6, <2>1 DEF Goes, Placed
    <3>2. c = NoServer /\ o.config = NoServer
      BY <1>6, <2>1, <3>1 DEF Goes, StillSo, Placed, Undoing
    <3>3. c.kind = "none" /\ w = Used("none", v)
      BY <1>6, <3>2 DEF NoServer
    <3> HIDE DEF o, c, v
    <3> QED
      BY <1>4, <3>3 DEF Fits
  <2>2. CASE o.at = "clean"
    <3>1. o.op = "save"
      BY <1>6, <2>2 DEF Goes, Placed
    <3>2. c = o.config /\ (o.config.kind = "key" => v.key # 0)
      BY <1>6, <2>2, <3>1 DEF Goes, StillSo
    <3>3. w = Used(o.config.kind, v)
      BY <1>6
    <3> HIDE DEF o, c, v
    <3> QED
      BY <1>4, <3>2, <3>3 DEF Fits
  <2> QED
    BY <1>1, <2>1, <2>2
<1>7. NoOperation.was = <<>>
  BY IdleIs
<1>8. CASE w # used
  <2>1. Leaves(u, w, TRUE)
    BY <1>2, <1>8 DEF Leaves, Crosses
  <2> QED
    BY <1>1, <1>5, <2>1, GivesUp
<1>9. CASE w = used
  <2>1. SetsVault(u, w)
    BY <1>2, <1>9 DEF SetsVault, Leaves, Crosses
  <2>2. ASSUME Goes(o, c, v) PROVE Fits(c, w)
    BY <1>6, <1>9, <2>2
  <2> HIDE DEF used
  <2> QED
    BY <1>1, <1>5, <1>7, <2>1, <2>2, VaultMoves
<1> QED
  BY <1>8, <1>9

\* The keyring fails while it is cleaned.
LEMMA CleanFailsKeeps ==
  ASSUME McpInv, NEW u \in McpUsers, CleanFails(u)
  PROVE  McpInv'
<1> DEFINE o == users[u]
           c == registry[Server(u)]
           v == vault[Server(u)]
<1>1. o.at \in {"clean", "wipe"} /\ Me(u).at # "idle" /\ registry' = registry /\ given' \in Nat
      /\ Unwind(u, o.undo)
  BY DEF CleanFails, Fails, McpInv, McpTyped, Me
<1>2. o \in Operations /\ o.undo \in Seq(UndoSteps) /\ Len(o.undo) \in Nat /\ v \in Secrets
  <2>1. o \in Operations /\ o.undo \in Seq(UndoSteps) /\ Len(o.undo) \in Nat /\ Server(u) \in McpServers
    BY <1>1, UserHas
  <2> QED
    BY <2>1 DEF McpInv, McpTyped
<1>3. PICK w \in Secrets : SetsVault(u, w)
  <2>1. PICK w \in Partly(v, Used(o.config.kind, v)) : SetsVault(u, w)
    BY DEF CleanFails, Me
  <2>2. w \in Secrets
    BY <1>2, <2>1, UsedIs, PartlyIs
  <2> QED
    BY <2>1, <2>2
<1>4. PICK x \in Operations : users' = [users EXCEPT ![u] = x] /\ OperationTyped(x) /\ Unwound(x, o, o.undo)
  BY <1>1, <1>2, UnwindGoes
<1>5. x.on = o.on /\ x.was = o.was
  BY <1>4 DEF Unwound
<1>6. ASSUME Goes(o, c, v)
      PROVE  Goes(x, c, w) /\ Midway(x, c)
  <2>1. Placed(o) /\ Shaped(o) /\ (o.op # "use" => Traced(o, c, v) /\ StillSo(o, c, v))
        /\ o.at \in {"clean", "wipe"} /\ (o.at = "clean" => o.op = "save") /\ (o.at = "wipe" => o.op = "remove")
    BY <1>1, <1>6 DEF Goes, Placed
  <2>2. o.undo \in Seq(UndoSteps) /\ Len(o.undo) \in Nat
    BY <1>2
  <2> HIDE DEF o, c, v
  <2>3. (o.op = "save" => Len(o.undo) >= 2) /\ (o.op = "remove" => Len(o.undo) = 2 /\ o.undo[1].what = "config")
        /\ o.was # <<>> /\ o.op \in {"save", "remove"}
    BY <2>1 DEF Shaped, Undoing
  <2>4. Len(o.undo) # 0 /\ ~(Len(o.undo) <= 1) /\ Len(o.undo) # 1 /\ o.undo # <<>>
    <3>1. 2 >= 2 /\ 2 \in Nat
      OBVIOUS
    <3>2. Len(o.undo) >= 2
      BY <2>3, <3>1, Zenon
    <3>3. Len(<<>>) = 0
      OBVIOUS
    <3> QED
      BY <2>2, <3>2, <3>3, Counts, Zenon
  <2>5. Placed(x) /\ StillSo(x, c, w) /\ x.at \in Undoing /\ x.at \notin {"keep", "write back"}
        /\ (x.at = "failed" => x.undo = <<>>) /\ x.at = o.undo[1].what
    BY <1>2, <1>4, <2>2, <2>3, <2>4, UnwoundIs
  <2>6. x.op = o.op /\ x.undo = o.undo /\ x.was = o.was
    BY <1>4 DEF Unwound
  <2>7. Shaped(x)
    BY <2>1, <2>3, <2>5, <2>6 DEF Shaped
  <2>8. Traced(x, c, w)
    <3>1. CASE o.op = "save"
      BY <2>1, <2>4, <2>6, <3>1, Zenon DEF Traced
    <3>2. CASE o.op = "remove"
      BY <2>1, <2>4, <2>6, <3>2, Zenon DEF Traced
    <3> QED
      BY <2>3, <3>1, <3>2
  <2>9. Midway(x, c)
    <3>1. CASE o.op = "save"
      BY <2>4, <2>6, <3>1, Zenon DEF Midway
    <3>2. CASE o.op = "remove"
      BY <2>3, <2>5, <2>6, <3>2 DEF Midway
    <3> QED
      BY <2>3, <3>1, <3>2
  <2> QED
    BY <2>5, <2>7, <2>8, <2>9 DEF Goes
<1> HIDE DEF o
<1> QED
  BY <1>1, <1>3, <1>4, <1>5, <1>6, VaultMoves DEF o

\* An operation is broken off: what it had begun to change counts as entangled.
LEMMA InterruptedKeeps ==
  ASSUME McpInv, NEW u \in McpUsers, Interrupted(u)
  PROVE  McpInv'
<1> DEFINE o == users[u]
           c == registry[Server(u)]
           v == vault[Server(u)]
<1>1. Me(u).at = o.at /\ o.at # "idle" /\ registry' = registry /\ given' \in Nat
      /\ users' = [users EXCEPT ![u] = NoOperation]
  BY DEF Interrupted, McpInv, McpTyped, Me, UserGoes
<1>2. o \in Operations /\ OperationTyped(o) /\ o.undo \in Seq(UndoSteps) /\ v \in Secrets
  <2>1. o \in Operations /\ OperationTyped(o) /\ o.undo \in Seq(UndoSteps) /\ Server(u) \in McpServers
    BY <1>1, UserHas
  <2> QED
    BY <2>1 DEF McpInv, McpTyped
<1>3. PICK goal : /\ goal = CASE o.at = "store" -> Stored(u)
                              [] o.at \in {"clean", "wipe"} -> Used(o.config.kind, v)
                              [] o.at = "secrets" -> Restored(u)
                              [] OTHER -> v
                  /\ \E w \in Partly(v, goal) : Leaves(u, w, o.undo # <<>>)
  BY <1>1 DEF Interrupted, Me
<1>4. /\ goal \in Secrets
      /\ o.at = "store" => goal.key = v.key
      /\ o.at \notin {"store", "clean", "wipe", "secrets"} => goal = v
  <2>1. CASE o.at = "store"
    <3>1. goal = Stored(u)
      BY <1>3, <2>1
    <3> QED
      BY <1>1, <2>1, <3>1, StoredIs
  <2>2. CASE o.at \in {"clean", "wipe"}
    <3>1. goal = Used(o.config.kind, v)
      BY <1>3, <2>2
    <3> QED
      BY <1>2, <2>2, <3>1, UsedIs
  <2>3. CASE o.at = "secrets"
    <3>1. goal = o.undo[1].secrets
      BY <1>3, <2>3 DEF Restored, Me
    <3>2. o.undo[1] \in UndoSteps /\ o.undo[1].what = "secrets"
      BY <1>2, <2>3 DEF OperationTyped
    <3> QED
      BY <2>3, <3>1, <3>2 DEF UndoSteps
  <2>4. CASE o.at \notin {"store", "clean", "wipe", "secrets"}
    <3>1. goal = v
      BY <1>3, <2>4
    <3> QED
      BY <1>2, <2>4, <3>1
  <2> QED
    BY <2>1, <2>2, <2>3, <2>4
<1>5. PICK w \in Partly(v, goal) : Leaves(u, w, o.undo # <<>>)
  BY <1>3
<1>6. w \in Secrets /\ w.key \in {v.key, goal.key} /\ w.access \in {v.access, goal.access}
      /\ w.refresh \in {v.refresh, goal.refresh}
  BY <1>2, <1>4, <1>5, PartlyIs
<1>7. NoOperation.was = <<>>
  BY IdleIs
<1>8. CASE o.undo # <<>>
  <2>1. Leaves(u, w, TRUE)
    BY <1>5, <1>8 DEF Leaves, Crosses
  <2> QED
    BY <1>1, <1>6, <2>1, GivesUp
<1>9. CASE o.undo = <<>>
  <2>1. SetsVault(u, w)
    BY <1>5, <1>9 DEF SetsVault, Leaves, Crosses
  <2>2. ASSUME Goes(o, c, v), o.op = "use" => c = o.config, Fits(c, v) \/ Midway(o, c)
        PROVE  Fits(c, w)
    <3>1. Placed(o) /\ Shaped(o) /\ OperationTyped(o) /\ o \in Operations /\ o.undo = <<>>
          /\ (o.op = "use" => c = o.config) /\ (Fits(c, v) \/ Midway(o, c))
      BY <1>2, <1>9, <2>2 DEF Goes
    <3> HIDE DEF o, c, v
    <3>2. Len(o.undo) = 0
      BY <3>1
    <3>3. o.at \notin {"secrets", "config", "write back"}
      BY <3>1 DEF OperationTyped
    <3>4. o.at \notin {"clean", "wipe"}
      <4>1. ASSUME o.at \in {"clean", "wipe"} PROVE FALSE
        <5>1. o.at \notin Undoing \cup {"keep"} /\ o.op \in {"save", "remove"}
          BY <3>1, <4>1 DEF Placed, Undoing
        <5>2. Len(o.undo) >= 2 \/ Len(o.undo) = 2
          BY <3>1, <5>1, Zenon DEF Shaped
        <5> QED
          BY <3>2, <5>2, Downs, Zenon
      <4> QED
        BY <4>1
    <3>5. Fits(c, v)
      BY <3>1, <3>3, <3>4 DEF Midway
    <3>6. CASE o.at = "store"
      <4>1. o.op \in {"use", "save", "sign in", "sign in, save", "test", "remove", "enable"}
        BY <3>1 DEF Operations
      <4>2. o.op = "use" /\ o.config.kind = "oauth"
        <5>1. o.at \notin Undoing \cup {"keep"} /\ o.op \notin {"remove", "enable"} /\ o.config.kind = "oauth"
          BY <3>1, <3>6 DEF Placed, Undoing
        <5>2. o.op # "use" => Len(o.undo) >= 2 \/ Len(o.undo) = 1
          BY <3>1, <4>1, <5>1, Zenon DEF Shaped
        <5> QED
          BY <3>2, <5>1, <5>2, Downs, Zenon
      <4>3. w.key = v.key
        BY <1>4, <1>6, <3>6
      <4> QED
        BY <3>1, <3>5, <4>2, <4>3 DEF Fits
    <3>7. CASE o.at # "store"
      <4>1. w.key = v.key /\ w.access = v.access /\ w.refresh = v.refresh
        BY <1>4, <1>6, <3>3, <3>4, <3>7
      <4> QED
        BY <3>5, <4>1 DEF Fits
    <3> QED
      BY <3>6, <3>7
  <2> QED
    BY <1>1, <1>6, <1>7, <2>1, <2>2, VaultMoves
<1> QED
  BY <1>8, <1>9

\* Two sequences put together.
LEMMA JoinIs ==
  ASSUME NEW S, NEW p \in Seq(S), NEW q \in Seq(S)
  PROVE  /\ Len(p \o q) = Len(p) + Len(q)
         /\ \A i \in 1..(Len(p) + Len(q)) : (p \o q)[i] = IF i <= Len(p) THEN p[i] ELSE q[i - Len(p)]
OBVIOUS

\* The copies of secrets and settings, alone or both, and in front of those there were.
LEMMA CopiesMake ==
  ASSUME NEW a \in UndoSteps, NEW b \in UndoSteps, NEW q \in Seq(UndoSteps)
  PROVE  /\ <<a>> \o <<>> = <<a>> /\ <<a, b>> \o <<>> = <<a, b>>
         /\ <<a>> \o q \in Seq(UndoSteps) /\ <<a, b>> \o q \in Seq(UndoSteps)
         /\ Len(q) = 2 => /\ Len(<<a, b>> \o q) = 4 /\ (<<a, b>> \o q)[4] = q[2] /\ (<<a, b>> \o q)[3] = q[1]
                          /\ (<<a, b>> \o q)[2] = b
<1>1. <<a>> \in Seq(UndoSteps) /\ <<a, b>> \in Seq(UndoSteps)
  OBVIOUS
<1>2. <<a>> \o <<>> = <<a>> /\ <<a, b>> \o <<>> = <<a, b>>
  OBVIOUS
<1>3. <<a>> \o q \in Seq(UndoSteps) /\ <<a, b>> \o q \in Seq(UndoSteps)
  BY <1>1
<1>4. ASSUME Len(q) = 2
      PROVE  /\ Len(<<a, b>> \o q) = 4 /\ (<<a, b>> \o q)[4] = q[2] /\ (<<a, b>> \o q)[3] = q[1]
             /\ (<<a, b>> \o q)[2] = b
  <2>1. PICK p : p = <<a, b>>
    OBVIOUS
  <2>2. p \in Seq(UndoSteps) /\ Len(p) = 2 /\ p[2] = b
    BY <1>1, <2>1
  <2>3. Len(p \o q) = 4 /\ \A i \in 1..4 : (p \o q)[i] = IF i <= 2 THEN p[i] ELSE q[i - 2]
    <3>1. Len(p \o q) = Len(p) + Len(q)
      BY <2>2, JoinIs
    <3>2. \A i \in 1..(Len(p) + Len(q)) : (p \o q)[i] = IF i <= Len(p) THEN p[i] ELSE q[i - Len(p)]
      BY <2>2, JoinIs
    <3>3. Len(p) + Len(q) = 4
      BY <1>4, <2>2
    <3> QED
      BY <2>2, <3>1, <3>2, <3>3
  <2>4. (p \o q)[4] = q[2] /\ (p \o q)[3] = q[1] /\ (p \o q)[2] = p[2]
    BY <2>3
  <2> QED
    BY <2>1, <2>2, <2>3, <2>4
<1> QED
  BY <1>2, <1>3, <1>4

\* Lengths of the copies, compared.
LEMMA Ups ==
  /\ 2 <= 4 /\ 2 <= 2 /\ 2 >= 1 /\ 2 >= 2 /\ ~(2 >= 3) /\ 2 # 0 /\ 2 # 1 /\ ~(2 <= 1)
  /\ 4 <= 4 /\ 4 >= 1 /\ 4 >= 2 /\ 4 >= 3 /\ 4 # 0 /\ 4 # 1 /\ ~(4 <= 1)
  /\ 2 - 1 = 1 /\ 4 - 1 = 3 /\ 4 - 2 = 2
OBVIOUS

\* The copies are taken.
LEMMA KeepKeeps ==
  ASSUME McpInv, NEW u \in McpUsers, Keep(u)
  PROVE  McpInv'
<1> DEFINE o == users[u]
           c == registry[Server(u)]
           v == vault[Server(u)]
<1>1. o.at = "keep" /\ Me(u).at # "idle" /\ UNCHANGED <<registry, vault>> /\ given' \in Nat /\ entangled' = entangled
  BY DEF Keep, Quiet, stored, McpInv, McpTyped, Me
<1>2. o \in Operations /\ o.undo \in Seq(UndoSteps) /\ c \in ServerConfigs /\ v \in Secrets
  <2>1. o \in Operations /\ o.undo \in Seq(UndoSteps) /\ Server(u) \in McpServers
    BY <1>1, UserHas
  <2> QED
    BY <2>1 DEF McpInv, McpTyped
<1>0. PICK seen \in Seen(v) :
        LET copy == CopyOf(Server(u), seen)
            level == CASE o.op \in {"save", "sign in, save"} -> <<copy.secrets, copy.config>>
                       [] o.op = "remove" -> <<copy.config, copy.secrets>>
                       [] OTHER -> <<copy.secrets>>
        IN UserGoes(u, [o EXCEPT !.undo = level \o @, !.was = IF @ = <<>> THEN <<c, v>> ELSE @, !.at =
             IF o.op = "remove" THEN "put" ELSE
             IF o.op \in {"sign in", "sign in, save"} THEN "sign in" ELSE "supply"])
  BY DEF Keep, Me
<1>3. PICK cc, cs : cc = [what |-> "config", config |-> c]
                    /\ cs = [what |-> "secrets", secrets |-> seen, real |-> v]
  OBVIOUS
<1>4. /\ cc \in UndoSteps /\ cc.what = "config" /\ cc.config = c
      /\ cs \in UndoSteps /\ cs.what = "secrets" /\ cs.real = v
  BY <1>2, <1>3, SeenIs DEF UndoSteps
<1>5. CopyOf(Server(u), seen).config = cc /\ CopyOf(Server(u), seen).secrets = cs
  BY <1>3 DEF CopyOf
<1>6. PICK level : level = IF o.op \in {"save", "sign in, save"} THEN <<cs, cc>> ELSE
                           IF o.op = "remove" THEN <<cc, cs>> ELSE <<cs>>
  OBVIOUS
<1>7. PICK a : a = IF o.op = "remove" THEN "put" ELSE
                   IF o.op \in {"sign in", "sign in, save"} THEN "sign in" ELSE "supply"
  OBVIOUS
<1>8. PICK was : was = IF o.was = <<>> THEN <<c, v>> ELSE o.was
  OBVIOUS
<1>9. PICK x : x = [o EXCEPT !.undo = level \o o.undo, !.was = was, !.at = a]
  OBVIOUS
<1>10. users' = [users EXCEPT ![u] = x]
  <2>1. level = CASE o.op \in {"save", "sign in, save"} -> <<CopyOf(Server(u), seen).secrets, CopyOf(Server(u), seen).config>>
                    [] o.op = "remove" -> <<CopyOf(Server(u), seen).config, CopyOf(Server(u), seen).secrets>>
                    [] OTHER -> <<CopyOf(Server(u), seen).secrets>>
    BY <1>5, <1>6
  <2> QED
    BY <1>0, <1>7, <1>8, <1>9, <2>1 DEF UserGoes
<1>11. level \o o.undo \in Seq(UndoSteps)
  BY <1>2, <1>4, <1>6, CopiesMake
<1>12. /\ x \in Operations /\ x.op = o.op /\ x.on = o.on /\ x.config = o.config /\ x.undo = level \o o.undo
       /\ x.was = was /\ x.at = a /\ (x.test <=> o.test)
  <2> DEFINE n1 == [o EXCEPT !.undo = level \o o.undo]
             n2 == [n1 EXCEPT !.was = was]
             n3 == [n2 EXCEPT !.at = a]
  <2>1. x = n3
    BY <1>9
  <2>2. o \in Operations
    BY <1>2
  <2> HIDE DEF o
  <2>3. n1 \in Operations /\ n1.op = o.op /\ n1.on = o.on /\ n1.config = o.config /\ n1.undo = level \o o.undo
        /\ n1.was = o.was
    BY <1>11, <2>2 DEF Operations
  <2>4. n1.test <=> o.test
    BY <2>2, Zenon DEF Operations
  <2> HIDE DEF n1
  <2>5. was \in {<<>>} \cup (ServerConfigs \X Secrets)
    BY <1>2, <1>8, <2>2 DEF Operations
  <2>6. n2 \in Operations /\ n2.op = o.op /\ n2.on = o.on /\ n2.config = o.config /\ n2.undo = level \o o.undo
        /\ n2.was = was
    BY <2>3, <2>5 DEF Operations
  <2>7. n2.test <=> n1.test
    BY <2>3, Zenon DEF Operations
  <2> HIDE DEF n2
  <2>8. a \in Places
    BY <1>7 DEF Places
  <2>9. n3 \in Operations /\ Same(n3, n2) /\ n3.at = a
    BY <2>6, <2>8, PlaceChanges
  <2> HIDE DEF n3
  <2> QED
    BY <2>1, <2>6, <2>9, <2>4, <2>7 DEF Same
<1>13. a \in {"put", "sign in", "supply"}
  BY <1>7
<1>14. OperationTyped(x)
  BY <1>12, <1>13 DEF OperationTyped
<1>15. ASSUME Server(u) \notin entangled, Goes(o, c, v)
       PROVE  /\ Goes(x, c, v)
              /\ Midway(o, c) => Midway(x, c)
              /\ x.was = o.was \/ (x.was = <<c, v>> /\ ~Midway(o, c))
  <2>1. Placed(o) /\ Shaped(o) /\ (o.op # "use" => Traced(o, c, v) /\ StillSo(o, c, v)) /\ o.at = "keep"
    BY <1>1, <1>15 DEF Goes
  <2>2. o.op \in {"use", "save", "sign in", "sign in, save", "test", "remove", "enable"} /\ o.undo \in Seq(UndoSteps)
    BY <1>2 DEF Operations
  <2> HIDE DEF o, c, v
  <2>3. o.op \notin {"use", "enable"}
    BY <2>1 DEF Placed, Trying
  <2>4. Placed(x)
    <3>1. o.at \notin Undoing /\ o.at = "keep"
      BY <2>1 DEF Undoing
    <3>2. /\ o.op \in {"sign in", "sign in, save"} => o.config.kind = "oauth"
          /\ o.op # "remove" => o.config.kind # "none"
          /\ o.op = "remove" => o.config = NoServer
      BY <2>1, <3>1, Zenon DEF Placed
    <3>3. o.op = "test" => x.test
      BY <1>12, <2>1, <3>1, Zenon DEF Placed
    <3>4. x.op = o.op /\ x.config = o.config
          /\ x.at = IF o.op = "remove" THEN "put" ELSE
                    IF o.op \in {"sign in", "sign in, save"} THEN "sign in" ELSE "supply"
      BY <1>7, <1>12
    <3>5. o.op \in {"save", "sign in", "sign in, save", "test", "remove"}
      BY <2>2, <2>3
    <3> QED
      BY <3>2, <3>3, <3>4, <3>5 DEF Placed, Trying, Undoing
  <2>5. StillSo(x, c, v)
    BY <1>7, <1>12, <2>1, <2>3 DEF StillSo, Trying, Undoing
  <2>6. x.at \notin Undoing \cup {"keep"}
    BY <1>12, <1>13 DEF Undoing
  <2>7. CASE o.undo = <<>> /\ o.was = <<>>
    <3>1. x.was = <<c, v>> /\ x.was[1] = c /\ x.was[2] = v /\ x.was # <<>>
      BY <1>8, <1>12, <2>7
    <3>2. ~Midway(o, c)
      BY <2>1, <2>7 DEF Midway
    <3>3. x.undo = level
      <4>1. x.undo = level \o <<>>
        BY <1>12, <2>7
      <4>2. level \in {<<cs, cc>>, <<cc, cs>>, <<cs>>}
        BY <1>6
      <4> QED
        BY <4>1, <4>2
    <3>4. CASE o.op \in {"save", "sign in, save"}
      <4>1. x.undo = <<cs, cc>>
        BY <1>6, <3>3, <3>4
      <4>2. Len(x.undo) = 2 /\ x.undo[2] = cc /\ x.undo[1] = cs
        BY <4>1
      <4>3. x.undo[Len(x.undo)] = cc /\ x.undo[Len(x.undo) - 1] = cs
        BY <4>2
      <4>4. x.at \notin Undoing /\ x.at # "keep" /\ x.at # "failed"
            /\ x.op \notin {"sign in", "test"} /\ x.op # "remove"
        BY <1>12, <2>6, <3>4 DEF Undoing
      <4>5. Shaped(x)
        BY <1>4, <3>1, <4>2, <4>3, <4>4, Ups, Zenon DEF Shaped
      <4>6. Traced(x, c, v)
        BY <1>4, <3>1, <4>2, <4>3, <4>4, Ups, Zenon DEF Traced
      <4> QED
        BY <2>4, <2>5, <3>1, <3>2, <4>5, <4>6 DEF Goes
    <3>5. CASE o.op = "remove"
      <4>1. x.undo = <<cc, cs>>
        BY <1>6, <3>3, <3>5
      <4>2. Len(x.undo) = 2 /\ x.undo[2] = cs /\ x.undo[1] = cc
        BY <4>1
      <4>3. x.undo[Len(x.undo)] = cs /\ x.undo[Len(x.undo) - 1] = cc
        BY <4>2
      <4>4. x.at \notin Undoing /\ x.at # "keep" /\ x.at # "failed"
            /\ x.op = "remove" /\ x.op \notin {"save", "sign in, save", "sign in", "test"}
        BY <1>12, <2>6, <3>5 DEF Undoing
      <4>5. Shaped(x)
        BY <1>4, <3>1, <4>2, <4>3, <4>4, Ups, Zenon DEF Shaped
      <4>6. Traced(x, c, v)
        BY <1>4, <3>1, <4>2, <4>3, <4>4, Ups, Zenon DEF Traced
      <4> QED
        BY <2>4, <2>5, <3>1, <3>2, <4>5, <4>6 DEF Goes
    <3>6. CASE o.op \in {"sign in", "test"}
      <4>1. x.undo = <<cs>>
        BY <1>6, <3>3, <3>6
      <4>2. Len(x.undo) = 1 /\ x.undo[1] = cs
        BY <4>1
      <4>3. x.at \notin Undoing /\ x.at # "keep" /\ x.at # "failed"
            /\ x.op # "remove" /\ x.op \notin {"save", "sign in, save"}
        BY <1>12, <2>6, <3>6 DEF Undoing
      <4>4. Shaped(x)
        BY <1>4, <3>1, <4>2, <4>3, Downs, Zenon DEF Shaped
      <4>5. Traced(x, c, v)
        BY <1>4, <1>12, <3>1, <3>6, <4>2 DEF Traced
      <4> QED
        BY <2>4, <2>5, <3>1, <3>2, <4>4, <4>5 DEF Goes
    <3> QED
      BY <2>2, <2>3, <3>4, <3>5, <3>6
  <2>8. CASE o.op = "save" /\ Len(o.undo) = 2 /\ o.was # <<>>
    <3>1. /\ o.undo[2].what = "config" /\ o.undo[2].config = o.was[1]
          /\ o.undo[1].what = "secrets" /\ o.undo[1].real = o.was[2]
      BY <2>1, <2>8 DEF Shaped, Traced
    <3>2. x.was = o.was
      BY <1>8, <1>12, <2>8
    <3>3. x.undo = <<cs, cc>> \o o.undo
      BY <1>6, <1>12, <2>8
    <3>4. Len(x.undo) = 4 /\ x.undo[4] = o.undo[2] /\ x.undo[3] = o.undo[1] /\ x.undo[2] = cc
      BY <1>4, <2>2, <2>8, <3>3, CopiesMake
    <3>5. x.op = "save"
      BY <1>12, <2>8
    <3>6. Shaped(x)
      <4>1. x.at \notin Undoing /\ x.at # "keep" /\ x.at # "failed" /\ x.op \notin {"sign in", "test"} /\ x.op # "remove"
            /\ x.op # "sign in, save" /\ x.was # <<>>
        BY <2>6, <2>8, <3>2, <3>5 DEF Undoing
      <4>2. /\ x.undo[Len(x.undo)] = o.undo[2] /\ x.undo[Len(x.undo) - 1] = o.undo[1]
            /\ x.undo[Len(x.undo) - 2] = cc
        BY <3>4
      <4>3. x.undo[Len(x.undo)].what = "config" /\ x.undo[Len(x.undo) - 1].what = "secrets"
            /\ x.undo[Len(x.undo) - 2].what = "config"
        BY <1>4, <3>1, <4>2
      <4> QED
        BY <3>4, <4>1, <4>3, Ups, Zenon DEF Shaped
    <3>7. Traced(x, c, v)
      BY <3>1, <3>2, <3>4, <3>5 DEF Traced
    <3>8. Midway(x, c)
      <4>1. x.undo # <<>>
        BY <3>4
      <4> QED
        BY <3>4, <3>5, <4>1 DEF Midway
    <3> QED
      BY <2>4, <2>5, <3>2, <3>6, <3>7, <3>8 DEF Goes
  <2> QED
    BY <2>1, <2>7, <2>8 DEF Shaped
<1>16. x.on = o.on
  BY <1>12
<1> QED
  BY <1>1, <1>10, <1>12, <1>14, <1>15, <1>16, QuietMoves

\* The invariant holds of all users at all servers at a time.
LEMMA McpInvariant == McpSpec => []McpInv
<1>1. McpInit => McpInv
  BY McpInitInv
<1>2. McpInv /\ [McpNext]_mcpVars => McpInv'
  <2> SUFFICES ASSUME McpInv, [McpNext]_mcpVars PROVE McpInv'
    OBVIOUS
  <2>1. CASE UNCHANGED mcpVars
    BY <2>1 DEF mcpVars, McpInv, McpTyped, McpSound, OnServer, Server
  <2>3. ASSUME NEW u \in McpUsers, McpUserStep(u) PROVE McpInv'
    <3>1. ASSUME NEW s \in McpServers,
                 \/ SaveStarts(u, s) \/ AuthorizeStarts(u, s) \/ TestStarts(u, s)
                 \/ RemoveStarts(u, s) \/ ToggleStarts(u, s) \/ UseStarts(u, s)
          PROVE  McpInv'
      BY <3>1, BeginsKeep
    <3>2. CASE Keep(u)
      BY <3>2, KeepKeeps
    <3>3. CASE SupplyKey(u)
      BY <3>3, SupplyKeeps
    <3>4. CASE Check(u)
      BY <3>4, CheckKeeps
    <3>5. CASE SignInServer(u) \/ Renewed(u)
      BY <3>5, TokensKeep
    <3>6. CASE SignInFails(u) \/ NotRenewed(u) \/ NotAnswered(u) \/ TestStopped(u)
      BY <3>6, FailuresKeep
    <3>7. CASE ReadRefresh(u)
      BY <3>7, ReadRefreshKeeps
    <3>8. CASE StoreTokens(u)
      BY <3>8, StoreKeeps
    <3>9. CASE SaveSignedIn(u)
      BY <3>9, SavesSignedIn
    <3>10. CASE Connect(u)
      BY <3>10, ConnectsKeeps
    <3>11. CASE Answered_mcp(u)
      BY <3>11, AnsweredKeeps
    <3>12. CASE Unauthorized(u) \/ Forgotten(u)
      BY <3>12, RefusedKeeps
    <3>13. CASE ReadRegistry(u)
      BY <3>13, ReadRegistryKeeps
    <3>14. CASE Write_mcp(u)
      BY <3>14, WriteKeeps
    <3>15. CASE WriteFails(u)
      BY <3>15, WriteFailsKeeps
    <3>16. CASE Failing(u)
      BY <3>16, FailingKeeps
    <3>17. CASE Clean(u)
      BY <3>17, CleanKeeps
    <3>18. CASE CleanFails(u)
      BY <3>18, CleanFailsKeeps
    <3>19. CASE UndoSecrets(u)
      BY <3>19, UndoSecretsKeeps
    <3>20. CASE UndoSecretsFails(u)
      BY <3>20, UndoSecretsFailsKeeps
    <3>21. CASE UndoConfig(u)
      BY <3>21, UndoConfigKeeps
    <3>22. CASE Failed(u)
      BY <3>22, FailedKeeps
    <3>23. CASE StoreFails(u)
      BY <3>23, StoreFailsKeeps
    <3>24. CASE UndoConfigFails(u)
      BY <3>24, UndoConfigFailsKeeps
    <3>25. CASE Interrupted(u)
      BY <3>25, InterruptedKeeps
    <3> QED
      BY <2>3, <3>1, <3>2, <3>3, <3>4, <3>5, <3>6, <3>7, <3>8, <3>9, <3>10, <3>11, <3>12, <3>13, <3>14,
         <3>15, <3>16, <3>17, <3>18, <3>19, <3>20, <3>21, <3>22, <3>23, <3>24, <3>25, Zenon DEF McpUserStep
  <2> QED
    BY <2>1, <2>3 DEF McpNext
<1> QED
  BY <1>1, <1>2, PTL DEF McpSpec

(* Whatever saves, sign-ins, tests, renewals and removals came before, failed and were     *)
(* undone, and however often the keyring seemed to have nothing: while nobody is at work   *)
(* on a server, the keyring has the key its settings need and nothing for settings it does *)
(* not have (aicoder/mcp_service.py).  Excepted is a server that two users changed at a    *)
(* time, a change of which was interrupted or could not be undone, or of which the keyring *)
(* did not show a secret that was to be removed or put back.                               *)
THEOREM CredentialsStayFit == McpSpec => []CredentialsFit
<1>1. McpInv => CredentialsFit
  <2> SUFFICES ASSUME McpInv, NEW s \in McpServers \ entangled, ~AtWork(s)
               PROVE  /\ (registry[s].kind = "key") = (vault[s].key # 0)
                      /\ registry[s].kind # "oauth" => vault[s].access = 0 /\ vault[s].refresh = 0
    BY DEF CredentialsFit
  <2>1. ASSUME NEW u \in McpUsers, OnServer(u, s) PROVE FALSE
    <3>1. users[u].at # "idle" /\ Server(u) = s
      BY <2>1 DEF OnServer, McpInv, McpTyped, Operations, Trying, Undoing
    <3> QED
      BY <3>1 DEF AtWork
  <2>2. Fits(registry[s], vault[s])
    BY <2>1, Zenon DEF McpInv, McpSound
  <2> QED
    BY <2>2 DEF Fits
<1> QED
  BY <1>1, McpInvariant, PTL

(* A change or a test that fails, at whatever step and however deep in the change of a     *)
(* sign-in, leaves settings and secrets as it found them (aicoder/mcp_service.py), also    *)
(* when the undo of the save within a sign-in fails.  Excepted is a server that another    *)
(* user changed meanwhile, a change of which was interrupted, whose last undo fails, or of *)
(* which the keyring did not show a secret that was to be kept or removed.                 *)
THEOREM FailuresAreUndone == McpSpec => []FailedIsUndone
<1>1. McpInv => FailedIsUndone
  <2> SUFFICES ASSUME McpInv, NEW u \in McpUsers, Me(u).at = "failed", Me(u).was # <<>>,
                      Server(u) \notin entangled
               PROVE  registry[Server(u)] = Me(u).was[1] /\ vault[Server(u)] = Me(u).was[2]
    BY DEF FailedIsUndone
  <2> DEFINE o == users[u]
             c == registry[Server(u)]
             v == vault[Server(u)]
  <2>1. o \in Operations /\ Server(u) \in McpServers /\ Goes(o, c, v)
    BY UserHas
  <2>3. Placed(o) /\ Shaped(o) /\ (o.op # "use" => Traced(o, c, v)) /\ o.at = "failed" /\ o.was # <<>>
    BY <2>1 DEF Goes, Me
  <2>4. o.op \in {"use", "save", "sign in", "sign in, save", "test", "remove", "enable"}
    BY <2>1 DEF Operations
  <2> HIDE DEF o, c, v
  <2>5. o.op \in {"save", "sign in", "sign in, save", "test", "remove"}
    BY <2>3, <2>4 DEF Placed
  <2>6. Len(o.undo) = 0
    <3>1. Len(<<>>) = 0
      OBVIOUS
    <3> QED
      BY <2>3, <3>1, Zenon DEF Shaped
  <2>7. c = o.was[1] /\ v = o.was[2]
    BY <2>3, <2>5, <2>6, Downs, Zenon DEF Traced
  <2> QED
    BY <2>7 DEF o, c, v, Me
<1> QED
  BY <1>1, McpInvariant, PTL

================================================================================
