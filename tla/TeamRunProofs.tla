------------------------------ MODULE TeamRunProofs ------------------------------
(***************************************************************************)
(* Theorems about TeamRun for every set of runs, tasks, lanes, paths and   *)
(* verification: however many runs and users work on a directory.          *)
(***************************************************************************)
EXTENDS TeamRun, TLAPS

\* The stages in which a run has an integration workspace to commit.
Seeded == {"merge", "tests", "repair", "retest", "write"}

\* TypeOK, and workspaces that are in use hold trees.
TypeInv ==
  /\ TypeOK
  /\ \A r \in Run, l \in Lane : lanes[r][l].at # "none" => lanes[r][l].tree \in Tree
  /\ \A r \in Run : at[r] \in Seeded => integration[r] \in Workspace

\* A run's lanes are prepared after it has started; and what makes a lane differ from
\* the directory as it is now.
IdleInv == \A r \in Run, l \in Lane : at[r] = "idle" => lanes[r][l].at = "none"
LaneInv ==
  \A r \in Run, l \in Lane, p \in Path :
    at[r] = "code" /\ lanes[r][l].at # "none" /\ lanes[r][l].tree[p] # disk[p]
      => p \in touched[r] \cup skewed[r]

\* What makes the integration workspace differ from its own copy of the directory ...
DeltaInv ==
  \A r \in Run, p \in Path :
    at[r] \in Seeded /\ integration[r].tree[p] # integration[r].base[p]
      => p \in touched[r] \cup skewed[r]

\* ... and that copy from the directory as it is now.
DriftInv ==
  \A r \in Run, p \in Path :
    at[r] \in Seeded /\ disk[p] # integration[r].base[p] => p \in drifted[r]

GateInv == \A r \in Run : at[r] = "write" => integration[r].tree \in Good

\* Who has committed, stage by stage.
StatusInv ==
  \A r \in Run :
    /\ at[r] = "persisted" => r \in committed
    /\ at[r] \in {"idle", "code"} \cup Seeded => r \notin committed
    /\ at[r] \in {"done", "over"} /\ r \notin cutShort =>
         (status[r] = "completed" <=> r \in committed)

WorkInv == IdleInv /\ LaneInv /\ DeltaInv /\ DriftInv /\ GateInv /\ StatusInv
IInv == TypeInv /\ WorkInv

--------------------------------------------------------------------------------
(* Types.                                                                     *)

LEMMA LanesAreLanes ==
  ASSUME TypeOK, NEW r \in Run
  PROVE  LanesOf(r) \subseteq Lane
BY RunAssumption DEF TypeOK, LanesOf

\* The seed is made of verified lanes.
LEMMA SeedFromLanes ==
  ASSUME TypeInv, NEW r \in Run, NEW w \in Viable(r), NEW p \in Path
  PROVE  \E l \in Viable(r) : Seed(r, w)[p] = lanes[r][l].tree[p]
<1> DEFINE owners(q) == {l \in Viable(r) : q \in Delta(lanes[r][l])}
<1>1. Seed(r, w)[p] = lanes[r][w].tree[p]
        \/ (owners(p) # {} /\ Seed(r, w)[p] = lanes[r][CHOOSE l \in owners(p) : TRUE].tree[p])
  BY DEF Seed
<1>2. owners(p) # {} => (CHOOSE l \in owners(p) : TRUE) \in owners(p)
  OBVIOUS
<1>3. owners(p) \subseteq Viable(r)
  OBVIOUS
<1> HIDE DEF owners
<1>4. QED
  BY <1>1, <1>2, <1>3

LEMMA SeedIsTree ==
  ASSUME TypeInv, NEW r \in Run, NEW w \in Viable(r)
  PROVE  Seed(r, w) \in Tree
<1>1. \A p \in Path : Seed(r, w)[p] \in Value
  <2>1. TAKE p \in Path
  <2>2. PICK l \in Viable(r) : Seed(r, w)[p] = lanes[r][l].tree[p]
    BY SeedFromLanes
  <2>3. l \in Lane /\ lanes[r][l].at # "none"
    BY LanesAreLanes DEF Viable, TypeInv
  <2>4. lanes[r][l].tree \in Tree
    BY <2>3 DEF TypeInv
  <2>5. QED
    BY <2>2, <2>4 DEF Tree
<1>2. QED
  BY <1>1 DEF Seed, Tree

LEMMA HistoryTyped ==
  ASSUME TypeOK, NEW paths \in SUBSET Path, NEW others \in SUBSET Run, Changes(paths, others)
  PROVE  skewed' \in [Run -> SUBSET Path] /\ drifted' \in [Run -> SUBSET Path]
BY DEF Changes, TypeOK

LEMMA InitTyped == Init => TypeInv
BY RunAssumption DEF Init, TypeInv, TypeOK, LaneState, NoLane, Stages, Seeded

\* An action that moves runs on and leaves workspaces and history as they are.
LEMMA MovingKeepsType ==
  ASSUME TypeInv, NEW r \in Run,
         Start(r) \/ Rejected(r) \/ Merged(r) \/ Verify(r) \/ VerifyFails(r) \/ Repaired(r)
           \/ Complete(r) \/ Fail(r) \/ Interrupt(r) \/ UserStops(r)
  PROVE  TypeInv'
<1> USE DEF TypeInv, TypeOK, DiskUnchanged, Goes, Ends, Stages, Seeded
<1>1. CASE Start(r)
  BY <1>1 DEF Start
<1>2. CASE Rejected(r)
  BY <1>2 DEF Rejected
<1>3. CASE Merged(r)
  BY <1>3 DEF Merged
<1>4. CASE Verify(r)
  BY <1>4 DEF Verify
<1>5. CASE VerifyFails(r)
  BY <1>5 DEF VerifyFails
<1>6. CASE Repaired(r)
  BY <1>6 DEF Repaired
<1>7. CASE Complete(r)
  BY <1>7 DEF Complete
<1>8. CASE Fail(r)
  BY <1>8 DEF Fail
<1>9. CASE Interrupt(r)
  BY <1>9 DEF Interrupt
<1>10. CASE UserStops(r)
  BY <1>10 DEF UserStops
<1>11. QED
  BY <1>1, <1>2, <1>3, <1>4, <1>5, <1>6, <1>7, <1>8, <1>9, <1>10

\* One lane changes: what the others are.
LEMMA OneLane ==
  ASSUME TypeInv, NEW r \in Run, NEW l \in Lane, NEW n \in LaneState, n.tree \in Tree,
         lanes' = [lanes EXCEPT ![r][l] = n]
  PROVE  /\ lanes' \in [Run -> [Lane -> LaneState]]
         /\ \A q \in Run, k \in Lane :
              lanes'[q][k] = IF q = r /\ k = l THEN n ELSE lanes[q][k]
         /\ \A q \in Run, k \in Lane : lanes'[q][k].at # "none" => lanes'[q][k].tree \in Tree
BY DEF TypeInv, TypeOK

LEMMA OpenLaneKeepsType ==
  ASSUME TypeInv, NEW r \in Run, NEW l \in Lane, OpenLane(r, l)
  PROVE  TypeInv'
<1> DEFINE n == [at |-> "open", base |-> disk, tree |-> disk]
<1>1. n \in LaneState /\ n.tree \in Tree
  BY DEF LaneState, TypeInv, TypeOK
<1>2. lanes' = [lanes EXCEPT ![r][l] = n]
  BY DEF OpenLane
<1> HIDE DEF n
<1>3. QED
  BY <1>1, <1>2, OneLane DEF OpenLane, TypeInv, TypeOK, DiskUnchanged

LEMMA EndLaneKeepsType ==
  ASSUME TypeInv, NEW r \in Run, NEW l \in Lane, NEW v \in {"verified", "rejected"},
         EndLane(r, l, v)
  PROVE  TypeInv'
<1> DEFINE n == [lanes[r][l] EXCEPT !.at = v]
<1>0. lanes[r][l] \in LaneState /\ lanes[r][l].tree \in Tree
  BY DEF EndLane, TypeInv, TypeOK
<1>1. n \in LaneState /\ n.tree \in Tree
  BY <1>0 DEF LaneState
<1>2. lanes' = [lanes EXCEPT ![r][l] = n]
  BY DEF EndLane
<1> HIDE DEF n
<1>3. lanes' \in [Run -> [Lane -> LaneState]]
      /\ \A q \in Run, k \in Lane : lanes'[q][k].at # "none" => lanes'[q][k].tree \in Tree
  BY <1>1, <1>2, OneLane
<1>4. /\ UNCHANGED <<at, schedule, integration, stop, status, toEdit, touched, cutShort>>
      /\ DiskUnchanged
  BY DEF EndLane
<1>5. QED
  BY <1>3, <1>4 DEF TypeInv, TypeOK, DiskUnchanged

LEMMA EditedTree ==
  ASSUME TypeInv, NEW r \in Run, NEW l \in Lane, NEW p \in Path, NEW v \in ByAgent,
         LaneEdits(r, l, p, v)
  PROVE  LET n == [lanes[r][l] EXCEPT !.tree[p] = v]
         IN  /\ n \in LaneState /\ n.tree \in Tree /\ n.at = "open"
             /\ n.tree = [lanes[r][l].tree EXCEPT ![p] = v]
<1>1. lanes[r][l].tree \in Tree /\ lanes[r][l] \in LaneState /\ v \in Value
  BY RunAssumption DEF LaneEdits, TypeInv, TypeOK
<1>2. [lanes[r][l].tree EXCEPT ![p] = v] \in Tree
  BY <1>1 DEF Tree
<1>3. QED
  BY <1>1, <1>2 DEF LaneState, LaneEdits

LEMMA LaneEditsKeepsType ==
  ASSUME TypeInv, NEW r \in Run, NEW l \in Lane, NEW p \in Path, NEW v \in ByAgent,
         LaneEdits(r, l, p, v)
  PROVE  TypeInv'
<1> DEFINE n == [lanes[r][l] EXCEPT !.tree[p] = v]
<1>1. n \in LaneState /\ n.tree \in Tree
  BY EditedTree
<1>2. lanes' = [lanes EXCEPT ![r][l] = n]
  BY DEF LaneEdits
<1> HIDE DEF n
<1>3. /\ lanes' \in [Run -> [Lane -> LaneState]]
      /\ \A q \in Run, k \in Lane : lanes'[q][k].at # "none" => lanes'[q][k].tree \in Tree
  BY <1>1, <1>2, OneLane
<1>4. touched' \in [Run -> SUBSET Path]
  BY DEF LaneEdits, TypeInv, TypeOK
<1>5. QED
  BY <1>3, <1>4 DEF LaneEdits, TypeInv, TypeOK, DiskUnchanged

LEMMA IntegrateKeepsType ==
  ASSUME TypeInv, NEW r \in Run, NEW w \in LanesOf(r), Integrate(r, w)
  PROVE  TypeInv'
<1>1. Seed(r, w) \in Tree
  BY SeedIsTree DEF Integrate
<1>2. integration' = [integration EXCEPT ![r] = [base |-> disk, tree |-> Seed(r, w)]]
  BY DEF Integrate
<1>3. [base |-> disk, tree |-> Seed(r, w)] \in Workspace
  BY <1>1 DEF Workspace, TypeInv, TypeOK
<1>4. QED
  BY <1>2, <1>3 DEF Integrate, TypeInv, TypeOK, DiskUnchanged, Goes, Stages, Seeded

LEMMA IntegrationEditsKeepsType ==
  ASSUME TypeInv, NEW r \in Run, NEW p \in Path, NEW v \in ByAgent, IntegrationEdits(r, p, v)
  PROVE  TypeInv'
<1> DEFINE t == [integration[r].tree EXCEPT ![p] = v]
<1>1. integration[r] \in Workspace /\ v \in Value
  BY RunAssumption DEF IntegrationEdits, TypeInv, Seeded
<1>2. t \in Tree
  BY <1>1 DEF Tree, Workspace
<1>3. integration' = [integration EXCEPT ![r] = [@ EXCEPT !.tree = t]]
  BY DEF IntegrationEdits, TypeInv, TypeOK
<1> HIDE DEF t
<1>4. [integration[r] EXCEPT !.tree = t] \in Workspace
  BY <1>1, <1>2 DEF Workspace
<1>5. /\ integration' \in [Run -> Workspace \cup {NoTree}]
      /\ \A q \in Run : at[q] \in Seeded => integration'[q] \in Workspace
  BY <1>3, <1>4 DEF TypeInv, TypeOK
<1>6. touched' \in [Run -> SUBSET Path]
  BY DEF IntegrationEdits, TypeInv, TypeOK
<1>7. /\ UNCHANGED <<at, schedule, lanes, stop, status, toEdit, cutShort>> /\ DiskUnchanged
  BY DEF IntegrationEdits
<1>8. QED
  BY <1>5, <1>6, <1>7 DEF TypeInv, TypeOK, DiskUnchanged

LEMMA CommitKeepsType ==
  ASSUME TypeInv, NEW r \in Run, Commit(r)
  PROVE  TypeInv'
<1>1. integration[r] \in Workspace
  BY DEF Commit, TypeInv, Seeded
<1>2. disk' \in Tree
  BY <1>1 DEF Commit, TypeInv, TypeOK, Tree, Workspace
<1>3. skewed' \in [Run -> SUBSET Path] /\ drifted' \in [Run -> SUBSET Path]
  <2>1. Delta(integration[r]) \in SUBSET Path /\ Run \ {r} \in SUBSET Run
    BY DEF Delta
  <2>2. Changes(Delta(integration[r]), Run \ {r}) /\ TypeOK
    BY DEF Commit, TypeInv
  <2> QED BY <2>1, <2>2, HistoryTyped
<1>4. QED
  BY <1>2, <1>3 DEF Commit, TypeInv, TypeOK, Goes, Stages, Seeded

LEMMA TerminateKeepsType ==
  ASSUME TypeInv, NEW r \in Run, Terminate(r)
  PROVE  TypeInv'
<1>1. [l \in Lane |-> NoLane] \in [Lane -> LaneState]
  BY DEF LaneState, NoLane
<1>2. QED
  BY <1>1 DEF Terminate, TypeInv, TypeOK, LaneState, NoLane, DiskUnchanged, Goes, Stages, Seeded

LEMMA UserEditsKeepsType ==
  ASSUME TypeInv, NEW p \in Path, NEW v \in ByUser, UserEdits(p, v)
  PROVE  TypeInv'
<1>1. disk' \in Tree
  BY RunAssumption DEF UserEdits, TypeInv, TypeOK, Tree
<1>2. skewed' \in [Run -> SUBSET Path] /\ drifted' \in [Run -> SUBSET Path]
  BY HistoryTyped DEF UserEdits, TypeInv
<1>3. QED
  BY <1>1, <1>2 DEF UserEdits, TypeInv, TypeOK, runVars, Stages, Seeded

LEMMA NextKeepsType == TypeInv /\ [Next]_vars => TypeInv'
<1> SUFFICES ASSUME TypeInv, [Next]_vars PROVE TypeInv'
  OBVIOUS
<1>1. ASSUME NEW r \in Run, Step(r)
      PROVE  TypeInv'
  BY <1>1, MovingKeepsType, IntegrateKeepsType, CommitKeepsType, TerminateKeepsType DEF Step
<1>2. ASSUME NEW r \in Run, LaneStep(r)
      PROVE  TypeInv'
  BY <1>2, LanesAreLanes, OpenLaneKeepsType, EndLaneKeepsType DEF LaneStep, TypeInv
<1>3. ASSUME NEW r \in Run, Edits(r)
      PROVE  TypeInv'
  BY <1>3, LanesAreLanes, LaneEditsKeepsType, IntegrationEditsKeepsType DEF Edits, TypeInv
<1>4. ASSUME NEW r \in Run, Interrupt(r) \/ UserStops(r)
      PROVE  TypeInv'
  BY <1>4, MovingKeepsType
<1>5. CASE UNCHANGED vars
  BY <1>5 DEF vars, runVars, history, TypeInv, TypeOK
<1>6. QED
  BY <1>1, <1>2, <1>3, <1>4, <1>5, UserEditsKeepsType DEF Next

--------------------------------------------------------------------------------
(* What a change of the directory leaves in the history.                      *)

LEMMA ChangesAreSeen ==
  ASSUME TypeInv, NEW paths \in SUBSET Path, NEW others \in SUBSET Run, Changes(paths, others),
         NEW q \in Run
  PROVE  /\ skewed[q] \subseteq skewed'[q] /\ drifted[q] \subseteq drifted'[q]
         /\ q \in others =>
              /\ at[q] = "code" => \A l \in Lane :
                   lanes[q][l].at # "none" => paths \subseteq skewed'[q]
              /\ at[q] \in Seeded => paths \subseteq drifted'[q]
BY DEF Changes, TypeInv, TypeOK, Seeded, Stages

\* The directory changes under the runs in others: what their lanes and copies differ
\* in from it is in the history.
LEMMA ChangesKeepWork ==
  ASSUME IInv, TypeInv', NEW paths \in SUBSET Path, NEW others \in SUBSET Run,
         Changes(paths, others), \A p \in Path \ paths : disk'[p] = disk[p],
         UNCHANGED <<lanes, integration, touched>>,
         \A q \in Run : at'[q] = at[q]
           \/ (q \notin others /\ at[q] # "idle" /\ at'[q] = "persisted"),
         Run \ others \subseteq {q \in Run : at[q] = "write" /\ at'[q] = "persisted"}
  PROVE  IdleInv' /\ LaneInv' /\ DeltaInv' /\ DriftInv' /\ GateInv'
<1>1. IdleInv'
  BY DEF IInv, WorkInv, IdleInv
<1>2. LaneInv'
  <2> SUFFICES ASSUME NEW q \in Run, NEW l \in Lane, NEW p \in Path,
                      at'[q] = "code", lanes[q][l].at # "none", lanes[q][l].tree[p] # disk'[p]
               PROVE  p \in touched[q] \cup skewed'[q]
    BY DEF LaneInv
  <2>1. q \in others /\ at[q] = "code"
    OBVIOUS
  <2>2. CASE p \in paths
    BY <2>1, <2>2, ChangesAreSeen DEF IInv
  <2>3. CASE p \notin paths
    BY <2>1, <2>3, ChangesAreSeen DEF IInv, WorkInv, LaneInv
  <2>4. QED
    BY <2>2, <2>3
<1>3. DeltaInv'
  <2> SUFFICES ASSUME NEW q \in Run, NEW p \in Path, at'[q] \in Seeded,
                      integration[q].tree[p] # integration[q].base[p]
               PROVE  p \in touched[q] \cup skewed'[q]
    BY DEF DeltaInv
  <2>1. at[q] \in Seeded
    BY DEF Seeded
  <2>2. QED
    BY <2>1, ChangesAreSeen DEF IInv, WorkInv, DeltaInv
<1>4. DriftInv'
  <2> SUFFICES ASSUME NEW q \in Run, NEW p \in Path, at'[q] \in Seeded,
                      disk'[p] # integration[q].base[p]
               PROVE  p \in drifted'[q]
    BY DEF DriftInv
  <2>1. q \in others /\ at[q] \in Seeded
    BY DEF Seeded
  <2>2. CASE p \in paths
    BY <2>1, <2>2, ChangesAreSeen DEF IInv
  <2>3. CASE p \notin paths
    BY <2>1, <2>3, ChangesAreSeen DEF IInv, WorkInv, DriftInv
  <2>4. QED
    BY <2>2, <2>3
<1>5. GateInv'
  BY DEF IInv, WorkInv, GateInv
<1>6. QED
  BY <1>1, <1>2, <1>3, <1>4, <1>5

--------------------------------------------------------------------------------
(* Each action keeps what the theorems need.                                  *)

LEMMA MovingKeepsWork ==
  ASSUME IInv, NEW r \in Run,
         Start(r) \/ Rejected(r) \/ Merged(r) \/ Verify(r) \/ VerifyFails(r) \/ Repaired(r)
           \/ Complete(r) \/ Fail(r) \/ Interrupt(r) \/ UserStops(r)
  PROVE  WorkInv'
<1>1. /\ UNCHANGED <<disk, lanes, integration, touched, skewed, drifted, committed>>
      /\ \A q \in Run : at'[q] = at[q] \/ q = r
  BY DEF Start, Rejected, Merged, Verify, VerifyFails, Repaired, Complete, Fail, Interrupt,
         UserStops, DiskUnchanged, Goes, Ends, IInv, TypeInv, TypeOK
<1>2. /\ at'[r] # "idle" \/ at'[r] = at[r]
      /\ at'[r] = "code" => at[r] = "code" \/ at[r] = "idle"
      /\ at'[r] \in Seeded => at[r] \in Seeded
      /\ at'[r] = "write" => at[r] = "write" \/ integration[r].tree \in Good
  BY DEF Start, Rejected, Merged, Verify, VerifyFails, Repaired, Complete, Fail, Interrupt,
         UserStops, Goes, Ends, IInv, TypeInv, TypeOK, Seeded
<1>3. IdleInv' /\ GateInv'
  BY <1>1, <1>2 DEF IInv, WorkInv, IdleInv, GateInv
<1>4. LaneInv'
  BY <1>1, <1>2 DEF IInv, WorkInv, IdleInv, LaneInv
<1>5. DeltaInv' /\ DriftInv'
  BY <1>1, <1>2 DEF IInv, WorkInv, DeltaInv, DriftInv
<1>6. StatusInv'
  <2> USE DEF IInv, WorkInv, StatusInv, TypeInv, TypeOK, Goes, Ends, DiskUnchanged, Seeded
  <2>1. CASE Start(r) \/ Rejected(r) \/ Merged(r) \/ Verify(r) \/ VerifyFails(r) \/ Repaired(r)
    BY <2>1 DEF Start, Rejected, Merged, Verify, VerifyFails, Repaired
  <2>2. CASE Complete(r)
    BY <2>2 DEF Complete
  <2>3. CASE Fail(r)
    BY <2>3 DEF Fail
  <2>4. CASE Interrupt(r)
    BY <2>4 DEF Interrupt
  <2>5. CASE UserStops(r)
    BY <2>5 DEF UserStops
  <2>6. QED
    BY <2>1, <2>2, <2>3, <2>4, <2>5
<1>7. QED
  BY <1>3, <1>4, <1>5, <1>6 DEF WorkInv

\* A step in which only run r's lanes and touched change.
LEMMA LanesKeepWork ==
  ASSUME IInv, NEW r \in Run, NEW l \in Lane, NEW n \in LaneState, n.tree \in Tree,
         at[r] = "code", lanes' = [lanes EXCEPT ![r][l] = n],
         \A q \in Run : touched[q] \subseteq touched'[q],
         \A p \in Path : n.tree[p] # disk[p] => p \in touched'[r] \cup skewed[r],
         UNCHANGED <<at, integration, status, cutShort>>, DiskUnchanged
  PROVE  WorkInv'
<1>1. \A q \in Run, k \in Lane : lanes'[q][k] = IF q = r /\ k = l THEN n ELSE lanes[q][k]
  <2>1. TypeInv
    BY DEF IInv
  <2>2. /\ lanes' \in [Run -> [Lane -> LaneState]]
        /\ \A q \in Run, k \in Lane :
             lanes'[q][k] = IF q = r /\ k = l THEN n ELSE lanes[q][k]
        /\ \A q \in Run, k \in Lane : lanes'[q][k].at # "none" => lanes'[q][k].tree \in Tree
    BY <2>1, OneLane, Zenon
  <2> QED BY <2>2
<1>2. IdleInv'
  BY <1>1 DEF IInv, WorkInv, IdleInv
<1>3. LaneInv'
  BY <1>1 DEF IInv, WorkInv, LaneInv, DiskUnchanged
<1>4. DeltaInv' /\ DriftInv' /\ GateInv' /\ StatusInv'
  BY DEF IInv, WorkInv, DeltaInv, DriftInv, GateInv, StatusInv, DiskUnchanged
<1>5. QED
  BY <1>2, <1>3, <1>4 DEF WorkInv

LEMMA OpenLaneKeepsWork ==
  ASSUME IInv, NEW r \in Run, NEW l \in Lane, OpenLane(r, l)
  PROVE  WorkInv'
<1> DEFINE n == [at |-> "open", base |-> disk, tree |-> disk]
<1>1. n \in LaneState /\ n.tree \in Tree /\ n.tree = disk
  BY DEF LaneState, IInv, TypeInv, TypeOK
<1>2. lanes' = [lanes EXCEPT ![r][l] = n]
  BY DEF OpenLane
<1> HIDE DEF n
<1>3. QED
  BY <1>1, <1>2, LanesKeepWork DEF OpenLane

LEMMA EndLaneKeepsWork ==
  ASSUME IInv, NEW r \in Run, NEW l \in Lane, NEW v \in {"verified", "rejected"},
         EndLane(r, l, v)
  PROVE  WorkInv'
<1> DEFINE n == [lanes[r][l] EXCEPT !.at = v]
<1>1. lanes[r][l] \in LaneState /\ lanes[r][l].tree \in Tree
  BY DEF EndLane, IInv, TypeInv, TypeOK
<1>2. n \in LaneState /\ n.tree = lanes[r][l].tree
  BY <1>1 DEF LaneState
<1>3. \A p \in Path : n.tree[p] # disk[p] => p \in touched[r] \cup skewed[r]
  BY <1>2 DEF EndLane, IInv, WorkInv, LaneInv
<1>4. lanes' = [lanes EXCEPT ![r][l] = n]
  BY DEF EndLane
<1> HIDE DEF n
<1>5. QED
  BY <1>1, <1>2, <1>3, <1>4, LanesKeepWork DEF EndLane

LEMMA LaneEditsKeepsWork ==
  ASSUME IInv, NEW r \in Run, NEW l \in Lane, NEW p \in Path, NEW v \in ByAgent,
         LaneEdits(r, l, p, v)
  PROVE  WorkInv'
<1> DEFINE n == [lanes[r][l] EXCEPT !.tree[p] = v]
<1>1. n \in LaneState /\ n.tree \in Tree /\ n.tree = [lanes[r][l].tree EXCEPT ![p] = v]
  BY EditedTree DEF IInv
<1>2. \A q \in Run : touched'[q] = IF q = r THEN touched[q] \cup {p} ELSE touched[q]
  BY DEF LaneEdits, IInv, TypeInv, TypeOK
<1>3. lanes[r][l].tree \in Tree
  BY DEF LaneEdits, IInv, TypeInv
<1>4. \A o \in Path : n.tree[o] # disk[o] => o \in touched'[r] \cup skewed[r]
  <2>1. touched'[r] = touched[r] \cup {p}
    BY <1>2
  <2>2. \A o \in Path : o # p => n.tree[o] = lanes[r][l].tree[o]
    BY <1>1, <1>3 DEF Tree
  <2>3. \A o \in Path : lanes[r][l].tree[o] # disk[o] => o \in touched[r] \cup skewed[r]
    BY DEF LaneEdits, IInv, WorkInv, LaneInv
  <2> HIDE DEF n
  <2>4. QED
    BY <2>1, <2>2, <2>3
<1>5. lanes' = [lanes EXCEPT ![r][l] = n]
  BY DEF LaneEdits
<1>6. \A q \in Run : touched[q] \subseteq touched'[q]
  BY <1>2
<1>7. at[r] = "code" /\ UNCHANGED <<at, integration, status, cutShort>> /\ DiskUnchanged
  BY DEF LaneEdits
<1>8. n \in LaneState /\ n.tree \in Tree
  BY <1>1
<1> HIDE DEF n
<1>9. QED
  BY <1>4, <1>5, <1>6, <1>7, <1>8, LanesKeepWork

LEMMA IntegrateKeepsWork ==
  ASSUME IInv, NEW r \in Run, NEW w \in LanesOf(r), Integrate(r, w)
  PROVE  WorkInv'
<1>1. /\ at[r] = "code" /\ w \in Viable(r)
      /\ \A q \in Run : at'[q] = IF q = r THEN "merge" ELSE at[q]
      /\ \A q \in Run : integration'[q] = IF q = r THEN [base |-> disk, tree |-> Seed(r, w)]
                                           ELSE integration[q]
      /\ UNCHANGED <<disk, lanes, touched, skewed, drifted, committed, status, cutShort>>
  BY DEF Integrate, LanesOver, Goes, DiskUnchanged, IInv, TypeInv, TypeOK
<1>2. \A p \in Path : Seed(r, w)[p] # disk[p] => p \in touched[r] \cup skewed[r]
  <2> SUFFICES ASSUME NEW p \in Path, Seed(r, w)[p] # disk[p]
               PROVE  p \in touched[r] \cup skewed[r]
    OBVIOUS
  <2>1. PICK l \in Viable(r) : Seed(r, w)[p] = lanes[r][l].tree[p]
    BY <1>1, SeedFromLanes DEF IInv
  <2>2. l \in Lane /\ lanes[r][l].at # "none"
    BY LanesAreLanes DEF Viable, IInv, TypeInv
  <2>3. QED
    BY <1>1, <2>1, <2>2 DEF IInv, WorkInv, LaneInv
<1>3. IdleInv' /\ LaneInv' /\ GateInv'
  BY <1>1 DEF IInv, WorkInv, IdleInv, LaneInv, GateInv
<1>4. DeltaInv' /\ DriftInv'
  BY <1>1, <1>2 DEF IInv, WorkInv, DeltaInv, DriftInv
<1>5. StatusInv'
  BY <1>1 DEF IInv, WorkInv, StatusInv, Seeded
<1>6. QED
  BY <1>3, <1>4, <1>5 DEF WorkInv

LEMMA IntegrationEditsKeepsWork ==
  ASSUME IInv, NEW r \in Run, NEW p \in Path, NEW v \in ByAgent, IntegrationEdits(r, p, v)
  PROVE  WorkInv'
<1>1. /\ at[r] \in {"merge", "repair"} /\ integration[r] \in Workspace
      /\ \A q \in Run : q # r => integration'[q] = integration[q]
      /\ integration'[r].base = integration[r].base
      /\ \A o \in Path : o # p => integration'[r].tree[o] = integration[r].tree[o]
      /\ \A q \in Run : touched'[q] = IF q = r THEN touched[q] \cup {p} ELSE touched[q]
      /\ UNCHANGED <<at, disk, lanes, skewed, drifted, committed, status, cutShort>>
  BY DEF IntegrationEdits, DiskUnchanged, IInv, TypeInv, TypeOK, Seeded, Workspace, Tree
<1>2. IdleInv' /\ LaneInv' /\ StatusInv' /\ GateInv'
  BY <1>1 DEF IInv, WorkInv, IdleInv, LaneInv, StatusInv, GateInv
<1>3. DriftInv'
  BY <1>1 DEF IInv, WorkInv, DriftInv
<1>4. DeltaInv'
  <2>1. SUFFICES ASSUME NEW q \in Run, NEW o \in Path, at'[q] \in Seeded,
                        integration'[q].tree[o] # integration'[q].base[o]
                 PROVE  o \in touched'[q] \cup skewed'[q]
    BY DEF DeltaInv
  <2>2. at[q] \in Seeded /\ (integration[q].tree[o] # integration[q].base[o]
                              => o \in touched[q] \cup skewed[q])
    BY <1>1, <2>1 DEF IInv, WorkInv, DeltaInv
  <2>3. CASE q = r /\ o = p
    BY <1>1, <2>3
  <2>4. CASE q = r /\ o # p
    BY <1>1, <2>1, <2>2, <2>4
  <2>5. CASE q # r
    <3>1. integration'[q] = integration[q] /\ touched'[q] = touched[q] /\ skewed'[q] = skewed[q]
      BY <1>1, <2>5
    <3> QED BY <2>1, <2>2, <3>1
  <2> QED BY <2>3, <2>4, <2>5
<1>5. QED
  BY <1>2, <1>3, <1>4 DEF WorkInv

LEMMA CommitKeepsWork ==
  ASSUME IInv, NEW r \in Run, Commit(r)
  PROVE  WorkInv'
<1>1. /\ at[r] = "write" /\ Changes(Delta(integration[r]), Run \ {r})
      /\ \A q \in Run : at'[q] = IF q = r THEN "persisted" ELSE at[q]
      /\ \A p \in Path \ Delta(integration[r]) : disk'[p] = disk[p]
      /\ committed' = committed \cup {r}
      /\ UNCHANGED <<lanes, integration, touched, status, cutShort>>
  BY DEF Commit, Goes, IInv, TypeInv, TypeOK
<1>2. Delta(integration[r]) \in SUBSET Path /\ TypeInv'
  BY CommitKeepsType DEF Delta, IInv
<1>3. IdleInv' /\ LaneInv' /\ DeltaInv' /\ DriftInv' /\ GateInv'
  <2>1. \A q \in Run : at'[q] = at[q]
          \/ (q \notin Run \ {r} /\ at[q] # "idle" /\ at'[q] = "persisted")
    BY <1>1
  <2>2. Run \ (Run \ {r}) \subseteq {q \in Run : at[q] = "write" /\ at'[q] = "persisted"}
    BY <1>1
  <2>3. QED
    BY <1>1, <1>2, <2>1, <2>2, ChangesKeepWork
<1>4. StatusInv'
  BY <1>1 DEF IInv, WorkInv, StatusInv, Seeded
<1>5. QED
  BY <1>3, <1>4 DEF WorkInv

LEMMA TerminateKeepsWork ==
  ASSUME IInv, NEW r \in Run, Terminate(r)
  PROVE  WorkInv'
<1>1. /\ at[r] = "done"
      /\ \A q \in Run : at'[q] = IF q = r THEN "over" ELSE at[q]
      /\ \A q \in Run : q # r => lanes'[q] = lanes[q] /\ integration'[q] = integration[q]
                                 /\ status'[q] = status[q]
      /\ status'[r] = status[r] \/ (status[r] # "completed" /\ status'[r] = "cancelled")
      /\ UNCHANGED <<disk, touched, skewed, drifted, committed, cutShort>>
  BY DEF Terminate, Goes, DiskUnchanged, IInv, TypeInv, TypeOK
<1>2. IdleInv' /\ LaneInv' /\ GateInv'
  BY <1>1 DEF IInv, WorkInv, IdleInv, LaneInv, GateInv
<1>3. DeltaInv' /\ DriftInv'
  BY <1>1 DEF IInv, WorkInv, DeltaInv, DriftInv, Seeded
<1>4. StatusInv'
  BY <1>1 DEF IInv, WorkInv, StatusInv, Seeded
<1>5. QED
  BY <1>2, <1>3, <1>4 DEF WorkInv

LEMMA UserEditsKeepsWork ==
  ASSUME IInv, NEW p \in Path, NEW v \in ByUser, UserEdits(p, v)
  PROVE  WorkInv'
<1>1. /\ Changes({p}, Run) /\ \A o \in Path \ {p} : disk'[o] = disk[o]
      /\ UNCHANGED <<at, lanes, integration, status, touched, committed, cutShort>>
  BY DEF UserEdits, runVars, IInv, TypeInv, TypeOK, Tree
<1>2. TypeInv'
  BY UserEditsKeepsType DEF IInv
<1>3. IdleInv' /\ LaneInv' /\ DeltaInv' /\ DriftInv' /\ GateInv'
  BY <1>1, <1>2, ChangesKeepWork
<1>4. StatusInv'
  BY <1>1 DEF IInv, WorkInv, StatusInv
<1>5. QED
  BY <1>3, <1>4 DEF WorkInv

LEMMA InitWork == Init => WorkInv
BY DEF Init, NoLane, Seeded, WorkInv, IdleInv, LaneInv, DeltaInv, DriftInv, GateInv, StatusInv

LEMMA NextKeepsWork == IInv /\ [Next]_vars => WorkInv'
<1> SUFFICES ASSUME IInv, [Next]_vars PROVE WorkInv'
  OBVIOUS
<1>1. ASSUME NEW r \in Run, Step(r)
      PROVE  WorkInv'
  BY <1>1, MovingKeepsWork, IntegrateKeepsWork, CommitKeepsWork, TerminateKeepsWork DEF Step
<1>2. ASSUME NEW r \in Run, LaneStep(r)
      PROVE  WorkInv'
  BY <1>2, LanesAreLanes, OpenLaneKeepsWork, EndLaneKeepsWork DEF LaneStep, IInv, TypeInv
<1>3. ASSUME NEW r \in Run, Edits(r)
      PROVE  WorkInv'
  BY <1>3, LanesAreLanes, LaneEditsKeepsWork, IntegrationEditsKeepsWork DEF Edits, IInv, TypeInv
<1>4. ASSUME NEW r \in Run, Interrupt(r) \/ UserStops(r)
      PROVE  WorkInv'
  BY <1>4, MovingKeepsWork
<1>5. CASE UNCHANGED vars
  BY <1>5 DEF vars, runVars, history, IInv, WorkInv, IdleInv, LaneInv, DeltaInv, DriftInv,
              GateInv, StatusInv
<1>6. QED
  BY <1>1, <1>2, <1>3, <1>4, <1>5, UserEditsKeepsWork DEF Next

LEMMA Inductive == Spec => []IInv
<1>1. Init => IInv
  BY InitTyped, InitWork DEF IInv
<1>2. IInv /\ [Next]_vars => IInv'
  BY NextKeepsType, NextKeepsWork DEF IInv
<1>3. QED
  BY <1>1, <1>2, PTL DEF Spec

--------------------------------------------------------------------------------
(* Theorems.                                                                  *)

\* Type correctness of team runs.
THEOREM TypeCorrect == Spec => []TypeOK
<1>1. IInv => TypeOK
  BY DEF IInv, TypeInv
<1>2. QED
  BY <1>1, Inductive, PTL

LEMMA OnlyCommitCommits ==
  ASSUME IInv, Next, NEW r \in Run, r \in committed' \ committed
  PROVE  Commit(r)
<1>1. ASSUME NEW q \in Run, Step(q), ~Commit(q)
      PROVE  committed' = committed
  BY <1>1 DEF Step, Start, Rejected, Integrate, Merged, Verify, VerifyFails, Repaired, Complete,
              Fail, Terminate, DiskUnchanged
<1>2. ASSUME NEW q \in Run, LaneStep(q) \/ Edits(q) \/ Interrupt(q) \/ UserStops(q)
      PROVE  committed' = committed
  BY <1>2 DEF LaneStep, Edits, OpenLane, EndLane, LaneEdits, IntegrationEdits, Interrupt,
              UserStops, DiskUnchanged
<1>3. ASSUME NEW p \in Path, NEW v \in ByUser, UserEdits(p, v)
      PROVE  committed' = committed
  BY <1>3 DEF UserEdits
<1>4. ASSUME NEW q \in Run, Commit(q)
      PROVE  committed' = committed \cup {q}
  BY <1>4 DEF Commit
<1>5. QED
  BY <1>1, <1>2, <1>3, <1>4 DEF Next

\* A commit changes what the run's agents wrote, or what changed between the copies
\* of the lanes and of the integration workspace: finalize() applies the delta of a
\* workspace that every other difference has been kept out of.
THEOREM OwnWork == Spec => CommitsOwnWork
<1>1. ASSUME IInv, Next
      PROVE  \A r \in Run, p \in Path :
               r \in committed' \ committed /\ disk'[p] # disk[p]
                 => p \in touched[r] \cup skewed[r]
  <2> SUFFICES ASSUME NEW r \in Run, NEW p \in Path,
                      r \in committed' \ committed, disk'[p] # disk[p]
               PROVE  p \in touched[r] \cup skewed[r]
    OBVIOUS
  <2>1. Commit(r)
    BY <1>1, OnlyCommitCommits
  <2>2. at[r] = "write" /\ p \in Delta(integration[r])
    BY <2>1 DEF Commit
  <2>3. QED
    BY <1>1, <2>2 DEF IInv, WorkInv, DeltaInv, Delta, Seeded
<1>2. QED
  BY <1>1, Inductive, PTL DEF Spec, CommitsOwnWork

\* Unless the directory changed after it was copied, the commit leaves on it the
\* very tree the verification accepted.
THEOREM VerifiedWork == Spec => VerifiedOnDisk
<1>1. ASSUME IInv, Next
      PROVE  \A r \in Run :
               r \in committed' \ committed /\ drifted[r] = {} => disk' \in Good
  <2> SUFFICES ASSUME NEW r \in Run, r \in committed' \ committed, drifted[r] = {}
               PROVE  disk' \in Good
    OBVIOUS
  <2>1. Commit(r)
    BY <1>1, OnlyCommitCommits
  <2>2. at[r] = "write" /\ integration[r] \in Workspace
    BY <1>1, <2>1 DEF Commit, IInv, TypeInv, Seeded
  <2>3. \A p \in Path : disk[p] = integration[r].base[p]
    BY <1>1, <2>2 DEF IInv, WorkInv, DriftInv, Seeded
  <2>4. \A p \in Path : disk'[p] = integration[r].tree[p]
    BY <2>1, <2>3 DEF Commit, Delta
  <2>5. disk' = integration[r].tree
    BY <2>1, <2>2, <2>4 DEF Commit, Workspace, Tree
  <2>6. QED
    BY <1>1, <2>2, <2>5 DEF IInv, WorkInv, GateInv
<1>2. QED
  BY <1>1, Inductive, PTL DEF Spec, VerifiedOnDisk

\* The terminal event of a run that was not cut short after its commit says
\* "completed" exactly when the run changed the directory, stopped or not.
THEOREM TrueStatus == Spec => []StatusTellsTheDisk
<1>1. IInv => StatusTellsTheDisk
  BY DEF IInv, WorkInv, StatusInv, StatusTellsTheDisk
<1>2. QED
  BY <1>1, Inductive, PTL

\* The stop is requested and the run has not come past its merge.
Off(r) == stop[r] /\ at[r] \in {"code", "merge", "done", "over"} /\ r \notin committed

LEMMA StoppedRunIsIdle ==
  ASSUME IInv, NEW r \in Run, Off(r), [Next]_vars
  PROVE  Off(r)'
<1> USE DEF Off, IInv, TypeInv, TypeOK, Goes, Ends, Stages, DiskUnchanged
<1>1. ASSUME NEW q \in Run, Start(q) \/ Rejected(q) \/ Merged(q) \/ Verify(q) \/ VerifyFails(q)
                              \/ Repaired(q)
      PROVE  Off(r)'
  BY <1>1 DEF Start, Rejected, Merged, Verify, VerifyFails, Repaired
<1>2. ASSUME NEW q \in Run, Commit(q) \/ Complete(q) \/ Fail(q) \/ Terminate(q)
      PROVE  Off(r)'
  BY <1>2 DEF Commit, Complete, Fail, Terminate
<1>3. ASSUME NEW q \in Run, NEW w \in LanesOf(q), Integrate(q, w)
      PROVE  Off(r)'
  BY <1>3 DEF Integrate
<1>4. ASSUME NEW q \in Run, LaneStep(q) \/ Edits(q) \/ Interrupt(q) \/ UserStops(q)
      PROVE  Off(r)'
  BY <1>4 DEF LaneStep, Edits, OpenLane, EndLane, LaneEdits, IntegrationEdits, Interrupt, UserStops
<1>5. ASSUME NEW p \in Path, NEW v \in ByUser, UserEdits(p, v)
      PROVE  Off(r)'
  BY <1>5 DEF UserEdits, runVars
<1>6. CASE UNCHANGED vars
  BY <1>6 DEF vars, runVars, history
<1>7. QED
  BY <1>1, <1>2, <1>3, <1>4, <1>5, <1>6 DEF Next, Step

\* A run that is stopped before its merge is complete has not committed and never
\* will: the agent that sees the stop does not complete its stage.
THEOREM StaysOff == Spec => StoppedRunsStayOff
<1> SUFFICES ASSUME NEW r \in Run
             PROVE  Spec => [](stop[r] /\ at[r] \in {"code", "merge"} => [](r \notin committed))
  BY DEF StoppedRunsStayOff
<1>1. IInv /\ stop[r] /\ at[r] \in {"code", "merge"} => Off(r)
  BY DEF IInv, WorkInv, StatusInv, Off, Seeded
<1>2. IInv /\ Off(r) /\ [Next]_vars => Off(r)'
  BY StoppedRunIsIdle
<1>3. Off(r) => r \notin committed
  BY DEF Off
<1>4. QED
  BY <1>1, <1>2, <1>3, Inductive, PTL DEF Spec

================================================================================
