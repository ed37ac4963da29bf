--------------------------- MODULE TeamCodingProofs ---------------------------
(***************************************************************************)
(* The stages of a team for any number of lanes, workers, providers,       *)
(* slots, rounds and resumes: the stages before CODE hand over what was    *)
(* found, and not what was not; in CODE a lane leaves neither a slot nor a *)
(* workspace behind, and a workspace offered to the merge passes           *)
(* verification as it is.                                                  *)
(***************************************************************************)
EXTENDS TeamCoding, TeamStages, FiniteSetTheorems, TLAPS

--------------------------------------------------------------------------------
(* The CODE stage.  The inductive invariant adds to the two properties where  *)
(* a lane with a workspace may be (Closed), that the main thread goes on from *)
(* collecting only when every thread is done (Collected), and what the        *)
(* verdict of a lane that has returned says of its work (Verdicts).           *)

Places == {"queued"} \cup Threaded \cup Finished
Held == {"running", "ended", "backoff"}
LaneRecord == [at : Places, phase : {"implementer", "finisher"}, work : Work, eval : Verdict,
               run : Outcome \cup {"none"}, resumes : 0..MaxResumes, quiet : BOOLEAN]
Holding(p) == {l \in Lane : providerOf[l] = p /\ lane[l].at \in Held}

\* A verdict "passed" speaks of the work the lane returned.
Told(r) ==
  r.eval = "passed" /\ r.work # "none"
    /\ (r.run = "completed" \/ (r.run \in {"paused", "provider"} /\ ~Stopped))
  => r.work = "passing"

Closed ==
  \A l \in Lane : l \in open => lane[l].at \in Held \cup {"returned"}
Collected ==
  /\ \A l \in consumed : lane[l].at \in Finished
  /\ \A l \in candidates : lane[l].at = "returned"
  /\ main \in {"selected", "failed"} => consumed = Lane
  /\ main = "over" => open = {} /\ \A l \in Lane : lane[l].at \in Finished
Verdicts ==
  \A l \in Lane : /\ lane[l].at = "returned" => Told(lane[l])
                  /\ lane[l].at = "backoff" => lane[l].work = "none"

IInv == TypeOK /\ SlotsBalanced /\ Closed /\ Collected /\ Verdicts

--------------------------------------------------------------------------------
(* Slots.                                                                     *)

LEMMA LanesFinite == \A p : IsFiniteSet(Holding(p))
<1>1. IsFiniteSet(Lane)
  BY CodingAssumption, FS_Interval DEF Lane
<1> QED BY <1>1, FS_Subset DEF Holding

LEMMA SlotsAsHeld ==
  SlotsBalanced <=> \A p \in Provider : slots[p] + Cardinality(Holding(p)) = Limit
BY DEF SlotsBalanced, Holding, Held

LEMMA SlotsAsHeldNext ==
  SlotsBalanced' <=> \A p \in Provider : slots'[p] + Cardinality(Holding(p)') = Limit
BY DEF SlotsBalanced, Holding, Held

LEMMA SlotsStay ==
  ASSUME SlotsBalanced, slots \in [Provider -> 0..Limit],
         slots' = slots, providerOf' = providerOf,
         \A l \in Lane : lane'[l].at \in Held <=> lane[l].at \in Held
  PROVE SlotsBalanced' /\ slots' \in [Provider -> 0..Limit]
<1>1. \A p : Holding(p)' = Holding(p)
  BY DEF Holding
<1> QED BY <1>1, SlotsAsHeld, SlotsAsHeldNext

LEMMA SlotTaken ==
  ASSUME SlotsBalanced, slots \in [Provider -> 0..Limit], providerOf \in Assignments,
         NEW l \in Lane, NEW q \in Provider, q = providerOf[l],
         lane[l].at \notin Held, lane'[l].at \in Held,
         \A k \in Lane \ {l} : lane'[k] = lane[k],
         providerOf' = providerOf, slots[providerOf[l]] > 0,
         slots' = [slots EXCEPT ![providerOf[l]] = @ - 1]
  PROVE SlotsBalanced' /\ slots' \in [Provider -> 0..Limit]
<1>0. Limit \in Nat /\ slots[q] \in 0..Limit
  BY CodingAssumption
<1>1. Holding(q)' = Holding(q) \cup {l} /\ l \notin Holding(q)
  BY DEF Holding
<1>2. \A p : p # q => Holding(p)' = Holding(p)
  BY DEF Holding
<1>3. Cardinality(Holding(q)') = Cardinality(Holding(q)) + 1
  BY <1>1, LanesFinite, FS_AddElement
<1>4. \A p : Cardinality(Holding(p)) \in Nat
  BY LanesFinite, FS_CardinalityType
<1>5. \A p \in Provider : slots'[p] = IF p = q THEN slots[p] - 1 ELSE slots[p]
  BY <1>0
<1>6. slots' \in [Provider -> 0..Limit]
  BY <1>0
<1>7. \A p \in Provider : slots[p] + Cardinality(Holding(p)) = Limit
  BY SlotsAsHeld
<1>8. ASSUME NEW p \in Provider PROVE slots'[p] + Cardinality(Holding(p)') = Limit
  <2>1. CASE p = q
    BY <2>1, <1>0, <1>3, <1>4, <1>5, <1>7
  <2>2. CASE p # q
    BY <2>2, <1>2, <1>5, <1>7
  <2> QED BY <2>1, <2>2
<1> QED BY <1>6, <1>8, SlotsAsHeldNext

LEMMA SlotGivenBack ==
  ASSUME SlotsBalanced, slots \in [Provider -> 0..Limit], providerOf \in Assignments,
         NEW l \in Lane, NEW q \in Provider, q = providerOf[l],
         lane[l].at \in Held, lane'[l].at \notin Held,
         \A k \in Lane \ {l} : lane'[k] = lane[k],
         providerOf' = providerOf, Release(l)
  PROVE SlotsBalanced' /\ slots' \in [Provider -> 0..Limit]
<1>0. Limit \in Nat /\ slots[q] \in 0..Limit
  BY CodingAssumption
<1>1. Holding(q)' = Holding(q) \ {l} /\ l \in Holding(q)
  BY DEF Holding
<1>2. \A p : p # q => Holding(p)' = Holding(p)
  BY DEF Holding
<1>3. IsFiniteSet(Holding(q))
  BY LanesFinite
<1>4. /\ IsFiniteSet(Holding(q) \ {l})
      /\ Cardinality(Holding(q) \ {l}) = Cardinality(Holding(q)) - 1
  <2> HIDE DEF Holding
  <2> QED BY <1>1, <1>3, FS_RemoveElement, Zenon
<1>5. Cardinality(Holding(q)') = Cardinality(Holding(q)) - 1
  BY <1>1, <1>4
<1>6. \A p : Cardinality(Holding(p)) \in Nat /\ Cardinality(Holding(p)') \in Nat
  <2>1. IsFiniteSet(Holding(q)')
    BY <1>1, <1>4
  <2> QED BY <1>2, <2>1, LanesFinite, FS_CardinalityType
<1>7. \A p \in Provider : slots'[p] = IF p = q THEN slots[p] + 1 ELSE slots[p]
  BY <1>0 DEF Release
<1>8. \A p \in Provider : slots[p] + Cardinality(Holding(p)) = Limit
  BY SlotsAsHeld
<1>9. ASSUME NEW p \in Provider
      PROVE slots'[p] + Cardinality(Holding(p)') = Limit /\ slots'[p] \in 0..Limit
  <2>1. CASE p = q
    BY <2>1, <1>0, <1>5, <1>6, <1>7, <1>8
  <2>2. CASE p # q
    BY <2>2, <1>2, <1>7, <1>8
  <2> QED BY <2>1, <2>2
<1>10. slots' \in [Provider -> 0..Limit]
  <2>1. slots' = [p \in Provider |-> slots'[p]]
    BY DEF Release
  <2> QED BY <2>1, <1>9
<1> QED BY <1>9, <1>10, SlotsAsHeldNext

--------------------------------------------------------------------------------
(* What every step of a thread has in common.                                 *)

LEMMA StoppedStays == MainUnchanged => (Stopped' <=> Stopped)
BY DEF MainUnchanged, Stopped, plan

LEMMA WorkerKeeps ==
  ASSUME IInv, NEW l \in Lane, lane[l].at \notin Finished, MainUnchanged,
         lane' \in [Lane -> LaneRecord], \A k \in Lane \ {l} : lane'[k] = lane[k],
         SlotsBalanced', slots' \in [Provider -> 0..Limit],
         open' \subseteq open \cup {l},
         l \in open' => lane'[l].at \in Held \cup {"returned"},
         lane'[l].at = "returned" => Told(lane'[l]),
         lane'[l].at = "backoff" => lane'[l].work = "none"
  PROVE IInv'
<1>0. l \notin consumed /\ main \notin {"selected", "failed", "over"} /\ l \notin candidates
  BY DEF IInv, TypeOK, Collected
<1>1. TypeOK'
  <2>1. open' \subseteq Lane
    BY DEF IInv, TypeOK
  <2>2. UNCHANGED <<adaptive, providerOf, main, consumed, candidates, quorumStop, userStop, base>>
    BY DEF MainUnchanged, plan
  <2> QED BY <2>1, <2>2 DEF IInv, TypeOK, LaneRecord, Places
<1>2. Closed'
  BY DEF IInv, Closed
<1>3. Collected'
  BY <1>0 DEF IInv, TypeOK, Collected, MainUnchanged
<1>4. Verdicts'
  <2>1. \A k \in Lane \ {l} : lane[k].at = "returned" => Told(lane[k])'
    BY StoppedStays DEF IInv, Verdicts, Told
  <2>2. lane'[l].at = "returned" => Told(lane[l])'
    BY StoppedStays DEF Told
  <2> QED BY <2>1, <2>2 DEF IInv, Verdicts
<1> QED BY <1>1, <1>2, <1>3, <1>4 DEF IInv

\* A lane that keeps what it holds: neither a slot nor a workspace changes hands.
LEMMA HolderKeeps ==
  ASSUME IInv, NEW l \in Lane, MainUnchanged, UNCHANGED <<slots, open>>,
         lane' \in [Lane -> LaneRecord], \A k \in Lane \ {l} : lane'[k] = lane[k],
         \/ lane[l].at \in Held /\ lane'[l].at \in Held
         \/ lane[l].at \in {"queued", "waiting"} /\ lane'[l].at \in {"waiting", "raised"},
         lane'[l].at = "backoff" => lane'[l].work = "none"
  PROVE IInv'
<1>1. lane[l].at \notin Finished /\ lane'[l].at # "returned"
  BY DEF Held, Finished
<1>2. \A k \in Lane : lane'[k].at \in Held <=> lane[k].at \in Held
  BY DEF Held
<1>3. SlotsBalanced' /\ slots' \in [Provider -> 0..Limit]
  BY <1>2, SlotsStay DEF IInv, TypeOK, MainUnchanged, plan
<1>4. l \in open' => lane'[l].at \in Held \cup {"returned"}
  BY DEF IInv, Closed, Held
<1> QED BY <1>1, <1>3, <1>4, WorkerKeeps

\* A lane that gives its slot back.
LEMMA LeaverKeeps ==
  ASSUME IInv, NEW l \in Lane, MainUnchanged, Release(l), lane[l].at \in Held,
         lane' \in [Lane -> LaneRecord], \A k \in Lane \ {l} : lane'[k] = lane[k],
         open' \subseteq open, l \in open' => lane'[l].at = "returned",
         lane'[l].at \in {"returned", "raised"},
         lane'[l].at = "returned" => Told(lane'[l])
  PROVE IInv'
<1>1. lane[l].at \notin Finished /\ lane'[l].at \notin Held
  BY DEF Held, Finished
<1>2. PICK q \in Provider : q = providerOf[l]
  BY CodingAssumption DEF IInv, TypeOK
<1>3. SlotsBalanced' /\ slots' \in [Provider -> 0..Limit]
  BY <1>1, <1>2, SlotGivenBack DEF IInv, TypeOK, MainUnchanged, plan
<1> QED BY <1>1, <1>3, WorkerKeeps

LEMMA FreshTyped == Fresh \in LaneRecord
<1>1. "queued" \in Places /\ 0 \in 0..MaxResumes /\ "none" \in Work /\ "none" \in Verdict
  BY CodingAssumption DEF Places, Work, Verdict
<1> QED BY <1>1 DEF Fresh, LaneRecord

LEMMA ReturnKeeps ==
  ASSUME IInv, NEW l \in Lane, lane[l].at \in Held,
         NEW run \in Outcome \cup {"none"}, NEW verdict \in Verdict, Return(l, run, verdict),
         \/ lane[l].work = "none"
         \/ verdict = "passed" => lane[l].work = "passing"
         \/ run \notin {"completed", "paused", "provider"}
         \/ run # "completed" /\ Stopped
  PROVE IInv'
<1> DEFINE r == [Fresh EXCEPT !.at = "returned", !.run = run, !.work = lane[l].work, !.eval = verdict]
<1>0. lane \in [Lane -> LaneRecord] /\ lane[l] \in LaneRecord /\ lane[l].work \in Work
  BY DEF IInv, TypeOK, LaneRecord, Places
<1>1. r.at = "returned" /\ r.run = run /\ r.work = lane[l].work /\ r.eval = verdict
  BY DEF Fresh
<1>2. r \in LaneRecord
  <2>1. "returned" \in Places
    BY DEF Places, Finished
  <2> QED BY <1>0, <2>1, FreshTyped DEF LaneRecord
<1>3. lane' = [lane EXCEPT ![l] = r] /\ Release(l) /\ UNCHANGED open /\ MainUnchanged
  BY DEF Return
<1>4. lane'[l] = r /\ lane' \in [Lane -> LaneRecord] /\ \A k \in Lane \ {l} : lane'[k] = lane[k]
  BY <1>0, <1>2, <1>3
<1>5. Told(lane'[l])
  BY <1>1, <1>4 DEF Told
<1> HIDE DEF r
<1> QED BY <1>1, <1>3, <1>4, <1>5, LeaverKeeps

--------------------------------------------------------------------------------
(* The worker threads.                                                        *)

LEMMA LaneTyped ==
  ASSUME IInv
  PROVE /\ lane \in [Lane -> LaneRecord]
        /\ \A l \in Lane :
             /\ lane[l].at \in Places /\ lane[l].work \in Work /\ lane[l].eval \in Verdict
             /\ lane[l].phase \in {"implementer", "finisher"} /\ lane[l].quiet \in BOOLEAN
             /\ lane[l].run \in Outcome \cup {"none"} /\ lane[l].resumes \in 0..MaxResumes
BY DEF IInv, TypeOK, LaneRecord, Places

LEMMA EndingTyped ==
  ASSUME IInv, NEW l \in Lane
  PROVE Ending(l) \in Outcome \cup {"none"}
BY LaneTyped DEF Ending, Outcome

LEMMA TakeKeeps == ASSUME IInv, NEW l \in Lane, Take(l) PROVE IInv'
<1>1. lane' \in [Lane -> LaneRecord] /\ lane'[l].at = "waiting"
      /\ \A k \in Lane \ {l} : lane'[k] = lane[k]
  BY LaneTyped DEF Take, LaneRecord, Places, Threaded
<1> QED BY <1>1, HolderKeeps DEF Take, At

LEMMA EnterKeeps == ASSUME IInv, NEW l \in Lane, Enter(l) PROVE IInv'
<1>1. lane' \in [Lane -> LaneRecord] /\ lane'[l].at = "running"
      /\ \A k \in Lane \ {l} : lane'[k] = lane[k]
  BY LaneTyped DEF Enter, LaneRecord, Places, Threaded
<1>2. lane[l].at \notin Finished /\ lane[l].at \notin Held /\ lane'[l].at \in Held
  BY <1>1 DEF Enter, At, Finished, Held
<1>3. PICK q \in Provider : q = providerOf[l]
  BY CodingAssumption DEF IInv, TypeOK
<1>4. SlotsBalanced' /\ slots' \in [Provider -> 0..Limit]
  BY <1>1, <1>2, <1>3, SlotTaken DEF IInv, TypeOK, Enter, MainUnchanged, plan
<1> QED BY <1>1, <1>2, <1>4, WorkerKeeps DEF Enter

LEMMA EnterFailsKeeps == ASSUME IInv, NEW l \in Lane, EnterFails(l) PROVE IInv'
<1>1. lane' \in [Lane -> LaneRecord] /\ lane'[l].at = "raised"
      /\ \A k \in Lane \ {l} : lane'[k] = lane[k]
  BY LaneTyped DEF EnterFails, LaneRecord, Places, Finished
<1> QED BY <1>1, HolderKeeps DEF EnterFails, At

LEMMA EditKeeps == ASSUME IInv, NEW l \in Lane, NEW w \in Work, Edit(l, w) PROVE IInv'
<1>1. lane' \in [Lane -> LaneRecord] /\ lane'[l].at = "running"
      /\ \A k \in Lane \ {l} : lane'[k] = lane[k]
  BY LaneTyped DEF Edit, At, LaneRecord
<1> QED BY <1>1, HolderKeeps DEF Edit, At, Held

LEMMA GoesQuietKeeps == ASSUME IInv, NEW l \in Lane, GoesQuiet(l) PROVE IInv'
<1> DEFINE r == [lane[l] EXCEPT !.quiet = TRUE]
<1>1. lane' \in [Lane -> LaneRecord] /\ lane'[l].at = "running"
      /\ \A k \in Lane \ {l} : lane'[k] = lane[k]
  <2>1. lane' = [lane EXCEPT ![l] = r]
    BY LaneTyped DEF GoesQuiet
  <2>2. r \in LaneRecord /\ r.at = "running"
    BY LaneTyped DEF GoesQuiet, At, LaneRecord
  <2> HIDE DEF r
  <2> QED BY <2>1, <2>2, LaneTyped
<1> QED BY <1>1, HolderKeeps DEF GoesQuiet, At, Held

LEMMA EndRunKeeps ==
  ASSUME IInv, NEW l \in Lane, NEW outcome \in Outcome, EndRun(l, outcome) PROVE IInv'
<1> DEFINE r == [lane[l] EXCEPT !.at = "ended", !.run = outcome]
<1>1. lane' \in [Lane -> LaneRecord] /\ lane'[l].at = "ended"
      /\ \A k \in Lane \ {l} : lane'[k] = lane[k]
  <2>1. lane' = [lane EXCEPT ![l] = r]
    BY LaneTyped DEF EndRun
  <2>2. r \in LaneRecord /\ r.at = "ended"
    BY LaneTyped DEF LaneRecord, Places, Threaded
  <2> HIDE DEF r
  <2> QED BY <2>1, <2>2, LaneTyped
<1> QED BY <1>1, HolderKeeps DEF EndRun, At, Held

LEMMA CrashKeeps == ASSUME IInv, NEW l \in Lane, Crash(l) PROVE IInv'
<1> DEFINE r == [Fresh EXCEPT !.at = "raised"]
<1>1. r \in LaneRecord /\ r.at = "raised"
  <2>1. "raised" \in Places
    BY DEF Places, Finished
  <2> QED BY <2>1, FreshTyped DEF LaneRecord
<1>2. lane' = [lane EXCEPT ![l] = r]
  BY DEF Crash
<1> HIDE DEF r
<1>3. lane' \in [Lane -> LaneRecord] /\ lane'[l].at = "raised"
      /\ \A k \in Lane \ {l} : lane'[k] = lane[k]
  BY <1>1, <1>2, LaneTyped
<1> QED BY <1>3, LeaverKeeps DEF Crash, At, Held

LEMMA GiveUpKeeps == ASSUME IInv, NEW l \in Lane, GiveUp(l) PROVE IInv'
<1>1. Ending(l) \notin {"completed", "paused", "provider"} \/ (Ending(l) # "completed" /\ Stopped)
  BY DEF GiveUp, Resumable
<1> QED BY <1>1, LaneTyped, EndingTyped, ReturnKeeps DEF GiveUp, At, Held

LEMMA HandOverKeeps == ASSUME IInv, NEW l \in Lane, HandOver(l) PROVE IInv'
<1>0. Evaluated(lane[l].work) \in Verdict
  BY DEF Evaluated, Verdict
<1>1. lane' \in [Lane -> LaneRecord] /\ lane'[l].at = "running"
      /\ \A k \in Lane \ {l} : lane'[k] = lane[k]
  BY <1>0, LaneTyped, CodingAssumption DEF HandOver, LaneRecord, Places, Threaded
<1> QED BY <1>1, HolderKeeps DEF HandOver, GoesOn, At, Held

LEMMA FinishKeeps == ASSUME IInv, NEW l \in Lane, Finish(l) PROVE IInv'
<1>1. Evaluated(lane[l].work) \in Verdict
      /\ (Evaluated(lane[l].work) = "passed" => lane[l].work = "passing")
  BY DEF Evaluated, Verdict
<1> QED BY <1>1, EndingTyped, ReturnKeeps DEF Finish, GoesOn, At, Held

LEMMA BackOffKeeps == ASSUME IInv, NEW l \in Lane, BackOff(l) PROVE IInv'
<1> DEFINE r == [lane[l] EXCEPT !.at = "backoff", !.run = Ending(l)]
<1>1. lane' \in [Lane -> LaneRecord] /\ lane'[l].at = "backoff" /\ lane'[l].work = "none"
      /\ \A k \in Lane \ {l} : lane'[k] = lane[k]
  <2>1. lane' = [lane EXCEPT ![l] = r] /\ lane[l].work = "none"
    BY LaneTyped DEF BackOff, Nothing
  <2>2. r \in LaneRecord /\ r.at = "backoff" /\ r.work = lane[l].work
    BY LaneTyped, EndingTyped DEF LaneRecord, Places, Threaded
  <2> HIDE DEF r
  <2> QED BY <2>1, <2>2, LaneTyped
<1> QED BY <1>1, HolderKeeps DEF BackOff, Nothing, GoesOn, At, Held

LEMMA ExhaustedKeeps == ASSUME IInv, NEW l \in Lane, Exhausted(l) PROVE IInv'
BY LaneTyped, EndingTyped, ReturnKeeps DEF Exhausted, Nothing, GoesOn, At, Held

LEMMA ResumeKeeps == ASSUME IInv, NEW l \in Lane, Resume(l) PROVE IInv'
<1> DEFINE n == IF lane[l].resumes < MaxResumes THEN lane[l].resumes + 1 ELSE lane[l].resumes
           r == [lane[l] EXCEPT !.at = "running", !.run = "none", !.resumes = n]
<1>0. n \in 0..MaxResumes
  BY LaneTyped, CodingAssumption
<1>1. lane' = [lane EXCEPT ![l] = r]
  BY LaneTyped DEF Resume
<1>2. r \in LaneRecord /\ r.at = "running"
  <2> HIDE DEF n
  <2> QED BY <1>0, LaneTyped DEF LaneRecord, Places, Threaded
<1>3. lane' \in [Lane -> LaneRecord] /\ lane'[l].at = "running"
      /\ \A k \in Lane \ {l} : lane'[k] = lane[k]
  <2> HIDE DEF r
  <2> QED BY <1>1, <1>2, LaneTyped
<1> QED BY <1>3, HolderKeeps DEF Resume, At, Held

LEMMA WaitStoppedKeeps == ASSUME IInv, NEW l \in Lane, WaitStopped(l) PROVE IInv'
<1>1. lane[l].work = "none" /\ lane[l].at \in Held
  BY DEF IInv, Verdicts, WaitStopped, At, Held
<1> QED BY <1>1, LaneTyped, ReturnKeeps DEF WaitStopped

--------------------------------------------------------------------------------
(* The main thread.                                                           *)

\* Steps of the main thread that leave the lanes, slots and workspaces alone.
LEMMA MainKeeps ==
  ASSUME IInv, UNCHANGED <<plan, lane, slots, open, candidates, quorumStop, userStop>>,
         Collected', consumed \subseteq consumed', consumed' \subseteq Lane,
         main' \in {"collecting", "interrupted", "selected", "failed", "over"},
         base' \in 0..Lanes
  PROVE IInv'
<1>1. TypeOK'
  BY DEF IInv, TypeOK, plan
<1>2. SlotsBalanced' /\ Closed' /\ Verdicts'
  BY DEF IInv, SlotsBalanced, Closed, Verdicts, Told, Stopped, plan
<1> QED BY <1>1, <1>2 DEF IInv

LEMMA CollectKeeps == ASSUME IInv, NEW l \in Lane, Collect(l) PROVE IInv'
<1> DEFINE verdict == IF lane[l].eval # "none" THEN lane[l].eval
                      ELSE IF lane[l].run = "failed" THEN "failed" ELSE Evaluated(lane[l].work)
           cancels(k) == k # l /\ At(k, "queued") /\ lane'[k] = [lane[k] EXCEPT !.at = "cancelled"]
<1>0. /\ main = "collecting" /\ lane[l].at = "returned" /\ l \notin consumed
      /\ consumed' = consumed \cup {l} /\ candidates' = candidates \cup {l}
      /\ UNCHANGED <<plan, slots, open, main, userStop, base>>
  BY DEF Collect, At
<1>1. verdict \in Verdict
  BY LaneTyped DEF Evaluated, Verdict
<1>2. quorumStop' \in BOOLEAN /\ (quorumStop => quorumStop')
  BY DEF Collect, IInv, TypeOK
<1>3. lane'[l] = [lane[l] EXCEPT !.eval = verdict]
  BY DEF Collect
<1>4. \A k \in Lane \ {l} : lane'[k] = lane[k] \/ cancels(k)
  BY DEF Collect
<1> HIDE DEF verdict
<1>5. lane'[l] \in LaneRecord /\ lane'[l].at = "returned" /\ lane'[l].work = lane[l].work
      /\ lane'[l].run = lane[l].run /\ lane'[l].eval = verdict
  BY <1>0, <1>1, <1>3, LaneTyped DEF LaneRecord
<1>6. \A k \in Lane \ {l} : lane'[k] \in LaneRecord
  <2>1. "cancelled" \in Places
    BY DEF Places, Finished
  <2> SUFFICES ASSUME NEW k \in Lane \ {l} PROVE lane'[k] \in LaneRecord
    OBVIOUS
  <2>2. lane[k] \in LaneRecord
    BY LaneTyped
  <2>3. [lane[k] EXCEPT !.at = "cancelled"] \in LaneRecord
    BY <2>1, <2>2 DEF LaneRecord
  <2> QED BY <1>4, <2>2, <2>3
<1>7. \A k \in Lane \ {l} : lane'[k] = lane[k] \/ (lane[k].at = "queued" /\ lane'[k].at = "cancelled")
  BY <1>4, LaneTyped DEF At, LaneRecord
<1>8. lane' \in [Lane -> LaneRecord]
  <2>1. lane' = [k \in Lane |-> lane'[k]]
    BY DEF Collect
  <2> QED BY <1>5, <1>6, <2>1
<1>9. Stopped => Stopped'
  BY <1>0, <1>2 DEF Stopped, plan
<1>10. SlotsBalanced' /\ slots' \in [Provider -> 0..Limit]
  <2>1. \A k \in Lane : lane'[k].at \in Held <=> lane[k].at \in Held
    BY <1>0, <1>5, <1>7 DEF Held
  <2> QED BY <1>0, <2>1, SlotsStay DEF IInv, TypeOK, plan
<1>11. TypeOK'
  BY <1>0, <1>2, <1>8, <1>10 DEF IInv, TypeOK, LaneRecord, Places, plan
<1>12. Closed'
  BY <1>0, <1>5, <1>7 DEF IInv, Closed, Held
<1>13. Collected'
  BY <1>0, <1>5, <1>7 DEF IInv, TypeOK, Collected, Finished
<1>14. Verdicts'
  <2>1. Told(lane[l])'
    <3>1. CASE lane[l].eval # "none"
      <4>1. Told(lane[l])
        BY <1>0 DEF IInv, Verdicts
      <4> QED BY <3>1, <4>1, <1>5, <1>9 DEF Told, verdict
    <3>2. CASE lane[l].eval = "none"
      BY <3>2, <1>5 DEF Told, verdict, Evaluated
    <3> QED BY <3>1, <3>2
  <2>2. \A k \in Lane \ {l} : lane'[k].at = "returned" => lane'[k] = lane[k] /\ Told(lane[k])'
    BY <1>7, <1>9 DEF IInv, Verdicts, Told
  <2>3. \A k \in Lane : lane'[k].at = "backoff" => lane'[k] = lane[k]
    BY <1>5, <1>7
  <2> QED BY <2>1, <2>2, <2>3 DEF IInv, Verdicts
<1> QED BY <1>10, <1>11, <1>12, <1>13, <1>14 DEF IInv

LEMMA DiscardKeeps == ASSUME IInv, NEW l \in Lane, Discard(l) PROVE IInv'
<1>1. Collected' /\ consumed \subseteq consumed' /\ consumed' \subseteq Lane
      /\ UNCHANGED <<plan, lane, slots, open, main, candidates, quorumStop, userStop, base>>
      /\ main = "collecting"
  BY DEF Discard, IInv, TypeOK, Collected, Finished
<1> QED BY <1>1, MainKeeps DEF IInv, TypeOK

LEMMA SelectKeeps == ASSUME IInv, NEW l \in Lane, Select(l) PROVE IInv'
<1>1. Collected' /\ main' = "selected"
      /\ UNCHANGED <<plan, lane, slots, open, consumed, candidates, quorumStop, userStop>>
  BY DEF Select, IInv, Collected
<1>2. base' \in 0..Lanes
  BY CodingAssumption DEF Select, Lane
<1> QED BY <1>1, <1>2, MainKeeps DEF IInv, TypeOK

LEMMA SelectFailsKeeps == ASSUME IInv, SelectFails PROVE IInv'
<1>1. Collected' /\ main' = "failed"
      /\ UNCHANGED <<plan, lane, slots, open, consumed, candidates, quorumStop, userStop, base>>
  BY DEF SelectFails, IInv, Collected
<1> QED BY <1>1, MainKeeps DEF IInv, TypeOK

LEMMA InterruptKeeps == ASSUME IInv, Interrupt PROVE IInv'
<1>1. Collected' /\ main' = "interrupted"
      /\ UNCHANGED <<plan, lane, slots, open, consumed, candidates, quorumStop, userStop, base>>
  BY DEF Interrupt, IInv, Collected
<1> QED BY <1>1, MainKeeps DEF IInv, TypeOK

LEMMA UserStopsKeeps == ASSUME IInv, UserStops PROVE IInv'
<1>1. UNCHANGED <<plan, lane, slots, open, main, consumed, candidates, quorumStop, base>>
      /\ userStop' = TRUE /\ (Stopped => Stopped')
  BY DEF UserStops, Stopped, plan
<1>2. TypeOK'
  BY <1>1 DEF IInv, TypeOK, plan
<1>3. SlotsBalanced' /\ Closed' /\ Collected'
  BY <1>1 DEF IInv, SlotsBalanced, Closed, Collected, plan
<1>4. Verdicts'
  BY <1>1 DEF IInv, Verdicts, Told
<1> QED BY <1>2, <1>3, <1>4 DEF IInv

LEMMA CleanUpKeeps == ASSUME IInv, CleanUp PROVE IInv'
<1>1. \A l \in Lane : lane[l].at \in Finished
  BY DEF CleanUp, IInv, Collected
<1>2. UNCHANGED <<plan, lane, slots, quorumStop, userStop, base>> /\ main' = "over"
      /\ candidates' = candidates \cup {l \in Lane : lane[l].at = "returned"}
      /\ consumed' = consumed \cup candidates' /\ open' = open \ candidates'
  BY DEF CleanUp, At
<1>3. open' = {}
  BY <1>1, <1>2 DEF IInv, TypeOK, Closed, Held, Finished
<1>4. TypeOK'
  BY <1>2, <1>3 DEF IInv, TypeOK, plan
<1>5. SlotsBalanced' /\ Closed' /\ Verdicts'
  BY <1>2, <1>3 DEF IInv, SlotsBalanced, Closed, Verdicts, Told, Stopped, plan
<1>6. Collected'
  BY <1>1, <1>2, <1>3 DEF IInv, TypeOK, Collected
<1> QED BY <1>4, <1>5, <1>6 DEF IInv

--------------------------------------------------------------------------------
(* The invariant, and what follows from it.                                   *)

LEMMA InitInv == Init => IInv
<1> SUFFICES ASSUME Init PROVE IInv
  OBVIOUS
<1>1. \A l \in Lane : lane[l] = Fresh /\ lane[l].at = "queued"
  BY DEF Init, Fresh
<1>2. TypeOK
  <2>1. lane \in [Lane -> LaneRecord]
    BY FreshTyped DEF Init
  <2>2. slots \in [Provider -> 0..Limit] /\ base \in 0..Lanes
    BY CodingAssumption DEF Init
  <2> QED BY <2>1, <2>2 DEF Init, TypeOK, LaneRecord, Places
<1>3. SlotsBalanced
  <2>1. \A p : Holding(p) = {}
    BY <1>1 DEF Holding, Held
  <2> QED BY <2>1, SlotsAsHeld, FS_EmptySet, CodingAssumption DEF Init
<1>4. Closed /\ Collected /\ Verdicts
  BY <1>1 DEF Init, Closed, Collected, Verdicts
<1> QED BY <1>2, <1>3, <1>4 DEF IInv

LEMMA StepInv == IInv /\ [Next]_vars => IInv'
<1> SUFFICES ASSUME IInv, [Next]_vars PROVE IInv'
  OBVIOUS
<1>1. ASSUME NEW l \in Lane, Worker(l) PROVE IInv'
  BY <1>1, TakeKeeps, EnterKeeps, GiveUpKeeps, HandOverKeeps, FinishKeeps, BackOffKeeps,
     ExhaustedKeeps, ResumeKeeps, WaitStoppedKeeps, EndRunKeeps DEF Worker, Decide
<1>2. CASE Main
  BY <1>2, CollectKeeps, DiscardKeeps, SelectKeeps, SelectFailsKeeps, CleanUpKeeps DEF Main
<1>3. CASE UNCHANGED vars
  <2>1. UNCHANGED <<adaptive, providerOf, lane, slots, open, main, consumed, candidates,
                    quorumStop, userStop, base>>
    BY <1>3 DEF vars, plan
  <2> QED BY <2>1 DEF IInv, TypeOK, SlotsBalanced, Closed, Collected, Verdicts, Told, Stopped
<1> QED BY <1>1, <1>2, <1>3, EnterFailsKeeps, GoesQuietKeeps, CrashKeeps, EditKeeps,
           InterruptKeeps, UserStopsKeeps DEF Next

LEMMA Invariance == Spec => []IInv
BY InitInv, StepInv, PTL DEF Spec

\* The lanes, slots and lists of the stage have the types of the code, for any number
\* of lanes and providers: in particular no semaphore is released beyond its limit.
THEOREM CodingTypes == Spec => []TypeOK
<1>1. IInv => TypeOK
  BY DEF IInv
<1> QED BY <1>1, Invariance, PTL

\* Each slot is free or held by exactly one lane, and no isolated workspace is left
\* when the stage is over, whoever raised, returned, was cancelled or interrupted.
THEOREM LanesClose == Spec => []LanesAreClosed
<1>1. IInv => LanesAreClosed
  BY DEF IInv, Collected, LanesAreClosed, WorkspacesReleased
<1> QED BY <1>1, Invariance, PTL

\* A workspace offered to the merge by a lane that ended by itself passes the
\* verification as it is, after any number of resumes and hand-overs.
THEOREM OffersVerified == Spec => []MergeInputsVerified
<1>1. IInv => MergeInputsVerified
  BY DEF IInv, TypeOK, Collected, Verdicts, Told, MergeInputsVerified, Viable, Mergeable, EndedByItself
<1> QED BY <1>1, Invariance, PTL

--------------------------------------------------------------------------------
(* The stages before CODE.  The invariant says of every worker what its       *)
(* report may be while it runs, waits or is resumed, in which step of which   *)
(* stage it is at work, and that its copy of the project is there just as     *)
(* long; of the StageOff, that it has the stages that are over and nothing    *)
(* else.                                                                      *)

StageJobs == {"none", "plan_research", "research", "think", "operate", "synthesize", "synthesize again",
         "plan_code", "coordinate", "disabled"}
Steps == {"start", "plan", "research", "coordinate", "think", "operate", "synthesize", "code", "failed"}
Works == [pc : {"idle", "runs", "waits", "done"}, job : StageJobs, repairs : Nat, resumes : Nat,
          early : BOOLEAN, bare : BOOLEAN, report : Reports \cup {"none", "filled", "fixed"}]
Entries == [stage : 1..4, output : SUBSET (Reports \cup {"none", "filled", "fixed"}),
            review : {"disabled", "failed", "fixed", "reviewed"}, bare : BOOLEAN]

\* The types the proofs need.
StagesTyped ==
  /\ planning \in [stage : 1..4, step : Steps, round : Nat,
                   found : Reports \cup {"none", "filled", "fixed"}]
  /\ worker \in [Workers -> Works] /\ stageoff \in Seq(Entries)
  /\ sourceHas \in Contained /\ halted \in BOOLEAN

\* A report that says what is not so, or recommends what is forbidden, is of work that is not
\* checked for it.
Sound(report, job, bare, web) ==
  /\ job = "research" => report # "forbidden" /\ (report = "false" => web)
  /\ job = "plan_research" /\ bare => report # "false"
WorkSound(x, web) ==
  /\ Sound(x.report, x.job, x.bare, web)
  /\ x.job = "none" => x.pc = "idle" /\ x.report = "none"

Running(w) == worker[w].pc \in {"runs", "waits"}

LEMMA NothingIsSound == \A job, bare, web : Sound("none", job, bare, web)
BY DEF Sound

\* What is told apart of a model's work is a report.
LEMMA ReportsAre == \A job : ReportsOf(job) \subseteq Reports
BY DEF ReportsOf, Reports

\* Who is at work in which step, on the copies there are.
WorkPlaced ==
  /\ copies = {w \in Workers : Running(w)}
  /\ \A r \in Researchers : /\ worker[r].job \in {"none", "research"}
                            /\ Running(r) => AtStep(2, "research")
  /\ \A t \in Thinkers : Running(t) => AtStep(3, "think")
  /\ Running(Lead) => planning.step \in {"plan", "coordinate", "operate", "synthesize"}
  /\ AtStep(1, "plan") => worker[Lead].job = "plan_research"

\* The StageOff has the stages that are over.
StagesHanded ==
  /\ Len(stageoff) = IF planning.step = "code" THEN 4 ELSE planning.stage - 1
  /\ planning.step = "coordinate" => planning.stage > 1
  /\ planning.step = "code" => planning.stage = 4
  /\ \A k \in 1..Len(stageoff) :
       /\ stageoff[k].stage = k
       /\ Supported(stageoff[k], runSetting.web)

StagesInv ==
  /\ StagesTyped /\ WorkPlaced /\ StagesHanded
  /\ \A w \in Workers : WorkSound(worker[w], runSetting.web)

--------------------------------------------------------------------------------
\* Work that begins, and work that needs no model.
LEMMA WorkBegins ==
  ASSUME StagesTyped, NEW job \in StageJobs \ {"none"}
  PROVE  /\ Begun(job) \in Works /\ Begun(job).pc = "runs" /\ Begun(job).job = job /\ WorkSound(Begun(job), runSetting.web)
         /\ Fixed(job) \in Works /\ Fixed(job).pc = "done" /\ Fixed(job).job = job /\ WorkSound(Fixed(job), runSetting.web)
<1> DEFINE e == ~halted
           b == sourceHas = "nothing"
<1>1. e \in BOOLEAN /\ b \in BOOLEAN
  BY DEF StagesTyped
<1>2. Begun(job) = [NoWork EXCEPT !.pc = "runs", !.job = job, !.early = e, !.bare = b]
  BY DEF Begun
<1> HIDE DEF e, b
<1>3. Begun(job) = [pc |-> "runs", job |-> job, repairs |-> 0, resumes |-> 0, early |-> e, bare |-> b,
                    report |-> "none"]
  BY <1>2 DEF NoWork
<1>4. Begun(job) \in Works
  BY <1>1, <1>3 DEF Works
<1>5. Begun(job) \in Works /\ Begun(job).pc = "runs" /\ Begun(job).job = job /\ Begun(job).report = "none"
  BY <1>3, <1>4
<1>6. Fixed(job) \in Works /\ Fixed(job).pc = "done" /\ Fixed(job).job = job /\ Fixed(job).report = "fixed"
  BY DEF Fixed, NoWork, Works, Reports
<1> QED
  BY <1>5, <1>6 DEF WorkSound, Sound, StageJobs

\* A worker without work reports nothing.
LEMMA NoWorkIs ==
  /\ NoWork \in Works /\ NoWork.pc = "idle" /\ NoWork.job = "none"
  /\ \A web : WorkSound(NoWork, web)
BY DEF NoWork, Works, Reports, StageJobs, WorkSound, Sound

\* The parties of a run.
LEMMA WorkersApart ==
  /\ Lead \in Workers /\ Researchers \subseteq Workers /\ Thinkers \subseteq Workers
  /\ Lead \notin Researchers /\ Lead \notin Thinkers /\ Researchers \cap Thinkers = {}
  /\ \A w \in Workers : w = Lead \/ w \in Researchers \/ w \in Thinkers
BY StagesAssumption DEF Workers

\* A team starts with no worker at work and an empty StageOff.
LEMMA StagesInitInv == StagesInit => StagesInv
<1> SUFFICES ASSUME StagesInit PROVE StagesInv
  OBVIOUS
<1>1. planning = [stage |-> 1, step |-> "start", round |-> 1, found |-> "none"]
  BY DEF StagesInit
<1>2. planning \in [stage : 1..4, step : Steps, round : Nat,
                    found : Reports \cup {"none", "filled", "fixed"}]
  BY <1>1 DEF Steps
<1>3. worker = [w \in Workers |-> NoWork] /\ stageoff = <<>> /\ sourceHas \in Contained /\ halted \in BOOLEAN
      /\ copies = {}
  BY DEF StagesInit
<1>4. StagesTyped
  BY <1>2, <1>3, NoWorkIs DEF StagesTyped
<1>5. WorkPlaced
  BY <1>1, <1>3, NoWorkIs, WorkersApart DEF WorkPlaced, Running, AtStep
<1>6. StagesHanded
  BY <1>1, <1>3 DEF StagesHanded
<1> QED
  BY <1>3, <1>4, <1>5, <1>6, NoWorkIs DEF StagesInv

\* The work of one party changes to x, in a step that leaves the main thread where it is.
LEMMA WorkChanges ==
  ASSUME StagesInv, NEW w \in Workers, NEW x \in Works, WorkSound(x, runSetting.web),
         worker' = [worker EXCEPT ![w] = x], UNCHANGED <<planning, stageoff>>,
         sourceHas' \in Contained, halted' \in BOOLEAN, UNCHANGED runSetting,
         copies' = IF x.pc \in {"runs", "waits"} THEN copies \cup {w} ELSE copies \ {w},
         \/ x.job = worker[w].job /\ Running(w)
         \/ w \in Researchers /\ x.job = "research" /\ AtStep(2, "research")
         \/ w \in Thinkers /\ AtStep(3, "think")
  PROVE  StagesInv'
<1>1. worker'[w] = x /\ \A v \in Workers \ {w} : worker'[v] = worker[v]
  BY DEF StagesInv, StagesTyped
<1>2. StagesTyped'
  BY DEF StagesInv, StagesTyped
<1>3. StagesHanded'
  BY DEF StagesInv, StagesHanded
<1>4. \A v \in Workers : WorkSound(worker'[v], runSetting.web)
  BY <1>1 DEF StagesInv
<1>5. WorkPlaced'
  <2>1. copies' = {v \in Workers : worker'[v].pc \in {"runs", "waits"}}
    BY <1>1 DEF StagesInv, WorkPlaced, Running
  <2>2. \A v \in Workers \ {w} : Running(v)' <=> Running(v)
    BY <1>1 DEF Running
  <2>3. ASSUME NEW r \in Researchers
        PROVE  worker'[r].job \in {"none", "research"} /\ (Running(r)' => AtStep(2, "research"))
    <3>1. CASE r = w
      BY <1>1, <3>1, WorkersApart DEF StagesInv, WorkPlaced, AtStep
    <3>2. CASE r # w
      BY <1>1, <2>2, <3>2, WorkersApart DEF StagesInv, WorkPlaced
    <3> QED
      BY <3>1, <3>2
  <2>4. ASSUME NEW t \in Thinkers PROVE Running(t)' => AtStep(3, "think")
    <3>1. CASE t = w
      BY <3>1, WorkersApart DEF StagesInv, WorkPlaced, AtStep
    <3>2. CASE t # w
      BY <2>2, <3>2, WorkersApart DEF StagesInv, WorkPlaced
    <3> QED
      BY <3>1, <3>2
  <2>5. /\ Running(Lead)' => planning.step \in {"plan", "coordinate", "operate", "synthesize"}
        /\ AtStep(1, "plan") => worker'[Lead].job = "plan_research"
    <3>1. CASE w = Lead
      BY <1>1, <3>1, WorkersApart DEF StagesInv, WorkPlaced, AtStep
    <3>2. CASE w # Lead
      BY <1>1, <2>2, <3>2, WorkersApart DEF StagesInv, WorkPlaced
    <3> QED
      BY <3>1, <3>2
  <2> QED
    BY <2>1, <2>3, <2>4, <2>5 DEF WorkPlaced, Running, AtStep
<1> QED
  BY <1>2, <1>3, <1>4, <1>5 DEF StagesInv

\* A model's run ends, pauses or goes on.
LEMMA WorkGoesOn ==
  ASSUME StagesInv, NEW w \in Workers,
         (\E report \in Reports : Completes(w, report)) \/ RunFails(w) \/ RunPauses(w) \/ Resumes(w)
  PROVE  StagesInv'
<1>1. worker[w] \in Works /\ WorkSound(worker[w], runSetting.web) /\ StagesTyped
  BY DEF StagesInv, StagesTyped
<1>2. UNCHANGED <<planning, stageoff, runSetting>> /\ sourceHas' = sourceHas /\ halted' = halted
  BY DEF Completes, RunFails, RunPauses, Resumes, handed, environment
<1>3. Running(w) /\ worker[w].job # "none"
  BY <1>1 DEF Completes, RunFails, RunPauses, Resumes, Running, WorkSound
<1>4. ASSUME NEW x \in Works, WorkSound(x, runSetting.web), x.job = worker[w].job, worker' = [worker EXCEPT ![w] = x],
             copies' = IF x.pc \in {"runs", "waits"} THEN copies \cup {w} ELSE copies \ {w}
      PROVE  StagesInv'
  BY <1>1, <1>2, <1>3, <1>4, WorkChanges DEF StagesTyped
<1>5. w \in copies
  BY <1>3 DEF StagesInv, WorkPlaced
<1>6. ASSUME NEW report \in Reports \cup {"none", "filled", "fixed"}, Done(w, report),
             Sound(report, worker[w].job, worker[w].bare, runSetting.web)
      PROVE  StagesInv'
  <2> DEFINE x == [worker[w] EXCEPT !.pc = "done", !.report = report]
  <2>1. worker' = [worker EXCEPT ![w] = x]
    BY <1>1, <1>6 DEF Done, StagesTyped
  <2>2. x \in Works /\ x.pc = "done" /\ x.job = worker[w].job /\ x.report = report /\ x.bare = worker[w].bare
    BY <1>1 DEF Works
  <2> HIDE DEF x
  <2>3. WorkSound(x, runSetting.web)
    BY <1>3, <1>6, <2>2 DEF WorkSound
  <2> QED
    BY <1>4, <1>6, <2>1, <2>2, <2>3 DEF Done
<1>7. CASE \E report \in Reports : Completes(w, report)
  <2>1. PICK report \in Reports : Completes(w, report)
    BY <1>7
  <2>2. CASE ~Issues(w, report)
    <3>1. Done(w, report)
      BY <2>1, <2>2 DEF Completes
    <3>2. Sound(report, worker[w].job, worker[w].bare, runSetting.web)
      BY <2>2 DEF Issues, Untrue, Sound
    <3> QED
      BY <1>6, <3>1, <3>2
  <2>3. CASE Issues(w, report) /\ worker[w].repairs < MaxRepairs(w)
    <3> DEFINE e == ~halted
    <3>1. worker' = [worker EXCEPT ![w].repairs = @ + 1, ![w].early = e] /\ copies' = copies
      BY <2>1, <2>3 DEF Completes
    <3>2. e \in BOOLEAN
      OBVIOUS
    <3> HIDE DEF e
    <3> DEFINE x == [worker[w] EXCEPT !.repairs = worker[w].repairs + 1, !.early = e]
    <3>3. worker' = [worker EXCEPT ![w] = x]
      BY <1>1, <3>1 DEF StagesTyped
    <3>4. worker[w].repairs + 1 \in Nat
      BY <1>1 DEF Works
    <3>5. x \in Works
      BY <1>1, <3>2, <3>4 DEF Works
    <3>6. x.pc = worker[w].pc /\ x.job = worker[w].job /\ x.report = worker[w].report
      BY <1>1 DEF Works
    <3>7. x.bare = worker[w].bare
      BY <1>1, Zenon DEF Works
    <3>8. x \in Works /\ x.pc = worker[w].pc /\ x.job = worker[w].job /\ x.report = worker[w].report
          /\ x.bare = worker[w].bare
      BY <3>5, <3>6, <3>7
    <3> HIDE DEF x
    <3>9. WorkSound(x, runSetting.web)
      BY <1>1, <3>8 DEF WorkSound
    <3>10. copies' = copies \cup {w} /\ x.pc \in {"runs", "waits"}
      BY <1>3, <1>5, <3>1, <3>8 DEF Running
    <3> QED
      BY <1>4, <3>3, <3>8, <3>9, <3>10
  <2>4. CASE Issues(w, report) /\ ~(worker[w].repairs < MaxRepairs(w))
    BY <1>6, <2>1, <2>4 DEF Completes, Normalized, Sound
  <2> QED
    BY <2>2, <2>3, <2>4
<1>8. CASE RunFails(w)
  BY <1>6, <1>8 DEF RunFails, Reports, Sound
<1>9. CASE RunPauses(w)
  <2>1. CASE halted
    BY <1>6, <1>9, <2>1 DEF RunPauses, Reports, Sound
  <2>2. CASE ~halted
    <3> DEFINE x == [worker[w] EXCEPT !.pc = "waits", !.resumes = worker[w].resumes + 1]
    <3>1. worker' = [worker EXCEPT ![w] = x] /\ copies' = copies
      BY <1>1, <1>9, <2>2 DEF RunPauses, StagesTyped
    <3>2. worker[w].resumes + 1 \in Nat
      BY <1>1 DEF Works
    <3>3. x \in Works
      BY <1>1, <3>2 DEF Works
    <3>4. x.pc = "waits" /\ x.job = worker[w].job /\ x.report = worker[w].report
      BY <1>1 DEF Works
    <3>5. x.bare = worker[w].bare
      BY <1>1, Zenon DEF Works
    <3>6. x \in Works /\ x.pc = "waits" /\ x.job = worker[w].job /\ x.report = worker[w].report
          /\ x.bare = worker[w].bare
      BY <3>3, <3>4, <3>5
    <3> HIDE DEF x
    <3>7. WorkSound(x, runSetting.web) /\ copies' = copies \cup {w}
      BY <1>1, <1>3, <1>5, <3>1, <3>6 DEF WorkSound
    <3> QED
      BY <1>4, <3>1, <3>6, <3>7
  <2> QED
    BY <2>1, <2>2
<1>10. CASE Resumes(w)
  <2>1. CASE halted
    BY <1>6, <1>10, <2>1 DEF Resumes, Reports, Sound
  <2>2. CASE ~halted
    <3> DEFINE x == [worker[w] EXCEPT !.pc = "runs", !.early = TRUE]
    <3>1. worker' = [worker EXCEPT ![w] = x] /\ copies' = copies
      BY <1>1, <1>10, <2>2 DEF Resumes, StagesTyped
    <3>2. x \in Works /\ x.pc = "runs" /\ x.job = worker[w].job /\ x.report = worker[w].report
          /\ x.bare = worker[w].bare
      BY <1>1 DEF Works
    <3> HIDE DEF x
    <3>3. WorkSound(x, runSetting.web) /\ copies' = copies \cup {w}
      BY <1>1, <1>3, <1>5, <3>1, <3>2 DEF WorkSound
    <3> QED
      BY <1>4, <3>1, <3>2, <3>3
  <2> QED
    BY <2>1, <2>2
<1> QED
  BY <1>7, <1>8, <1>9, <1>10

\* The main thread turns to work x, or from it, while nobody else is at work.
LEMMA LeadTurns ==
  ASSUME StagesInv, NEW x \in Works, WorkSound(x, runSetting.web), \A w \in Workers \ {Lead} : ~Running(w),
         worker' = [worker EXCEPT ![Lead] = x],
         copies' = IF x.pc \in {"runs", "waits"} THEN copies \cup {Lead} ELSE copies \ {Lead},
         planning' \in [stage : 1..4, step : Steps, round : Nat,
                        found : Reports \cup {"none", "filled", "fixed"}],
         x.pc \in {"runs", "waits"} => planning'.step \in {"plan", "coordinate", "operate", "synthesize"},
         planning'.stage = 1 /\ planning'.step = "plan" => x.job = "plan_research",
         stageoff' \in Seq(Entries), StagesHanded', UNCHANGED environment
  PROVE  StagesInv'
<1>1. worker'[Lead] = x /\ \A v \in Workers \ {Lead} : worker'[v] = worker[v]
  BY WorkersApart DEF StagesInv, StagesTyped
<1>2. StagesTyped'
  BY WorkersApart DEF StagesInv, StagesTyped, environment
<1>3. \A v \in Workers : WorkSound(worker'[v], runSetting.web)
  BY <1>1 DEF StagesInv
<1>4. \A v \in Workers \ {Lead} : worker'[v].pc \notin {"runs", "waits"}
  BY <1>1 DEF Running
<1>5. copies' = {v \in Workers : worker'[v].pc \in {"runs", "waits"}}
  BY <1>1, <1>4, WorkersApart DEF StagesInv, WorkPlaced, Running
<1>6. \A r \in Researchers : worker'[r].job \in {"none", "research"} /\ worker'[r].pc \notin {"runs", "waits"}
  BY <1>1, <1>4, WorkersApart DEF StagesInv, WorkPlaced
<1>7. \A t \in Thinkers : worker'[t].pc \notin {"runs", "waits"}
  BY <1>4, WorkersApart
<1>8. WorkPlaced'
  BY <1>1, <1>5, <1>6, <1>7 DEF WorkPlaced, Running, AtStep
<1> QED
  BY <1>2, <1>3, <1>8 DEF StagesInv, environment

\* The main thread goes on and forgets the work that is done.
LEMMA AllRest ==
  ASSUME StagesInv, \A w \in Workers : ~Running(w),
         worker' = [w \in Workers |-> NoWork], UNCHANGED copies,
         planning' \in [stage : 1..4, step : Steps, round : Nat,
                        found : Reports \cup {"none", "filled", "fixed"}],
         ~(planning'.stage = 1 /\ planning'.step = "plan"),
         stageoff' \in Seq(Entries), StagesHanded', UNCHANGED environment
  PROVE  StagesInv'
<1>1. \A v \in Workers : worker'[v] = NoWork
  OBVIOUS
<1>2. StagesTyped'
  BY NoWorkIs DEF StagesInv, StagesTyped, environment
<1>3. \A v \in Workers : WorkSound(worker'[v], runSetting.web)
  BY <1>1, NoWorkIs
<1>4. copies = {}
  BY DEF StagesInv, WorkPlaced
<1>5. \A v \in Workers : worker'[v].pc \notin {"runs", "waits"} /\ worker'[v].job = "none"
  BY <1>1, NoWorkIs
<1>6. WorkPlaced'
  BY <1>4, <1>5, WorkersApart DEF WorkPlaced, Running, AtStep
<1> QED
  BY <1>2, <1>3, <1>6 DEF StagesInv, environment

\* The main thread goes on, and the work stays as it is.
LEMMA NobodyTurns ==
  ASSUME StagesInv, \A w \in Workers : ~Running(w),
         UNCHANGED <<worker, copies>>,
         planning' \in [stage : 1..4, step : Steps, round : Nat,
                        found : Reports \cup {"none", "filled", "fixed"}],
         ~(planning'.stage = 1 /\ planning'.step = "plan"),
         stageoff' \in Seq(Entries), StagesHanded', UNCHANGED environment
  PROVE  StagesInv'
<1>1. StagesTyped'
  BY DEF StagesInv, StagesTyped, environment
<1>2. WorkPlaced'
  BY WorkersApart DEF StagesInv, WorkPlaced, Running, AtStep
<1> QED
  BY <1>1, <1>2 DEF StagesInv, environment

\* A stage's output, and what it may say.
LEMMA EntryIs ==
  ASSUME NEW k \in 1..4, NEW output \in SUBSET (Reports \cup {"none", "filled", "fixed"}),
         NEW review \in {"disabled", "failed", "fixed", "reviewed"}
  PROVE  /\ Entry(k, output, review) \in Entries
         /\ Entry(k, output, review).stage = k /\ Entry(k, output, review).output = output
<1> DEFINE b == \A w \in Workers : worker[w].job # "none" => worker[w].bare
<1>1. Entry(k, output, review) = [stage |-> k, output |-> output, review |-> review, bare |-> b]
  BY DEF Entry
<1>2. b \in BOOLEAN
  OBVIOUS
<1> HIDE DEF b
<1> QED
  BY <1>1, <1>2 DEF Entries

\* Outside the threads of the research and the brainstorm only the main thread has work.
LEMMA LeadIsAlone ==
  ASSUME StagesInv, ~AtStep(2, "research"), ~AtStep(3, "think")
  PROVE  \A w \in Workers \ {Lead} : ~Running(w)
BY WorkersApart DEF StagesInv, WorkPlaced

\* The main thread goes to another step of the same stage.
LEMMA StageGoesOn ==
  ASSUME StagesInv, NEW s \in Steps \ {"code"}, planning.step # "code", s = "coordinate" => planning.stage > 1,
         planning'.stage = planning.stage, planning'.step = s, UNCHANGED stageoff, UNCHANGED environment
  PROVE  StagesHanded' /\ stageoff' \in Seq(Entries)
BY DEF StagesInv, StagesHanded, StagesTyped, environment

\* A stage ends with its output in the StageOff.
LEMMA StageIsOver ==
  ASSUME StagesInv, planning.step # "code",
         NEW output \in SUBSET (Reports \cup {"none", "filled", "fixed"}),
         NEW review \in {"disabled", "failed", "fixed", "reviewed"},
         Supported(Entry(planning.stage, output, review), runSetting.web), UNCHANGED runSetting,
         stageoff' = Append(stageoff, Entry(planning.stage, output, review)),
         \/ planning.stage = 4 /\ planning'.stage = 4 /\ planning'.step = "code"
         \/ planning'.stage = planning.stage + 1 /\ planning'.step = "start"
  PROVE  StagesHanded' /\ stageoff' \in Seq(Entries)
<1> DEFINE k == planning.stage
           e == Entry(k, output, review)
<1>1. k \in 1..4 /\ stageoff \in Seq(Entries) /\ Len(stageoff) = k - 1
  BY DEF StagesInv, StagesTyped, StagesHanded
<1>2. e \in Entries /\ e.stage = k /\ e.output = output
  BY <1>1, EntryIs
<1>3. Supported(e, runSetting.web)
  OBVIOUS
<1>4. stageoff' = Append(stageoff, e)
  OBVIOUS
<1>5. \/ k = 4 /\ planning'.stage = 4 /\ planning'.step = "code"
      \/ planning'.stage = k + 1 /\ planning'.step = "start"
  OBVIOUS
<1> HIDE DEF k, e
<1>6. stageoff' \in Seq(Entries) /\ Len(stageoff') = k
  BY <1>1, <1>2, <1>4
<1>7. ASSUME NEW i \in 1..k
      PROVE  /\ stageoff'[i].stage = i
             /\ Supported(stageoff'[i], runSetting'.web)
  <2>1. CASE i = k
    <3>1. stageoff'[i] = e
      BY <1>1, <1>2, <1>4, <2>1
    <3> QED
      BY <1>2, <1>3, <2>1, <3>1
  <2>2. CASE i # k
    <3>1. i \in 1..Len(stageoff) /\ stageoff'[i] = stageoff[i]
      BY <1>1, <1>2, <1>4, <2>2
    <3> QED
      BY <3>1 DEF StagesInv, StagesHanded
  <2> QED
    BY <2>1, <2>2
<1> QED
  BY <1>1, <1>6, <1>7, <1>5 DEF StagesHanded

\* The main thread begins work on a copy, and nobody else is at work.
LEMMA LeadStarts ==
  ASSUME StagesInv, \A w \in Workers \ {Lead} : ~Running(w), NEW job \in StageJobs \ {"none"},
         NEW s \in {"plan", "coordinate", "operate", "synthesize"},
         planning.step # "code", s = "coordinate" => planning.stage > 1,
         planning.stage = 1 => job = "plan_research",
         planning' \in [stage : 1..4, step : Steps, round : Nat,
                        found : Reports \cup {"none", "filled", "fixed"}],
         planning'.stage = planning.stage, planning'.step = s, Starts(job), UNCHANGED <<handed, environment>>
  PROVE  StagesInv'
<1>1. Begun(job) \in Works /\ Begun(job).pc = "runs" /\ Begun(job).job = job /\ WorkSound(Begun(job), runSetting.web)
  BY WorkBegins DEF StagesInv
<1>2. StagesHanded' /\ stageoff' \in Seq(Entries)
  BY StageGoesOn DEF handed, Steps
<1> DEFINE x == Begun(job)
<1>3. worker' = [worker EXCEPT ![Lead] = x] /\ copies' = copies \cup {Lead}
  BY DEF Starts
<1> HIDE DEF x
<1>4. x \in Works /\ x.pc = "runs" /\ x.job = job /\ WorkSound(x, runSetting.web)
  BY <1>1 DEF x
<1> QED
  BY <1>2, <1>3, <1>4, LeadTurns

\* The main thread's work is fixed or not to be done, and nobody else is at work.
LEMMA LeadHasFixed ==
  ASSUME StagesInv, \A w \in Workers : ~Running(w), NEW x \in Works, x.pc = "done", WorkSound(x, runSetting.web),
         NEW s \in {"plan", "coordinate", "operate", "synthesize"},
         planning.step # "code", s = "coordinate" => planning.stage > 1,
         planning.stage = 1 => x.job = "plan_research",
         planning' \in [stage : 1..4, step : Steps, round : Nat,
                        found : Reports \cup {"none", "filled", "fixed"}],
         planning'.stage = planning.stage, planning'.step = s,
         worker' = [worker EXCEPT ![Lead] = x], UNCHANGED <<copies, handed, environment>>
  PROVE  StagesInv'
<1>1. StagesHanded' /\ stageoff' \in Seq(Entries)
  BY StageGoesOn DEF handed, Steps
<1>2. copies' = copies \ {Lead}
  BY DEF StagesInv, WorkPlaced
<1> QED
  BY <1>1, <1>2, LeadTurns

\* _coordinate_stageoff() begins when nobody is at work.
LEMMA CoordinateKeeps ==
  ASSUME StagesInv, NEW k \in 2..4, planning.stage = k, planning.step # "code",
         \A w \in Workers : ~Running(w), Coordinate(k), UNCHANGED environment
  PROVE  StagesInv'
<1>1. Said(Lead) \in Reports \cup {"none", "filled", "fixed"}
  BY WorkersApart DEF StagesInv, StagesTyped, Works, Said
<1>2. /\ planning' \in [stage : 1..4, step : Steps, round : Nat,
                        found : Reports \cup {"none", "filled", "fixed"}]
      /\ planning'.stage = planning.stage /\ planning'.step = "coordinate"
  BY <1>1 DEF StagesInv, StagesTyped, Coordinate, Steps
<1>3. /\ UNCHANGED handed /\ planning.step # "code" /\ planning.stage > 1 /\ planning.stage # 1
      /\ "coordinate" \in {"plan", "coordinate", "operate", "synthesize"}
      /\ "coordinate" \in StageJobs \ {"none"}
      /\ \A w \in Workers \ {Lead} : ~Running(w)
  BY DEF Coordinate, StageJobs
<1>4. CASE worker' = [worker EXCEPT ![Lead] = Fixed("coordinate")] /\ UNCHANGED copies
  <2>1. Fixed("coordinate") \in Works /\ Fixed("coordinate").pc = "done" /\ WorkSound(Fixed("coordinate"), runSetting.web)
    BY WorkBegins DEF StagesInv, StageJobs
  <2> QED
    BY <1>2, <1>3, <1>4, <2>1, LeadHasFixed
<1>5. CASE Starts("coordinate")
  BY <1>2, <1>3, <1>5, LeadStarts
<1>6. CASE worker' = [worker EXCEPT ![Lead] = [NoWork EXCEPT !.pc = "done", !.job = "disabled"]] /\ UNCHANGED copies
  <2> DEFINE x == [NoWork EXCEPT !.pc = "done", !.job = "disabled"]
  <2>1. x \in Works /\ x.pc = "done" /\ x.report = "none"
    BY NoWorkIs DEF Works, StageJobs, NoWork
  <2>2. worker' = [worker EXCEPT ![Lead] = x]
    BY <1>6
  <2> HIDE DEF x
  <2>3. x.job = "disabled"
    BY DEF NoWork, x
  <2>4. x \in Works /\ x.pc = "done" /\ WorkSound(x, runSetting.web)
    BY <2>1, <2>3, NothingIsSound DEF WorkSound
  <2> QED
    BY <1>2, <1>3, <1>6, <2>2, <2>4, LeadHasFixed
<1> QED
  BY <1>4, <1>5, <1>6 DEF Coordinate

--------------------------------------------------------------------------------
\* A worker's thread raises.
LEMMA StagesCrashKeeps ==
  ASSUME StagesInv, Crashes
  PROVE  StagesInv'
<1> DEFINE x == [worker[Lead] EXCEPT !.pc = "done", !.report = "none"]
<1>1. worker[Lead] \in Works /\ Running(Lead)
  BY WorkersApart DEF StagesInv, StagesTyped, Crashes, Running
<1>2. worker' = [worker EXCEPT ![Lead] = x] /\ copies' = copies \ {Lead}
  BY <1>1 DEF Crashes, Done, StagesInv, StagesTyped
<1>3. x \in Works /\ x.pc = "done" /\ x.job = worker[Lead].job /\ x.report = "none"
  BY <1>1 DEF Works
<1> HIDE DEF x
<1>4. WorkSound(x, runSetting.web)
  BY <1>1, <1>3, WorkersApart, NothingIsSound DEF WorkSound, StagesInv, Running
<1>5. planning.step \in {"plan", "coordinate", "operate", "synthesize"}
  BY <1>1 DEF StagesInv, WorkPlaced
<1>6. /\ planning' \in [stage : 1..4, step : Steps, round : Nat,
                        found : Reports \cup {"none", "filled", "fixed"}]
      /\ planning'.stage = planning.stage /\ planning'.step = "failed"
  BY DEF Crashes, Fail, StagesInv, StagesTyped, Steps
<1>7. UNCHANGED environment /\ UNCHANGED stageoff
  BY DEF Crashes, handed
<1>8. StagesHanded' /\ stageoff' \in Seq(Entries)
  BY <1>5, <1>6, <1>7, StageGoesOn DEF Steps
<1>9. \A w \in Workers \ {Lead} : ~Running(w)
  BY <1>5, LeadIsAlone DEF AtStep
<1> QED
  BY <1>2, <1>3, <1>4, <1>6, <1>7, <1>8, <1>9, LeadTurns

\* PLAN_RESEARCH: the lead plans, ...
LEMMA PlanResearchKeeps ==
  ASSUME StagesInv, PlanResearch
  PROVE  StagesInv'
<1>1. /\ planning' \in [stage : 1..4, step : Steps, round : Nat,
                        found : Reports \cup {"none", "filled", "fixed"}]
      /\ planning'.stage = planning.stage /\ planning'.step = "plan"
      /\ planning.stage = 1 /\ planning.step = "start"
  BY DEF PlanResearch, Step, StagesInv, StagesTyped, Steps, AtStep
<1>2. UNCHANGED <<handed, environment>>
  BY DEF PlanResearch
<1>3. \A w \in Workers : ~Running(w)
  BY <1>1, LeadIsAlone DEF AtStep, StagesInv, WorkPlaced
<1>4. /\ "plan_research" \in StageJobs \ {"none"}
      /\ "plan" \in {"plan", "coordinate", "operate", "synthesize"}
  BY DEF StageJobs
<1>5. CASE worker' = [worker EXCEPT ![Lead] = Fixed("plan_research")] /\ UNCHANGED copies
  <2> DEFINE x == Fixed("plan_research")
  <2>1. worker' = [worker EXCEPT ![Lead] = x] /\ UNCHANGED copies
    BY <1>5
  <2>2. x \in Works /\ x.pc = "done" /\ x.job = "plan_research" /\ WorkSound(x, runSetting.web)
    BY <1>4, WorkBegins DEF StagesInv
  <2> HIDE DEF x
  <2> QED
    BY <1>1, <1>2, <1>3, <1>4, <2>1, <2>2, LeadHasFixed
<1>6. CASE Starts("plan_research")
  BY <1>1, <1>2, <1>3, <1>4, <1>6, LeadStarts
<1> QED
  BY <1>5, <1>6 DEF PlanResearch

\* ... and without a plan the team fails.
LEMMA ResearchPlannedKeeps ==
  ASSUME StagesInv, ResearchPlanned
  PROVE  StagesInv'
<1>1. planning.stage = 1 /\ planning.step = "plan" /\ worker[Lead].pc = "done" /\ worker[Lead] \in Works
      /\ worker[Lead].job = "plan_research" /\ WorkSound(worker[Lead], runSetting.web) /\ stageoff \in Seq(Entries)
      /\ Len(stageoff) = 0
  BY WorkersApart DEF ResearchPlanned, AtStep, LeadDone, StagesInv, StagesTyped, StagesHanded, WorkPlaced
<1>2. \A w \in Workers : ~Running(w)
  BY <1>1, LeadIsAlone DEF AtStep, Running
<1>3. UNCHANGED <<environment, copies>>
  BY DEF ResearchPlanned
<1>4. CASE Said(Lead) = "none"
  <2>1. /\ planning' \in [stage : 1..4, step : Steps, round : Nat,
                          found : Reports \cup {"none", "filled", "fixed"}]
        /\ planning'.stage = planning.stage /\ planning'.step = "failed"
    BY <1>4 DEF ResearchPlanned, Fail, StagesInv, StagesTyped, Steps
  <2>2. UNCHANGED <<worker, stageoff>>
    BY <1>4 DEF ResearchPlanned, handed
  <2>3. "failed" \in Steps \ {"code"} /\ planning.step # "code"
    BY <1>1 DEF Steps
  <2>4. StagesHanded' /\ stageoff' \in Seq(Entries)
    BY <1>3, <2>1, <2>2, <2>3, StageGoesOn
  <2> QED
    BY <1>2, <1>3, <2>1, <2>2, <2>4, NobodyTurns
<1>5. CASE Said(Lead) # "none"
  <2> DEFINE output == {Said(Lead)}
  <2>1. /\ planning' \in [stage : 1..4, step : Steps, round : Nat,
                          found : Reports \cup {"none", "filled", "fixed"}]
        /\ planning'.stage = planning.stage + 1 /\ planning'.step = "start"
    <3>1. planning' = [planning EXCEPT !.stage = 2, !.step = "start"]
      BY <1>5 DEF ResearchPlanned, Stage
    <3>2. 2 \in 1..4 /\ planning.stage + 1 = 2
      BY <1>1
    <3> QED
      BY <3>1, <3>2 DEF StagesInv, StagesTyped, Steps
  <2>2. output \in SUBSET (Reports \cup {"none", "filled", "fixed"})
    BY <1>1 DEF Said, Works
  <2>3. stageoff' = Append(stageoff, Entry(planning.stage, output, "reviewed"))
    <3> DEFINE e == Entry(1, output, "reviewed")
    <3>1. stageoff' = <<e>>
      BY <1>5 DEF ResearchPlanned
    <3> HIDE DEF e
    <3>2. Append(stageoff, e) = <<e>>
      BY <1>1
    <3> QED
      BY <1>1, <3>1, <3>2 DEF e
  <2>4. ASSUME "false" \in output PROVE ~Entry(planning.stage, output, "reviewed").bare
    <3>1. worker[Lead].report = "false"
      BY <2>4 DEF Said
    <3>2. ~worker[Lead].bare /\ worker[Lead].job # "none"
      BY <1>1, <3>1 DEF WorkSound, Sound
    <3>3. ~(\A w \in Workers : worker[w].job # "none" => worker[w].bare)
      BY <3>2, WorkersApart, Zenon
    <3> DEFINE b == \A w \in Workers : worker[w].job # "none" => worker[w].bare
    <3>4. Entry(planning.stage, output, "reviewed")
            = [stage |-> planning.stage, output |-> output, review |-> "reviewed", bare |-> b]
      BY DEF Entry
    <3>5. b = FALSE
      BY <3>3
    <3> HIDE DEF b
    <3> QED
      BY <3>4, <3>5
  <2>5. planning.step # "code" /\ "reviewed" \in {"disabled", "failed", "fixed", "reviewed"}
    BY <1>1
  <2> HIDE DEF output
  <2>8. Supported(Entry(planning.stage, output, "reviewed"), runSetting.web)
    BY <1>1, <2>2, <2>4, <2>5, EntryIs DEF Supported
  <2>6. StagesHanded' /\ stageoff' \in Seq(Entries)
    BY <1>1, <1>3, <2>1, <2>2, <2>3, <2>8, <2>5, StageIsOver DEF environment
  <2>7. worker' = [w \in Workers |-> NoWork]
    BY <1>5 DEF ResearchPlanned
  <2> QED
    BY <1>2, <1>3, <2>1, <2>6, <2>7, AllRest
<1> QED
  BY <1>4, <1>5

\* RESEARCH: the researchers are started, ...
LEMMA ResearchKeeps ==
  ASSUME StagesInv, Research
  PROVE  StagesInv'
<1>1. /\ planning' \in [stage : 1..4, step : Steps, round : Nat,
                        found : Reports \cup {"none", "filled", "fixed"}]
      /\ planning'.stage = planning.stage /\ planning'.step = "research"
      /\ planning.stage = 2 /\ planning.step = "start"
  BY DEF Research, Step, StagesInv, StagesTyped, Steps, AtStep
<1>2. UNCHANGED <<worker, copies, stageoff, environment>>
  BY DEF Research, handed
<1>3. \A w \in Workers : ~Running(w)
  BY <1>1, LeadIsAlone DEF AtStep, StagesInv, WorkPlaced
<1>4. "research" \in Steps \ {"code"}
  BY DEF Steps
<1>5. StagesHanded' /\ stageoff' \in Seq(Entries)
  BY <1>1, <1>2, <1>4, StageGoesOn
<1> QED
  BY <1>1, <1>2, <1>3, <1>5, NobodyTurns

\* ... each reports, ...
LEMMA ResearchesKeeps ==
  ASSUME StagesInv, NEW r \in Researchers, Researches(r)
  PROVE  StagesInv'
<1>1. /\ "research" \in StageJobs \ {"none"} /\ r \in Workers /\ AtStep(2, "research")
      /\ sourceHas' \in Contained /\ halted' \in BOOLEAN /\ UNCHANGED <<planning, stageoff, runSetting>>
      /\ worker[r].pc = "idle"
  BY WorkersApart DEF StageJobs, Researches, StagesInv, StagesTyped, environment, handed
<1>2. CASE worker' = [worker EXCEPT ![r] = Fixed("research")] /\ UNCHANGED copies
  <2> DEFINE x == Fixed("research")
  <2>1. worker' = [worker EXCEPT ![r] = x]
    BY <1>2
  <2>2. x \in Works /\ x.pc = "done" /\ x.job = "research" /\ WorkSound(x, runSetting.web)
    BY <1>1, WorkBegins DEF StagesInv
  <2> HIDE DEF x
  <2>3. copies' = copies \ {r}
    BY <1>1, <1>2 DEF StagesInv, WorkPlaced, Running
  <2> QED
    BY <1>1, <2>1, <2>2, <2>3, WorkChanges
<1>3. CASE worker' = [worker EXCEPT ![r] = Begun("research")] /\ copies' = copies \cup {r}
  <2> DEFINE x == Begun("research")
  <2>1. worker' = [worker EXCEPT ![r] = x]
    BY <1>3
  <2>2. x \in Works /\ x.pc = "runs" /\ x.job = "research" /\ WorkSound(x, runSetting.web)
    BY <1>1, WorkBegins DEF StagesInv
  <2> HIDE DEF x
  <2> QED
    BY <1>1, <1>3, <2>1, <2>2, WorkChanges
<1> QED
  BY <1>2, <1>3 DEF Researches

\* ... and the reports are taken together.
LEMMA ResearchDoneKeeps ==
  ASSUME StagesInv, ResearchDone
  PROVE  StagesInv'
<1>1. 2 \in 2..4 /\ planning.stage = 2 /\ planning.step = "research" /\ Coordinate(2) /\ UNCHANGED environment
      /\ \A r \in Researchers : worker[r].pc = "done"
  BY DEF ResearchDone, Researched, AtStep
<1>2. ASSUME NEW w \in Workers PROVE ~Running(w)
  BY <1>1, WorkersApart DEF StagesInv, WorkPlaced, AtStep, Running
<1> QED
  BY <1>1, <1>2, CoordinateKeeps

\* What the stage that ends has found.
LEMMA OutputIs ==
  ASSUME StagesInv, NEW k \in 2..4
  PROVE  /\ Output(k) \in SUBSET (Reports \cup {"none", "filled", "fixed"})
         /\ k = 2 => "forbidden" \notin Output(k) /\ ("false" \in Output(k) => runSetting.web)
         /\ Review \in {"disabled", "failed", "fixed", "reviewed"}
<1>1. \A r \in Researchers : worker[r] \in Works /\ worker[r].job \in {"none", "research"} /\ WorkSound(worker[r], runSetting.web)
  BY WorkersApart DEF StagesInv, StagesTyped, WorkPlaced
<1>2. ASSUME NEW r \in Researchers
      PROVE  /\ Said(r) \in Reports \cup {"none", "filled", "fixed"}
             /\ Said(r) # "forbidden" /\ (Said(r) = "false" => runSetting.web)
  <2>1. Said(r) \in Reports \cup {"none", "filled", "fixed"}
    BY <1>1 DEF Said, Works
  <2>2. CASE worker[r].job = "none"
    BY <1>1, <2>2 DEF Said, WorkSound
  <2>3. CASE worker[r].job = "research"
    <3>1. Sound(worker[r].report, "research", worker[r].bare, runSetting.web)
      BY <1>1, <2>3 DEF WorkSound
    <3> QED
      BY <2>1, <3>1 DEF Said, Sound
  <2> QED
    BY <1>1, <2>1, <2>2, <2>3
<1>3. planning.found \in Reports \cup {"none", "filled", "fixed"}
  BY DEF StagesInv, StagesTyped
<1>4. Output(k) \in SUBSET (Reports \cup {"none", "filled", "fixed"})
  BY <1>2, <1>3 DEF Output
<1>5. k = 2 => "forbidden" \notin Output(k) /\ ("false" \in Output(k) => runSetting.web)
  BY <1>2 DEF Output
<1>6. Review \in {"disabled", "failed", "fixed", "reviewed"}
  BY DEF Review
<1> QED
  BY <1>4, <1>5, <1>6

\* The lead has coordinated a stage: the StageOff gets what it found.
LEMMA CoordinatedKeeps ==
  ASSUME StagesInv, Coordinated
  PROVE  StagesInv'
<1>1. /\ planning.stage \in 2..4 /\ planning.step = "coordinate" /\ worker[Lead].pc = "done"
      /\ planning \in [stage : 1..4, step : Steps, round : Nat,
                       found : Reports \cup {"none", "filled", "fixed"}]
  BY DEF Coordinated, LeadDone, StagesInv, StagesTyped, StagesHanded
<1> DEFINE k == planning.stage
           out == Output(k)
           rev == Review
<1>2. HandOverStage(k, out, rev) /\ (IF k = 4 THEN Step("code") ELSE Stage(k + 1)) /\ UNCHANGED <<environment, copies>>
  BY DEF Coordinated
<1>3. stageoff' = Append(stageoff, Entry(planning.stage, out, rev)) /\ worker' = [w \in Workers |-> NoWork]
  BY <1>2 DEF HandOverStage, Handed
<1>4. /\ out \in SUBSET (Reports \cup {"none", "filled", "fixed"})
      /\ k = 2 => "forbidden" \notin out /\ ("false" \in out => runSetting.web)
      /\ rev \in {"disabled", "failed", "fixed", "reviewed"}
  BY <1>1, OutputIs
<1>5. /\ \/ planning.stage = 4 /\ planning'.stage = 4 /\ planning'.step = "code"
         \/ planning'.stage = planning.stage + 1 /\ planning'.step = "start"
      /\ planning' \in [stage : 1..4, step : Steps, round : Nat,
                        found : Reports \cup {"none", "filled", "fixed"}]
      /\ ~(planning'.stage = 1 /\ planning'.step = "plan")
  <2>1. CASE k = 4
    BY <1>1, <1>2, <2>1 DEF Step, Steps
  <2>2. CASE k # 4
    <3>1. planning' = [planning EXCEPT !.stage = k + 1, !.step = "start"]
      BY <1>2, <2>2 DEF Stage
    <3>2. k + 1 \in 1..4 /\ k + 1 # 1
      BY <1>1, <2>2
    <3> QED
      BY <1>1, <3>1, <3>2 DEF Steps
  <2> QED
    BY <2>1, <2>2
<1> HIDE DEF out, rev
<1>6. Supported(Entry(planning.stage, out, rev), runSetting.web)
  BY <1>1, <1>4, EntryIs DEF Supported
<1>7. planning.step # "code" /\ UNCHANGED runSetting
  BY <1>1, <1>2 DEF environment
<1>8. StagesHanded' /\ stageoff' \in Seq(Entries)
  BY <1>3, <1>4, <1>5, <1>6, <1>7, StageIsOver
<1>9. \A w \in Workers : ~Running(w)
  BY <1>1, LeadIsAlone DEF AtStep, Running
<1> QED
  BY <1>2, <1>3, <1>5, <1>8, <1>9, AllRest

\* BRAINSTORM: the thinkers are started, ...
LEMMA BrainstormKeeps ==
  ASSUME StagesInv, Brainstorm
  PROVE  StagesInv'
<1>1. planning.stage = 3 /\ planning.step = "start" /\ 3 \in 2..4 /\ UNCHANGED environment
  BY DEF Brainstorm, AtStep
<1>2. \A w \in Workers : ~Running(w)
  BY <1>1, LeadIsAlone DEF AtStep, StagesInv, WorkPlaced
<1>3. CASE Thinkers = {}
  BY <1>1, <1>2, <1>3, CoordinateKeeps DEF Brainstorm
<1>4. CASE Thinkers # {}
  <2>1. /\ planning' \in [stage : 1..4, step : Steps, round : Nat,
                          found : Reports \cup {"none", "filled", "fixed"}]
        /\ planning'.stage = planning.stage /\ planning'.step = "think"
    BY <1>4 DEF Brainstorm, Step, StagesInv, StagesTyped, Steps
  <2>2. UNCHANGED <<worker, copies, stageoff>> /\ "think" \in Steps \ {"code"}
    BY <1>4 DEF Brainstorm, handed, Steps
  <2>3. StagesHanded' /\ stageoff' \in Seq(Entries)
    BY <1>1, <2>1, <2>2, StageGoesOn
  <2> QED
    BY <1>1, <1>2, <2>1, <2>2, <2>3, NobodyTurns
<1> QED
  BY <1>3, <1>4

\* ... each reports, ...
LEMMA ThinksKeeps ==
  ASSUME StagesInv, NEW t \in Thinkers, Thinks(t)
  PROVE  StagesInv'
<1>1. /\ "think" \in StageJobs \ {"none"} /\ t \in Workers /\ AtStep(3, "think")
      /\ sourceHas' \in Contained /\ halted' \in BOOLEAN /\ UNCHANGED <<planning, stageoff, runSetting>>
  BY WorkersApart DEF StageJobs, Thinks, StagesInv, StagesTyped, environment, handed
<1> DEFINE x == Begun("think")
<1>2. worker' = [worker EXCEPT ![t] = x] /\ copies' = copies \cup {t}
  BY DEF Thinks
<1>3. x \in Works /\ x.pc = "runs" /\ x.job = "think" /\ WorkSound(x, runSetting.web)
  BY <1>1, WorkBegins DEF StagesInv
<1> HIDE DEF x
<1> QED
  BY <1>1, <1>2, <1>3, WorkChanges

\* Every thinker has had its say.
LEMMA RoundDoneKeeps ==
  ASSUME StagesInv, RoundDone
  PROVE  StagesInv'
<1>1. planning.stage = 3 /\ planning.step = "think" /\ UNCHANGED <<handed, environment>>
      /\ \A t \in Thinkers : worker[t].pc = "done"
  BY DEF RoundDone, AtStep
<1>2. \A w \in Workers \ {Lead} : ~Running(w)
  BY <1>1, WorkersApart DEF StagesInv, WorkPlaced, AtStep, Running
<1>3. ASSUME NEW s \in {"operate", "synthesize"}, Step(s), Starts(s)
      PROVE  StagesInv'
  <2>1. /\ planning' \in [stage : 1..4, step : Steps, round : Nat,
                          found : Reports \cup {"none", "filled", "fixed"}]
        /\ planning'.stage = planning.stage /\ planning'.step = s
    BY <1>3 DEF Step, StagesInv, StagesTyped, Steps
  <2>2. s \in StageJobs \ {"none"} /\ s \in {"plan", "coordinate", "operate", "synthesize"} /\ s # "coordinate"
        /\ planning.stage # 1 /\ planning.step # "code"
    <3>1. s \in StageJobs \ {"none"}
      BY <1>3 DEF StageJobs
    <3>2. s \in {"plan", "coordinate", "operate", "synthesize"} /\ s # "coordinate"
      BY <1>3
    <3>3. planning.stage # 1 /\ planning.step # "code"
      BY <1>1
    <3> QED
      BY <3>1, <3>2, <3>3
  <2> QED
    BY <1>1, <1>2, <1>3, <2>1, <2>2, LeadStarts
<1> QED
  BY <1>3 DEF RoundDone

\* ... the operator brings a round together, ...
LEMMA OperatedKeeps ==
  ASSUME StagesInv, Operated
  PROVE  StagesInv'
<1>1. planning.stage = 3 /\ planning.step = "operate" /\ UNCHANGED <<handed, environment>>
      /\ worker[Lead].pc = "done"
  BY DEF Operated, AtStep, LeadDone
<1>2. \A w \in Workers : ~Running(w)
  BY <1>1, LeadIsAlone DEF AtStep, Running
<1>3. CASE Said(Lead) # "none" /\ planning.round < Rounds
  <2>1. planning.round + 1 \in Nat
    BY DEF StagesInv, StagesTyped
  <2>2. planning' = [planning EXCEPT !.step = "think", !.round = planning.round + 1]
    BY <1>3 DEF Operated, StagesInv, StagesTyped
  <2>3. /\ planning' \in [stage : 1..4, step : Steps, round : Nat,
                          found : Reports \cup {"none", "filled", "fixed"}]
        /\ planning'.stage = planning.stage /\ planning'.step = "think"
    BY <2>1, <2>2 DEF StagesInv, StagesTyped, Steps
  <2>4. worker' = [w \in Workers |-> NoWork] /\ UNCHANGED copies /\ "think" \in Steps \ {"code"}
        /\ UNCHANGED stageoff
    BY <1>1, <1>3 DEF Operated, Steps, handed
  <2>5. StagesHanded' /\ stageoff' \in Seq(Entries)
    BY <1>1, <2>3, <2>4, StageGoesOn
  <2> QED
    BY <1>1, <1>2, <2>3, <2>4, <2>5, AllRest
<1>4. CASE Step("synthesize") /\ Starts("synthesize")
  <2>1. /\ planning' \in [stage : 1..4, step : Steps, round : Nat,
                          found : Reports \cup {"none", "filled", "fixed"}]
        /\ planning'.stage = planning.stage /\ planning'.step = "synthesize"
    BY <1>4 DEF Step, StagesInv, StagesTyped, Steps
  <2>2. /\ "synthesize" \in StageJobs \ {"none"}
        /\ "synthesize" \in {"plan", "coordinate", "operate", "synthesize"}
        /\ planning.stage # 1 /\ planning.step # "code"
    BY <1>1 DEF StageJobs
  <2> QED
    BY <1>1, <1>2, <1>4, <2>1, <2>2, LeadStarts
<1> QED
  BY <1>3, <1>4 DEF Operated

\* ... and after the last one they are synthesized, at most in two attempts.
LEMMA SynthesizedKeeps ==
  ASSUME StagesInv, Synthesized
  PROVE  StagesInv'
<1>1. 3 \in 2..4
  OBVIOUS
<1>2. planning.stage = 3 /\ planning.step = "synthesize" /\ UNCHANGED environment
      /\ worker[Lead].pc = "done" /\ 3 \in 2..4
  BY <1>1, Zenon DEF Synthesized, AtStep, LeadDone
<1>3. \A w \in Workers : ~Running(w)
  BY <1>2, LeadIsAlone DEF AtStep, Running
<1>4. CASE Starts("synthesize again") /\ UNCHANGED <<planning, handed>>
  <2>1. /\ planning' \in [stage : 1..4, step : Steps, round : Nat,
                          found : Reports \cup {"none", "filled", "fixed"}]
        /\ planning'.stage = planning.stage /\ planning'.step = "synthesize"
    BY <1>2, <1>4 DEF StagesInv, StagesTyped
  <2>2. /\ "synthesize again" \in StageJobs \ {"none"}
        /\ "synthesize" \in {"plan", "coordinate", "operate", "synthesize"}
        /\ planning.stage # 1 /\ planning.step # "code"
    BY <1>2 DEF StageJobs
  <2> QED
    BY <1>2, <1>3, <1>4, <2>1, <2>2, LeadStarts
<1>5. CASE Coordinate(3)
  BY <1>2, <1>3, <1>5, CoordinateKeeps
<1> QED
  BY <1>4, <1>5 DEF Synthesized

\* PLAN_CODE: the lead plans the CODE stage, ...
LEMMA PlanCodeKeeps ==
  ASSUME StagesInv, PlanCode
  PROVE  StagesInv'
<1>1. planning.stage = 4 /\ planning.step = "start" /\ UNCHANGED <<handed, environment>>
      /\ Starts("plan_code")
  BY DEF PlanCode, AtStep
<1>2. \A w \in Workers : ~Running(w)
  BY <1>1, LeadIsAlone DEF AtStep, StagesInv, WorkPlaced
<1>3. /\ planning' \in [stage : 1..4, step : Steps, round : Nat,
                        found : Reports \cup {"none", "filled", "fixed"}]
      /\ planning'.stage = planning.stage /\ planning'.step = "plan"
  BY DEF PlanCode, Step, StagesInv, StagesTyped, Steps
<1>4. /\ "plan_code" \in StageJobs \ {"none"}
      /\ "plan" \in {"plan", "coordinate", "operate", "synthesize"}
      /\ planning.stage # 1 /\ planning.step # "code"
  BY <1>1 DEF StageJobs
<1> QED
  BY <1>1, <1>2, <1>3, <1>4, LeadStarts

\* ... which then begins.
LEMMA CodePlannedKeeps ==
  ASSUME StagesInv, CodePlanned
  PROVE  StagesInv'
<1>1. planning.stage = 4 /\ planning.step = "plan" /\ UNCHANGED environment
      /\ worker[Lead].pc = "done" /\ 4 \in 2..4
  BY DEF CodePlanned, AtStep, LeadDone
<1>2. \A w \in Workers : ~Running(w)
  BY <1>1, LeadIsAlone DEF AtStep, Running
<1>3. CASE Said(Lead) = "none"
  <2>1. /\ planning' \in [stage : 1..4, step : Steps, round : Nat,
                          found : Reports \cup {"none", "filled", "fixed"}]
        /\ planning'.stage = planning.stage /\ planning'.step = "failed"
    BY <1>3 DEF CodePlanned, Fail, StagesInv, StagesTyped, Steps
  <2>2. UNCHANGED <<worker, copies, stageoff>> /\ "failed" \in Steps \ {"code"}
    BY <1>3 DEF CodePlanned, handed, Steps
  <2>3. StagesHanded' /\ stageoff' \in Seq(Entries)
    BY <1>1, <2>1, <2>2, StageGoesOn
  <2> QED
    BY <1>1, <1>2, <2>1, <2>2, <2>3, NobodyTurns
<1>4. CASE Coordinate(4)
  BY <1>1, <1>2, <1>4, CoordinateKeeps
<1> QED
  BY <1>3, <1>4 DEF CodePlanned

\* The user stops the run, or puts files in the workspace.
LEMMA InterferesKeeps ==
  ASSUME StagesInv, UNCHANGED <<planning, worker, stageoff, copies>>,
         sourceHas' \in Contained, halted' \in BOOLEAN, UNCHANGED runSetting
  PROVE  StagesInv'
<1>1. StagesTyped'
  BY DEF StagesInv, StagesTyped
<1>2. StagesHanded'
  BY DEF StagesInv, StagesHanded
<1>3. WorkPlaced'
  BY DEF StagesInv, WorkPlaced, Running, AtStep
<1> QED
  BY <1>1, <1>2, <1>3 DEF StagesInv

\* The invariant holds of every stage.
LEMMA StagesInvariant == StagesSpec => []StagesInv
<1>1. StagesInit => StagesInv
  BY StagesInitInv
<1>2. StagesInv /\ [StagesNext]_stagesVars => StagesInv'
  <2> SUFFICES ASSUME StagesInv, [StagesNext]_stagesVars
               PROVE  StagesInv'
    OBVIOUS
  <2>1. CASE \E w \in Workers : \/ \E report \in ReportsOf(worker[w].job) : Completes(w, report)
                               \/ RunFails(w) \/ RunPauses(w) \/ Resumes(w)
    BY <2>1, WorkGoesOn, ReportsAre
  <2>2. CASE Crashes
    BY <2>2, StagesCrashKeeps
  <2>3. CASE PlanResearch
    BY <2>3, PlanResearchKeeps
  <2>4. CASE ResearchPlanned
    BY <2>4, ResearchPlannedKeeps
  <2>5. CASE Research
    BY <2>5, ResearchKeeps
  <2>6. CASE \E r \in Researchers : Researches(r)
    BY <2>6, ResearchesKeeps
  <2>7. CASE ResearchDone
    BY <2>7, ResearchDoneKeeps
  <2>8. CASE Coordinated
    BY <2>8, CoordinatedKeeps
  <2>9. CASE Brainstorm
    BY <2>9, BrainstormKeeps
  <2>10. CASE \E t \in Thinkers : Thinks(t)
    BY <2>10, ThinksKeeps
  <2>11. CASE RoundDone
    BY <2>11, RoundDoneKeeps
  <2>12. CASE Operated
    BY <2>12, OperatedKeeps
  <2>13. CASE Synthesized
    BY <2>13, SynthesizedKeeps
  <2>14. CASE PlanCode
    BY <2>14, PlanCodeKeeps
  <2>15. CASE CodePlanned
    BY <2>15, CodePlannedKeeps
  <2>16. CASE Interferes \/ UNCHANGED stagesVars
    <3>1. /\ UNCHANGED <<planning, worker, stageoff, copies, runSetting>>
          /\ sourceHas' \in Contained /\ halted' \in BOOLEAN
      BY <2>16 DEF Interferes, stagesVars, handed, StagesInv, StagesTyped, Contained
    <3> QED
      BY <3>1, InterferesKeeps
  <2> QED
    BY <2>1, <2>2, <2>3, <2>4, <2>5, <2>6, <2>7, <2>8, <2>9, <2>10, <2>11, <2>12, <2>13, <2>14, <2>15,
       <2>16 DEF StagesNext
<1> QED
  BY <1>1, <1>2, PTL DEF StagesSpec

(* However many workers fail, are resumed or repaired and whoever interferes: no research  *)
(* report reaches the StageOff that recommends what is forbidden, or names a source nobody *)
(* read when the researchers may not use the web, nor a research plan that tells of work   *)
(* which an empty copy shows was not done; and coding begins with the output of all four   *)
(* stages, in their order, and with no model at work on a copy of the workspace            *)
(* (_run_team_pipeline() of aicoder/team_orchestrator.py).                                 *)
THEOREM PlansAreSound == StagesSpec => []PlanningIsSound
<1>1. StagesInv => PlanningIsSound
  <2> SUFFICES ASSUME StagesInv PROVE PlanningIsSound
    OBVIOUS
  <2>1. stageoff \in Seq(Entries) /\ DOMAIN stageoff = 1..Len(stageoff)
    BY DEF StagesInv, StagesTyped
  <2>2. NothingInvented
    BY <2>1 DEF NothingInvented, StagesInv, StagesHanded
  <2>3. \A k \in DOMAIN stageoff : stageoff[k].stage = k
    BY <2>1 DEF StagesInv, StagesHanded
  <2>4. ASSUME planning.step = "code" PROVE Len(stageoff) = Len(Order) /\ copies = {}
    <3>1. Len(stageoff) = 4 /\ Len(Order) = 4
      BY <2>4 DEF StagesInv, StagesHanded, Order
    <3>2. \A w \in Workers : ~Running(w)
      BY <2>4, WorkersApart DEF StagesInv, WorkPlaced, AtStep
    <3> QED
      BY <3>1, <3>2 DEF StagesInv, WorkPlaced
  <2> QED
    BY <2>2, <2>3, <2>4 DEF PlanningIsSound, CodingIsPrepared
<1> QED
  BY <1>1, StagesInvariant, PTL

\* Rounds, repairs, and the stage that the working memory is of.
StagesBounded ==
  /\ planning.round \in 1..Rounds /\ memory \in 0..4
  /\ \A w \in Workers : worker[w].repairs <= 4

\* What a worker begins with needs no repair yet, ...
LEMMA NothingRepaired ==
  \A job : /\ NoWork.repairs = 0 /\ Begun(job).repairs = 0 /\ Fixed(job).repairs = 0
           /\ [NoWork EXCEPT !.pc = "done", !.job = "disabled"].repairs = 0
BY DEF NoWork, Begun, Fixed

\* ... and a report is asked for again four times at most.
LEMMA RepairsStayFew ==
  ASSUME StagesInv, NEW w \in Workers, worker[w].repairs <= 4,
         \/ \E report \in Reports : Completes(w, report)
         \/ RunFails(w) \/ RunPauses(w) \/ Resumes(w)
  PROVE  \A v \in Workers : worker'[v].repairs <= 4 \/ worker'[v] = worker[v]
<1>1. worker \in [Workers -> Works] /\ worker[w] \in Works /\ worker[w].repairs \in Nat
  BY DEF StagesInv, StagesTyped, Works
<1>2. \A report : Done(w, report) => \A v \in Workers : worker'[v].repairs = worker[v].repairs
  BY <1>1 DEF Done, Works
<1>3. CASE \E report \in Reports : Completes(w, report)
  <2>1. PICK report \in Reports : Completes(w, report)
    BY <1>3
  <2>2. \/ \E r : Done(w, r)
        \/ /\ worker[w].repairs < MaxRepairs(w)
           /\ worker' = [worker EXCEPT ![w].repairs = @ + 1, ![w].early = ~halted]
    BY <2>1 DEF Completes
  <2>3. MaxRepairs(w) \in {2, 4}
    BY DEF MaxRepairs
  <2>4. ASSUME worker[w].repairs < MaxRepairs(w),
               worker' = [worker EXCEPT ![w].repairs = @ + 1, ![w].early = ~halted]
        PROVE  \A v \in Workers : worker'[v].repairs <= 4 \/ worker'[v] = worker[v]
    <3> DEFINE x == [worker[w] EXCEPT !.repairs = worker[w].repairs + 1, !.early = ~halted]
    <3>1. worker' = [worker EXCEPT ![w] = x]
      BY <1>1, <2>4, Zenon
    <3>2. x.repairs = worker[w].repairs + 1
      BY <1>1 DEF Works
    <3> HIDE DEF x
    <3>3. x.repairs <= 4
      BY <1>1, <2>3, <2>4, <3>2
    <3> QED BY <1>1, <3>1, <3>3
  <2>5. ASSUME NEW r, Done(w, r)
        PROVE  \A v \in Workers : worker'[v].repairs <= 4 \/ worker'[v] = worker[v]
    <3>1. worker'[w].repairs <= 4
      BY <1>1, <1>2, <2>5
    <3>2. \A v \in Workers \ {w} : worker'[v] = worker[v]
      BY <1>1, <2>5 DEF Done
    <3> QED BY <3>1, <3>2
  <2> QED BY <2>2, <2>4, <2>5
<1>4. CASE RunFails(w) \/ RunPauses(w) \/ Resumes(w)
  <2>1. \/ \E r : Done(w, r)
        \/ worker' = [worker EXCEPT ![w].pc = "waits", ![w].resumes = @ + 1]
        \/ worker' = [worker EXCEPT ![w].pc = "runs", ![w].early = TRUE]
    BY <1>4 DEF RunFails, RunPauses, Resumes
  <2>2. worker'[w].repairs = worker[w].repairs
    <3>1. CASE \E r : Done(w, r)
      BY <1>2, <3>1
    <3>2. CASE worker' = [worker EXCEPT ![w].pc = "waits", ![w].resumes = @ + 1]
      BY <1>1, <3>2 DEF Works
    <3>3. CASE worker' = [worker EXCEPT ![w].pc = "runs", ![w].early = TRUE]
      BY <1>1, <3>3 DEF Works
    <3> QED BY <2>1, <3>1, <3>2, <3>3
  <2>3. \A v \in Workers \ {w} : worker'[v] = worker[v]
    BY <1>1, <2>1 DEF Done
  <2> QED BY <2>2, <2>3
<1> QED BY <1>3, <1>4

\* A step of the main thread gives work or takes it, and starts another round or stage.
LEMMA MainStaysBounded ==
  ASSUME StagesInv, StagesBounded,
         \/ Crashes \/ PlanResearch \/ ResearchPlanned \/ Research \/ (\E r \in Researchers : Researches(r))
         \/ ResearchDone \/ Coordinated \/ Brainstorm \/ (\E t \in Thinkers : Thinks(t)) \/ RoundDone
         \/ Operated \/ Synthesized \/ PlanCode \/ CodePlanned \/ Interferes
  PROVE  StagesBounded'
<1>1. worker \in [Workers -> Works] /\ Lead \in Workers
  BY DEF StagesInv, StagesTyped, Workers
<1> DEFINE Tame == \/ UNCHANGED worker
                   \/ worker' = [w \in Workers |-> NoWork]
                   \/ \E w \in Workers : \E x : worker' = [worker EXCEPT ![w] = x] /\ x.repairs = 0
                   \/ Done(Lead, "none")
<1>2. \A job : Starts(job) => Tame
  BY <1>1, NothingRepaired DEF Starts
<1>3. \A k : Coordinate(k) => Tame
  <2>1. \A job, w : w \in Workers /\ worker' = [worker EXCEPT ![w] = Fixed(job)] => Tame
    BY NothingRepaired
  <2>2. worker' = [worker EXCEPT ![Lead] = [NoWork EXCEPT !.pc = "done", !.job = "disabled"]] => Tame
    BY <1>1, NothingRepaired
  <2> QED BY <1>1, <1>2, <2>1, <2>2 DEF Coordinate
<1>4. Tame
  <2>1. \A job, w : w \in Workers /\ (\/ worker' = [worker EXCEPT ![w] = Fixed(job)]
                                     \/ worker' = [worker EXCEPT ![w] = Begun(job)]) => Tame
    BY NothingRepaired
  <2>2. CASE Crashes
    BY <2>2 DEF Crashes
  <2>3. CASE PlanResearch
    BY <1>1, <1>2, <2>1, <2>3 DEF PlanResearch
  <2>4. CASE ResearchPlanned \/ Research \/ Interferes
    BY <2>4 DEF ResearchPlanned, Research, Interferes
  <2>5. ASSUME NEW r \in Researchers, Researches(r) PROVE Tame
    BY <2>1, <2>5 DEF Researches, Workers
  <2>6. ASSUME NEW t \in Thinkers, Thinks(t) PROVE Tame
    BY <2>1, <2>6 DEF Thinks, Workers
  <2>7. CASE ResearchDone \/ Brainstorm
    BY <1>3, <2>7 DEF ResearchDone, Brainstorm
  <2>8. CASE Coordinated
    BY <2>8 DEF Coordinated, HandOverStage
  <2>9. CASE RoundDone \/ Operated \/ PlanCode
    BY <1>2, <2>9 DEF RoundDone, Operated, PlanCode
  <2>10. CASE Synthesized \/ CodePlanned
    BY <1>2, <1>3, <2>10 DEF Synthesized, CodePlanned
  <2> HIDE DEF Tame
  <2> QED BY <2>2, <2>3, <2>4, <2>5, <2>6, <2>7, <2>8, <2>9, <2>10
<1>5. \A w \in Workers : worker'[w].repairs <= 4
  <2>1. CASE Done(Lead, "none")
    BY <1>1, <2>1 DEF Done, Works, StagesBounded
  <2>2. CASE worker' = [w \in Workers |-> NoWork]
    BY <2>2, NothingRepaired
  <2>3. CASE \E w \in Workers : \E x : worker' = [worker EXCEPT ![w] = x] /\ x.repairs = 0
    BY <1>1, <2>3 DEF StagesBounded
  <2> QED BY <1>4, <2>1, <2>2, <2>3 DEF StagesBounded
<1>6. planning \in [stage : 1..4, step : Steps, round : Nat,
                   found : Reports \cup {"none", "filled", "fixed"}]
  BY DEF StagesInv, StagesTyped
<1>7. Rounds \in 1..5
  BY StagesAssumption
<1>8. planning'.round \in 1..Rounds
  <2> DEFINE Later == /\ planning.round < Rounds
                      /\ planning' = [planning EXCEPT !.step = "think", !.round = @ + 1]
  <2>1. \A s : Step(s) => planning'.round = planning.round
    BY <1>6 DEF Step
  <2>2. \A k : Stage(k) => planning'.round = planning.round
    BY <1>6 DEF Stage
  <2>3. \A k : Coordinate(k) => planning'.round = planning.round
    BY <1>6 DEF Coordinate
  <2>4. Fail => planning'.round = planning.round
    BY <1>6 DEF Fail
  <2>5. CASE Later
    BY <1>6, <1>7, <2>5 DEF StagesBounded
  <2>6. planning'.round = planning.round \/ Later
    <3>1. CASE Crashes \/ PlanResearch \/ ResearchPlanned \/ Research \/ ResearchDone \/ Coordinated
      BY <3>1, <2>1, <2>2, <2>3, <2>4 DEF Crashes, PlanResearch, ResearchPlanned, Research, ResearchDone,
        Coordinated
    <3>2. CASE Brainstorm \/ RoundDone \/ PlanCode \/ CodePlanned \/ Synthesized
      BY <3>2, <2>1, <2>3, <2>4 DEF Brainstorm, RoundDone, PlanCode, CodePlanned, Synthesized
    <3>3. CASE Operated
      BY <3>3, <2>1 DEF Operated
    <3>4. CASE Interferes \/ (\E r \in Researchers : Researches(r)) \/ (\E t \in Thinkers : Thinks(t))
      BY <3>4 DEF Interferes, Researches, Thinks
    <3> HIDE DEF Later
    <3> QED BY <3>1, <3>2, <3>3, <3>4
  <2> HIDE DEF Later
  <2> QED BY <2>5, <2>6 DEF StagesBounded
<1>9. memory' \in 0..4
  <2>1. \A k : Coordinate(k) => UNCHANGED memory
    BY DEF Coordinate, handed
  <2>2. CASE ResearchPlanned
    BY <2>2 DEF ResearchPlanned, StagesBounded, handed
  <2>3. CASE Coordinated
    BY <1>6, <2>3 DEF Coordinated, HandOverStage, StagesBounded
  <2>4. CASE Crashes \/ PlanResearch \/ Research \/ RoundDone \/ Operated \/ PlanCode \/ Interferes
    BY <2>4 DEF Crashes, PlanResearch, Research, RoundDone, Operated, PlanCode, Interferes, StagesBounded, handed
  <2>5. CASE ResearchDone \/ Brainstorm \/ Synthesized \/ CodePlanned
    BY <2>1, <2>5 DEF ResearchDone, Brainstorm, Synthesized, CodePlanned, StagesBounded, handed
  <2>6. CASE (\E r \in Researchers : Researches(r)) \/ (\E t \in Thinkers : Thinks(t))
    BY <2>6 DEF Researches, Thinks, StagesBounded, handed
  <2> QED BY <2>2, <2>3, <2>4, <2>5, <2>6
<1> QED BY <1>5, <1>8, <1>9 DEF StagesBounded

\* A stage has one to four, a round no more than the setting, a report is asked for again
\* four times at most, and the copies that exist are those of the models at work
\* (_run_team_pipeline() and _run_researcher() of aicoder/team_orchestrator.py).
THEOREM StagesTypes == StagesSpec => []StagesTypeOK
<1>1. StagesInit => StagesBounded
  BY NothingRepaired, StagesAssumption DEF StagesInit, StagesBounded
<1>2. StagesInv /\ StagesBounded /\ [StagesNext]_stagesVars => StagesBounded'
  <2> SUFFICES ASSUME StagesInv, StagesBounded, [StagesNext]_stagesVars PROVE StagesBounded'
    OBVIOUS
  <2>1. CASE UNCHANGED stagesVars
    BY <2>1 DEF stagesVars, StagesBounded
  <2>2. ASSUME NEW w \in Workers,
               (\E report \in Reports : Completes(w, report)) \/ RunFails(w) \/ RunPauses(w) \/ Resumes(w)
        PROVE  StagesBounded'
    <3>1. UNCHANGED <<planning, memory>>
      BY <2>2 DEF Completes, RunFails, RunPauses, Resumes, handed
    <3>2. worker[w].repairs <= 4
      BY DEF StagesBounded
    <3>3. \A v \in Workers : worker'[v].repairs <= 4 \/ worker'[v] = worker[v]
      BY <2>2, <3>2, RepairsStayFew
    <3> QED BY <3>1, <3>3 DEF StagesBounded
  <2>3. CASE \E w \in Workers : \/ \E report \in ReportsOf(worker[w].job) : Completes(w, report)
                               \/ RunFails(w) \/ RunPauses(w) \/ Resumes(w)
    BY <2>2, <2>3, ReportsAre
  <2> QED BY <2>1, <2>3, MainStaysBounded DEF StagesNext
<1>3. StagesInv /\ StagesBounded => StagesTypeOK
  <2> SUFFICES ASSUME StagesInv, StagesBounded PROVE StagesTypeOK
    OBVIOUS
  <2>1. planning.stage \in 1..4 /\ DOMAIN Order = 1..4 /\ Len(Order) = 4
    BY DEF StagesInv, StagesTyped, Order
  <2>2. copies = {w \in Workers : worker[w].pc \in {"runs", "waits"}}
    BY DEF StagesInv, WorkPlaced, Running
  <2> QED BY <2>1, <2>2 DEF StagesTypeOK, StagesBounded
<1> QED BY <1>1, <1>2, <1>3, StagesInvariant, PTL DEF StagesSpec

================================================================================
