--------------------------- MODULE Records_proofs ---------------------------
(***************************************************************************)
(* What the records the agent and the teacher keep promise, for every      *)
(* value of their constants: passes and flakes, experiences and the        *)
(* training corpus with the lanes that fill it, tasks, cases.              *)
(***************************************************************************)
EXTENDS TeacherLoop, TrainingCorpus, TaskLedger, CommandCapture, CorpusLane,
        FiniteSetTheorems, WellFoundedInduction, TLAPS

-----------------------------------------------------------------------------
(* The wrapper qa run, for any commands and any overlap of shells: a pass  *)
(* counted on a case is a pass of its command after it was recorded.       *)

(* The shells that hold a pass of k they have not written yet. *)
Holders(k) == {s \in Shells : k \in shell[s].keys}

CapTyped == /\ seen \in [Keys -> Nat] /\ passes \in [Keys -> Nat] /\ due \in [Keys -> Nat]
            /\ runs \in 0..MaxRuns
            /\ shell \in [Shells -> [at : {"rest", "load", "save"}, keys : SUBSET Keys,
                                     rows : [Keys -> Nat]]]
            /\ \A s \in Shells : shell[s].at = "rest" => shell[s].keys = {}
            /\ \A k \in Keys : seen[k] <= runs /\ due[k] <= runs

(* Every pass in somebody's hands is due, besides those in the file and    *)
(* those of the copy that is about to become the file.                     *)
PassesCovered ==
    \A k \in Keys :
        /\ IsFiniteSet(Holders(k))
        /\ passes[k] + Cardinality(Holders(k)) <= due[k]
        /\ \A s \in Shells : shell[s].at = "save" =>
              shell[s].rows[k] + Cardinality(Holders(k) \ {s}) <= due[k]

(* One at a time: the one that runs accounts for the pass not yet written. *)
SingleExact ==
    single =>
        /\ \A s, t \in Shells : shell[s].at # "rest" /\ shell[t].at # "rest" => s = t
        /\ \A s \in Shells, k \in Keys :
              /\ shell[s].at = "load" =>
                    due[k] = passes[k] + (IF k \in shell[s].keys THEN 1 ELSE 0)
              /\ shell[s].at = "save" => shell[s].rows[k] = due[k]
        /\ (\A s \in Shells : shell[s].at = "rest") => \A k \in Keys : passes[k] = due[k]

CapInv == CapTyped /\ PassesCovered /\ SingleExact

LEMMA CapInvInit == CaptureInit => CapInv
<1> SUFFICES ASSUME CaptureInit PROVE CapInv
  OBVIOUS
<1>1. CapTyped
  BY CaptureAssumption DEF CapTyped, CaptureInit, NoPasses, AtRest
<1>2. ASSUME NEW k \in Keys PROVE Holders(k) = {}
  BY DEF Holders, CaptureInit, AtRest
<1>3. PassesCovered
  <2>1. ASSUME NEW k \in Keys
        PROVE IsFiniteSet(Holders(k)) /\ passes[k] + Cardinality(Holders(k)) <= due[k]
    <3>1. IsFiniteSet(Holders(k)) /\ Cardinality(Holders(k)) = 0
      BY <1>2, FS_EmptySet
    <3> QED
      BY <3>1 DEF CaptureInit, NoPasses
  <2> QED
    BY <2>1 DEF PassesCovered, CaptureInit, AtRest
<1>4. SingleExact
  BY DEF SingleExact, CaptureInit, NoPasses, AtRest
<1> QED
  BY <1>1, <1>3, <1>4 DEF CapInv

LEMMA RunFailsKeeps ==
    ASSUME CapInv, NEW s \in Shells, NEW k \in Keys, RunFails(s, k)
    PROVE  CapInv'
<1>1. CapTyped'
  <2>1. seen' \in [Keys -> Nat] /\ \A j \in Keys : seen'[j] <= seen[j] + 1
    <3>1. CASE seen' = seen
      BY <3>1 DEF CapInv, CapTyped
    <3>2. CASE seen' = [seen EXCEPT ![k] = @ + 1]
      BY <3>2 DEF CapInv, CapTyped
    <3> QED
      BY <3>1, <3>2 DEF RunFails
  <2>2. runs' \in 0..MaxRuns /\ runs' = runs + 1
    BY CaptureAssumption DEF CapInv, CapTyped, RunFails, MayRun
  <2> QED
    BY <2>1, <2>2 DEF CapInv, CapTyped, RunFails
<1>2. PassesCovered'
  <2>1. \A j \in Keys : Holders(j)' = Holders(j)
    BY DEF Holders, RunFails
  <2> QED
    BY <2>1 DEF CapInv, PassesCovered, RunFails
<1>3. SingleExact'
  BY DEF CapInv, SingleExact, RunFails
<1> QED
  BY <1>1, <1>2, <1>3 DEF CapInv

LEMMA CaseGoesKeeps ==
    ASSUME CapInv, NEW k \in Keys, CaseGoes(k)
    PROVE  CapInv'
<1>1. CapTyped'
  BY DEF CapInv, CapTyped, CaseGoes
<1>2. PassesCovered'
  <2>1. \A j \in Keys : Holders(j)' = Holders(j)
    BY DEF Holders, CaseGoes
  <2> QED
    BY <2>1 DEF CapInv, PassesCovered, CaseGoes
<1>3. SingleExact'
  BY DEF CapInv, SingleExact, CaseGoes
<1> QED
  BY <1>1, <1>2, <1>3 DEF CapInv

LEMMA RunPassesKeeps ==
    ASSUME CapInv, NEW s \in Shells, NEW c \in Commands, RunPasses(s, c)
    PROVE  CapInv'
<1> DEFINE extra(k) == IF k \in Matched(c) THEN 1 ELSE 0
<1>1. /\ shell[s].at = "rest" /\ shell[s].keys = {} /\ runs < MaxRuns
      /\ single => \A t \in Shells : shell[t].at = "rest"
  BY DEF CapInv, CapTyped, RunPasses, MayRun
<1>2. Matched(c) \subseteq Keys
  BY DEF Matched
<1>3. /\ runs' = runs + 1 /\ seen' = seen /\ passes' = passes /\ single' = single
      /\ \A k \in Keys : due'[k] = due[k] + extra(k)
      /\ due' \in [Keys -> Nat]
  BY DEF CapInv, CapTyped, RunPasses, Matched
<1>4. /\ shell'[s].keys = Matched(c) /\ shell'[s].at \in {"rest", "load"}
      /\ shell'[s].at = "rest" => Matched(c) = {}
      /\ shell'[s] \in [at : {"rest", "load", "save"}, keys : SUBSET Keys, rows : [Keys -> Nat]]
  BY <1>2 DEF CapInv, CapTyped, RunPasses, AtRest, NoPasses
<1>5. /\ \A t \in Shells \ {s} : shell'[t] = shell[t]
      /\ shell' = [shell EXCEPT ![s] = shell'[s]]
  BY DEF CapInv, CapTyped, RunPasses
<1> HIDE DEF extra
<1>6. \A k \in Keys : extra(k) \in {0, 1} /\ (extra(k) = 1 <=> k \in Matched(c))
  BY DEF extra
<1>7. CapTyped'
  <2>1. shell' \in [Shells -> [at : {"rest", "load", "save"}, keys : SUBSET Keys, rows : [Keys -> Nat]]]
    BY <1>4, <1>5 DEF CapInv, CapTyped
  <2>2. \A t \in Shells : shell'[t].at = "rest" => shell'[t].keys = {}
    BY <1>4, <1>5 DEF CapInv, CapTyped
  <2>3. runs' \in 0..MaxRuns
    BY <1>1, <1>3, CaptureAssumption DEF CapInv, CapTyped
  <2>4. \A k \in Keys : seen'[k] <= runs' /\ due'[k] <= runs'
    BY <1>3, <1>6 DEF CapInv, CapTyped
  <2> QED
    BY <2>1, <2>2, <2>3, <2>4, <1>3 DEF CapInv, CapTyped
<1>8. ASSUME NEW k \in Keys
      PROVE  /\ Holders(k)' = IF k \in Matched(c) THEN Holders(k) \cup {s} ELSE Holders(k)
             /\ s \notin Holders(k)
  BY <1>1, <1>4, <1>5 DEF Holders
<1>9. ASSUME NEW k \in Keys, NEW H, H \subseteq Holders(k)
      PROVE  /\ IsFiniteSet(H) /\ Cardinality(H) \in Nat
             /\ IsFiniteSet(H \cup {s}) /\ Cardinality(H \cup {s}) = Cardinality(H) + 1
  <2>1. IsFiniteSet(Holders(k))
    BY DEF CapInv, PassesCovered
  <2>2. IsFiniteSet(H) /\ s \notin H
    BY <1>8, <1>9, <2>1, FS_Subset
  <2> QED
    BY <2>2, FS_AddElement, FS_CardinalityType
<1>10. PassesCovered'
  <2> SUFFICES ASSUME NEW k \in Keys
               PROVE  /\ IsFiniteSet(Holders(k)')
                      /\ passes'[k] + Cardinality(Holders(k)') <= due'[k]
                      /\ \A t \in Shells : shell'[t].at = "save" =>
                            shell'[t].rows[k] + Cardinality(Holders(k)' \ {t}) <= due'[k]
    BY DEF PassesCovered
  <2>1. /\ passes[k] \in Nat /\ due[k] \in Nat /\ passes[k] + Cardinality(Holders(k)) <= due[k]
        /\ IsFiniteSet(Holders(k)) /\ Cardinality(Holders(k)) \in Nat
    BY <1>9 DEF CapInv, PassesCovered, CapTyped
  <2>2. IsFiniteSet(Holders(k)') /\ Cardinality(Holders(k)') = Cardinality(Holders(k)) + extra(k)
    BY <1>8, <1>9, <2>1, <1>6
  <2>3. ASSUME NEW t \in Shells, shell'[t].at = "save"
        PROVE  shell'[t].rows[k] + Cardinality(Holders(k)' \ {t}) <= due'[k]
    <3>1. t # s /\ shell'[t] = shell[t]
      BY <2>3, <1>4, <1>5
    <3>2. /\ shell[t].rows[k] \in Nat
          /\ shell[t].rows[k] + Cardinality(Holders(k) \ {t}) <= due[k]
      BY <2>3, <3>1 DEF CapInv, CapTyped, PassesCovered
    <3>3. Cardinality(Holders(k) \ {t}) \in Nat
      BY <1>9
    <3>4. Holders(k)' \ {t} = IF k \in Matched(c) THEN (Holders(k) \ {t}) \cup {s} ELSE Holders(k) \ {t}
      BY <1>8, <3>1
    <3>5. Cardinality(Holders(k)' \ {t}) = Cardinality(Holders(k) \ {t}) + extra(k)
      BY <3>3, <3>4, <1>6, <1>9
    <3> QED
      BY <3>1, <3>2, <3>3, <3>5, <1>3, <1>6, <2>1
  <2> QED
    BY <2>1, <2>2, <2>3, <1>3, <1>6
<1>11. SingleExact'
  <2> SUFFICES ASSUME single
               PROVE  /\ \A t, u \in Shells : shell'[t].at # "rest" /\ shell'[u].at # "rest" => t = u
                      /\ \A t \in Shells, k \in Keys :
                            /\ shell'[t].at = "load" =>
                                  due'[k] = passes'[k] + (IF k \in shell'[t].keys THEN 1 ELSE 0)
                            /\ shell'[t].at = "save" => shell'[t].rows[k] = due'[k]
                      /\ (\A t \in Shells : shell'[t].at = "rest") => \A k \in Keys : passes'[k] = due'[k]
    BY <1>3 DEF SingleExact
  <2>1. \A t \in Shells \ {s} : shell'[t].at = "rest"
    BY <1>1, <1>5
  <2>2. \A k \in Keys : passes[k] = due[k] /\ due[k] \in Nat
    BY <1>1 DEF CapInv, SingleExact, CapTyped
  <2>3. \A k \in Keys : due'[k] = passes'[k] + (IF k \in shell'[s].keys THEN 1 ELSE 0)
    BY <2>2, <1>3, <1>4 DEF extra
  <2>4. shell'[s].at = "rest" => \A k \in Keys : passes'[k] = due'[k]
    BY <2>2, <1>3, <1>4 DEF extra
  <2> QED
    BY <2>1, <2>3, <2>4, <1>4
<1> QED
  BY <1>7, <1>10, <1>11 DEF CapInv

LEMMA LoadFlakesKeeps ==
    ASSUME CapInv, NEW s \in Shells, LoadFlakes(s)
    PROVE  CapInv'
<1> DEFINE mine(k) == IF k \in shell[s].keys THEN 1 ELSE 0
<1> DEFINE new == [at |-> "save", keys |-> shell[s].keys, rows |-> [k \in Keys |-> passes[k] + mine(k)]]
<1>0. /\ shell[s] \in [at : {"rest", "load", "save"}, keys : SUBSET Keys, rows : [Keys -> Nat]]
      /\ passes \in [Keys -> Nat] /\ DOMAIN shell = Shells
      /\ shell \in [Shells -> [at : {"rest", "load", "save"}, keys : SUBSET Keys, rows : [Keys -> Nat]]]
  BY DEF CapInv, CapTyped
<1>a. shell' = [shell EXCEPT ![s] = new]
  BY DEF LoadFlakes
<1>b. shell' = [shell EXCEPT ![s] = shell'[s]] /\ shell'[s] = new
  BY <1>a, <1>0
<1>1. /\ shell[s].at = "load" /\ seen' = seen /\ passes' = passes /\ due' = due /\ runs' = runs
      /\ single' = single
      /\ \A t \in Shells \ {s} : shell'[t] = shell[t]
      /\ shell'[s].at = "save" /\ shell'[s].keys = shell[s].keys
      /\ shell' = [shell EXCEPT ![s] = shell'[s]]
      /\ shell'[s].rows \in [Keys -> Nat]
      /\ \A k \in Keys : shell'[s].rows[k] = passes[k] + mine(k)
      /\ shell'[s] \in [at : {"rest", "load", "save"}, keys : SUBSET Keys, rows : [Keys -> Nat]]
  <2>1. new.rows \in [Keys -> Nat] /\ \A k \in Keys : new.rows[k] = passes[k] + mine(k)
    BY <1>0
  <2>2. shell[s].at = "load" /\ UNCHANGED <<seen, passes, runs, due, single>>
    BY DEF LoadFlakes
  <2>3. \A t \in Shells \ {s} : shell'[t] = shell[t]
    BY <1>a, <1>0
  <2> QED
    BY <1>0, <1>b, <2>1, <2>2, <2>3
<1> HIDE DEF new
<1>2. CapTyped'
  BY <1>1 DEF CapInv, CapTyped
<1>3. \A k \in Keys : Holders(k)' = Holders(k)
  BY <1>1 DEF Holders
<1>4. PassesCovered'
  <2> SUFFICES ASSUME NEW k \in Keys, NEW t \in Shells, shell'[t].at = "save"
               PROVE  shell'[t].rows[k] + Cardinality(Holders(k) \ {t}) <= due[k]
    BY <1>1, <1>3 DEF CapInv, PassesCovered
  <2>1. CASE t # s
    BY <2>1, <1>1 DEF CapInv, PassesCovered
  <2>2. CASE t = s
    <3>1. /\ IsFiniteSet(Holders(k)) /\ passes[k] + Cardinality(Holders(k)) <= due[k]
          /\ passes[k] \in Nat /\ due[k] \in Nat
      BY DEF CapInv, PassesCovered, CapTyped
    <3>2. /\ Cardinality(Holders(k)) \in Nat
          /\ Cardinality(Holders(k) \ {s}) = IF s \in Holders(k) THEN Cardinality(Holders(k)) - 1
                                                                 ELSE Cardinality(Holders(k))
      BY <3>1, FS_CardinalityType, FS_RemoveElement
    <3>3. s \in Holders(k) <=> k \in shell[s].keys
      BY DEF Holders
    <3> QED
      BY <3>1, <3>2, <3>3, <1>1, <2>2
  <2> QED
    BY <2>1, <2>2
<1>5. SingleExact'
  <2>1. single => \A k \in Keys : due[k] = passes[k] + mine(k)
    BY <1>1 DEF CapInv, SingleExact
  <2>2. single => \A t \in Shells \ {s} : shell[t].at = "rest"
    BY <1>1 DEF CapInv, SingleExact
  <2> QED
    BY <1>1, <2>1, <2>2 DEF SingleExact
<1> QED
  BY <1>2, <1>4, <1>5 DEF CapInv

LEMMA SaveFlakesKeeps ==
    ASSUME CapInv, NEW s \in Shells, SaveFlakes(s)
    PROVE  CapInv'
<1>1. /\ shell[s].at = "save" /\ seen' = seen /\ passes' = shell[s].rows /\ due' = due
      /\ runs' = runs /\ single' = single
      /\ \A t \in Shells \ {s} : shell'[t] = shell[t]
      /\ shell'[s] = AtRest
      /\ shell' = [shell EXCEPT ![s] = AtRest]
  BY DEF CapInv, CapTyped, SaveFlakes
<1>2. AtRest \in [at : {"rest", "load", "save"}, keys : SUBSET Keys, rows : [Keys -> Nat]]
  BY DEF AtRest, NoPasses
<1>3. CapTyped'
  BY <1>1, <1>2 DEF CapInv, CapTyped, AtRest
<1>4. \A k \in Keys : Holders(k)' = Holders(k) \ {s}
  BY <1>1 DEF Holders, AtRest
<1>5. PassesCovered'
  <2> SUFFICES ASSUME NEW k \in Keys
               PROVE  /\ IsFiniteSet(Holders(k)')
                      /\ passes'[k] + Cardinality(Holders(k)') <= due'[k]
                      /\ \A t \in Shells : shell'[t].at = "save" =>
                            shell'[t].rows[k] + Cardinality(Holders(k)' \ {t}) <= due'[k]
    BY DEF PassesCovered
  <2>1. IsFiniteSet(Holders(k)) /\ due[k] \in Nat
    BY DEF CapInv, PassesCovered, CapTyped
  <2>2. IsFiniteSet(Holders(k)') /\ passes'[k] + Cardinality(Holders(k)') <= due'[k]
    BY <1>1, <1>4, <2>1, FS_Subset DEF CapInv, PassesCovered
  <2>3. ASSUME NEW t \in Shells, shell'[t].at = "save"
        PROVE  shell'[t].rows[k] + Cardinality(Holders(k)' \ {t}) <= due'[k]
    <3>1. t # s /\ shell'[t] = shell[t]
      BY <1>1, <2>3 DEF AtRest
    <3>2. shell[t].rows[k] \in Nat /\ shell[t].rows[k] + Cardinality(Holders(k) \ {t}) <= due[k]
      BY <2>3, <3>1 DEF CapInv, PassesCovered, CapTyped
    <3>3. /\ IsFiniteSet(Holders(k) \ {t}) /\ Holders(k)' \ {t} \subseteq Holders(k) \ {t}
      BY <1>4, <2>1, FS_Subset
    <3>4. /\ Cardinality(Holders(k)' \ {t}) \in Nat /\ Cardinality(Holders(k) \ {t}) \in Nat
          /\ Cardinality(Holders(k)' \ {t}) <= Cardinality(Holders(k) \ {t})
      BY <3>3, FS_Subset, FS_CardinalityType
    <3> QED
      BY <3>1, <3>2, <3>4, <1>1, <2>1
  <2> QED
    BY <2>2, <2>3
<1>6. SingleExact'
  <2>1. single => \A k \in Keys : shell[s].rows[k] = due[k]
    BY <1>1 DEF CapInv, SingleExact
  <2>2. single => \A t \in Shells \ {s} : shell[t].at = "rest"
    BY <1>1 DEF CapInv, SingleExact
  <2> QED
    BY <1>1, <2>1, <2>2 DEF SingleExact, AtRest
<1> QED
  BY <1>3, <1>5, <1>6 DEF CapInv

LEMMA CapInvStep == CapInv /\ [CaptureNext]_captureVars => CapInv'
<1>1. ASSUME CapInv, UNCHANGED captureVars PROVE CapInv'
  <2>1. \A k \in Keys : Holders(k)' = Holders(k)
    BY <1>1 DEF Holders, captureVars
  <2> QED
    BY <1>1, <2>1 DEF CapInv, CapTyped, PassesCovered, SingleExact, captureVars
<1> QED
  BY <1>1, RunFailsKeeps, RunPassesKeeps, LoadFlakesKeeps, SaveFlakesKeeps, CaseGoesKeeps
  DEF CaptureNext

LEMMA CapInvGives == CapInv => CaptureTypeOK /\ PassesAreEarned
<1> SUFFICES ASSUME CapInv PROVE CaptureTypeOK /\ PassesAreEarned
  OBVIOUS
<1>1. \A k \in Keys : /\ passes[k] \in Nat /\ due[k] \in Nat /\ seen[k] \in Nat
                      /\ passes[k] <= due[k]
  <2> TAKE k \in Keys
  <2>1. Cardinality(Holders(k)) \in Nat
    BY FS_CardinalityType DEF CapInv, PassesCovered
  <2>2. passes[k] \in Nat /\ due[k] \in Nat /\ seen[k] \in Nat
    BY DEF CapInv, CapTyped
  <2>3. passes[k] + Cardinality(Holders(k)) <= due[k]
    BY DEF CapInv, PassesCovered
  <2> QED
    BY <2>1, <2>2, <2>3
<1>2. CaptureTypeOK
  <2>1. MaxRuns \in Nat /\ runs \in 0..MaxRuns
    BY CaptureAssumption DEF CapInv, CapTyped
  <2>2. \A k \in Keys : seen[k] \in 0..MaxRuns /\ passes[k] \in 0..MaxRuns /\ due[k] \in 0..MaxRuns
    BY <1>1, <2>1 DEF CapInv, CapTyped
  <2> QED
    BY <2>1, <2>2 DEF CapInv, CapTyped, CaptureTypeOK
<1>3. FlakesAreEarned
  BY <1>1 DEF FlakesAreEarned, Chronic, Joined
<1>4. PassesKept
  BY DEF CapInv, CapTyped, SingleExact, PassesKept
<1> QED
  BY <1>2, <1>3, <1>4 DEF PassesAreEarned

(* The counts of qa run are numbers within the runs there were             *)
(* (auto_capture.py, flaky.py).                                            *)
THEOREM CaptureTypeCorrect == CaptureSpec => []CaptureTypeOK
  BY CapInvInit, CapInvStep, CapInvGives, PTL DEF CaptureSpec

(* No overlap of commands makes a failure look flakier than it is, and     *)
(* commands one after the other lose no pass, for any number of shells and *)
(* keys (flaky.observe_command_pass, is_chronic).                          *)
THEOREM PassesCounted == CaptureSpec => []PassesAreEarned
  BY CapInvInit, CapInvStep, CapInvGives, PTL DEF CaptureSpec

-----------------------------------------------------------------------------
(* The experience store and the corpus curated from it, for any runs,      *)
(* rows and overlap of sessions with the cleaner.                          *)

Actors == Recorders \cup Cleaners

HandRecords == [at : {"idle", "write", "replace"}, rows : StoreFiles, goal : Goals \cup {NoRow}]

StoreTyped ==
    /\ store \in StoreFiles /\ temp \in StoreFiles \cup {NoFile}
    /\ hand \in [Actors -> HandRecords]
    /\ \A p \in Recorders : hand[p].at # "idle" => hand[p].goal \in Goals
    /\ lock \in Recorders \cup {NoRow} /\ told \subseteq Goals
    /\ calls \in Nat /\ apart \in BOOLEAN

(* A pass is on record for exactly the kept whose steps are of a session   *)
(* that passed, wherever the kept are.                                     *)
Earned(kept) == \A g \in Goals : kept[g] # NoRow => (kept[g].proof <=> kept[g].steps = "proved")

RowsEarned == /\ Earned(store) /\ (temp # NoFile => Earned(temp))
              /\ \A p \in Actors : Earned(hand[p].rows)

Keeps(kept, goals) == \A g \in goals \ Noise : kept[g] # NoRow

(* Where curate() keeps apart: one recorder at work, behind the lock and   *)
(* with no curate() beside it; whatever may become the store keeps what    *)
(* was told, and the recorder's own file has its new lesson too.           *)
LessonsHeld ==
    apart => /\ \A p \in Recorders : hand[p].at # "idle" =>
                    lock = p /\ (\A c \in Cleaners : hand[c].at = "idle")
             /\ Keeps(store, told)
             /\ temp # NoFile => Keeps(temp, told)
             /\ \A p \in Actors : hand[p].at # "idle" => Keeps(hand[p].rows, told)
             /\ \A p \in Recorders : hand[p].at # "idle" => Keeps(hand[p].rows, {hand[p].goal})
             /\ \A p \in Recorders : hand[p].at = "replace" /\ temp # NoFile => temp = hand[p].rows

StoreInv == StoreTyped /\ RowsEarned /\ LessonsHeld

LEMMA EmptyFile == [g \in Goals |-> NoRow] \in StoreFiles /\ Earned([g \in Goals |-> NoRow])
  BY DEF StoreFiles, Earned

LEMMA StoreInvInit == StoreInit => StoreInv
<1> SUFFICES ASSUME StoreInit PROVE StoreInv
  OBVIOUS
<1>1. \A p \in Actors : hand[p] = Free
  BY DEF StoreInit, Actors
<1>2. Free \in HandRecords /\ Free.at = "idle" /\ Earned(Free.rows)
  BY EmptyFile DEF Free, HandRecords
<1>3. store \in StoreFiles /\ Earned(store)
  BY RowsAssumption DEF StoreInit, StoreFiles, Earned
<1>4. StoreTyped
  <2>1. hand \in [Actors -> HandRecords]
    BY <1>2 DEF StoreInit, Actors
  <2> QED
    BY <1>1, <1>2, <1>3, <2>1 DEF StoreInit, StoreTyped, Actors
<1>5. RowsEarned
  BY <1>1, <1>2, <1>3 DEF StoreInit, RowsEarned
<1>6. LessonsHeld
  BY <1>1, <1>2 DEF StoreInit, LessonsHeld, Keeps, Actors
<1> QED
  BY <1>4, <1>5, <1>6 DEF StoreInv

(* What a session or a claim teaches is a row, and earned. *)
LEMMA LessonIsEarned ==
    ASSUME NEW s \in Sessions
    PROVE  Lesson(s) \in Rows /\ (Lesson(s).proof <=> Lesson(s).steps = "proved")
<1>1. /\ s.state \in {"COMPLETED", "FAILED", "CANCELLED"} /\ s.attempts \in Seq(BOOLEAN)
      /\ \A i \in DOMAIN s.attempts :
            s.attempts[i] <=> s.state = "COMPLETED" /\ i = Len(s.attempts)
      /\ s.style \in Styles
  BY StoreAssumption, RowsAssumption
<1>2. TRUE \in {s.attempts[i] : i \in DOMAIN s.attempts} <=> s.state = "COMPLETED" /\ s.attempts # <<>>
  <2>1. ASSUME TRUE \in {s.attempts[i] : i \in DOMAIN s.attempts}
        PROVE  s.state = "COMPLETED" /\ s.attempts # <<>>
    <3>1. PICK i \in DOMAIN s.attempts : s.attempts[i]
      BY <2>1
    <3>2. s.state = "COMPLETED"
      BY <1>1, <3>1
    <3>3. s.attempts # <<>>
      BY <3>1
    <3> QED
      BY <3>2, <3>3
  <2>2. ASSUME s.state = "COMPLETED", s.attempts # <<>>
        PROVE  TRUE \in {s.attempts[i] : i \in DOMAIN s.attempts}
    <3>1. Len(s.attempts) \in DOMAIN s.attempts
      BY <1>1, <2>2
    <3>2. s.attempts[Len(s.attempts)] = TRUE
      BY <1>1, <2>2, <3>1
    <3> QED
      BY <3>1, <3>2
  <2> QED
    BY <2>1, <2>2
<1>3. Outcome(s) \in Outcomes
  BY DEF Outcome, Outcomes
<1>4. Lesson(s).proof <=> Lesson(s).steps = "proved"
  BY <1>2 DEF Lesson
<1>5. Lesson(s) \in Rows
  BY <1>1, <1>3 DEF Lesson, Rows
<1> QED
  BY <1>4, <1>5

LEMMA ClaimIsEarned ==
    ASSUME NEW o \in Claimed
    PROVE  Claim(o) \in Rows /\ (Claim(o).proof <=> Claim(o).steps = "proved")
  BY RowsAssumption DEF Claim, Rows, Outcomes, Styles

(* The file with a new lesson in it: what was kept and earned stays so.    *)
LEMMA LearntKeeps ==
    ASSUME StoreTyped, Earned(store), NEW g \in Goals,
           NEW new \in Rows, new.proof <=> new.steps = "proved"
    PROVE  /\ Learnt(g, new) \in StoreFiles /\ Earned(Learnt(g, new))
           /\ Learnt(g, new)[g] # NoRow
           /\ \A h \in Goals : store[h] # NoRow => Learnt(g, new)[h] # NoRow
<1> DEFINE row == IF store[g] = NoRow THEN new ELSE Reinforced(store[g], new)
<1>1. store \in [Goals -> Rows \cup {NoRow}]
  BY DEF StoreTyped, StoreFiles
<1>2. row \in Rows /\ (row.proof <=> row.steps = "proved")
  <2>1. CASE store[g] = NoRow
    BY <2>1
  <2>2. CASE store[g] # NoRow
    <3>1. store[g] \in Rows /\ (store[g].proof <=> store[g].steps = "proved")
      BY <1>1, <2>2 DEF Earned
    <3>2. new.outcome \in Outcomes
      BY DEF Rows
    <3>3. Reinforced(store[g], new) \in Rows
      BY <3>1, <3>2 DEF Reinforced, Rows
    <3>4. /\ Reinforced(store[g], new).proof = store[g].proof
          /\ Reinforced(store[g], new).steps = store[g].steps
      BY <3>1 DEF Reinforced, Rows
    <3> QED
      BY <2>2, <3>1, <3>3, <3>4
  <2> QED
    BY <2>1, <2>2
<1>3. Learnt(g, new) = [store EXCEPT ![g] = row]
  BY DEF Learnt
<1> HIDE DEF row
<1>4. row # NoRow
  BY <1>2, RowsAssumption
<1>5. Learnt(g, new) \in StoreFiles
  BY <1>1, <1>2, <1>3 DEF StoreFiles
<1>6. Earned(Learnt(g, new))
  BY <1>1, <1>2, <1>3 DEF Earned
<1> QED
  BY <1>1, <1>3, <1>4, <1>5, <1>6

LEMMA RecordLessonKeeps ==
    ASSUME StoreInv, NEW p \in Recorders, NEW g \in Goals,
           NEW new \in Rows, new.proof <=> new.steps = "proved", RecordLesson(p, g, new)
    PROVE  StoreInv'
<1> DEFINE rec == [at |-> "write", rows |-> Learnt(g, new), goal |-> g]
<1>1. /\ Learnt(g, new) \in StoreFiles /\ Earned(Learnt(g, new))
      /\ Learnt(g, new)[g] # NoRow
      /\ \A h \in Goals : store[h] # NoRow => Learnt(g, new)[h] # NoRow
  BY LearntKeeps DEF StoreInv, RowsEarned
<1>2. rec \in HandRecords
  BY <1>1 DEF HandRecords
<1>3. /\ hand' = [hand EXCEPT ![p] = rec] /\ hand[p].at = "idle" /\ lock = NoRow /\ lock' = p
      /\ calls' = calls + 1 /\ UNCHANGED <<store, temp, told, apart>>
      /\ apart => \A c \in Cleaners : hand[c].at = "idle"
  BY DEF RecordLesson, LockFree, Resting
<1>4. hand \in [Actors -> HandRecords] /\ p \in Actors
  BY DEF StoreInv, StoreTyped, Actors
<1>5. hand'[p] = rec /\ \A q \in Actors \ {p} : hand'[q] = hand[q]
  BY <1>3, <1>4
<1>6. rec.at = "write" /\ rec.rows = Learnt(g, new) /\ rec.goal = g
  OBVIOUS
<1> HIDE DEF rec
<1>7. StoreTyped'
  <2>1. hand' \in [Actors -> HandRecords]
    BY <1>2, <1>3, <1>4
  <2>2. \A q \in Recorders : hand'[q].at # "idle" => hand'[q].goal \in Goals
    BY <1>5, <1>6 DEF StoreInv, StoreTyped, Actors
  <2>3. calls' \in Nat
    BY <1>3 DEF StoreInv, StoreTyped
  <2> QED
    BY <2>1, <2>2, <2>3, <1>3 DEF StoreInv, StoreTyped
<1>8. RowsEarned'
  BY <1>1, <1>3, <1>5, <1>6 DEF StoreInv, RowsEarned, Earned
<1>9. LessonsHeld'
  <2> SUFFICES ASSUME apart PROVE LessonsHeld'
    BY <1>3 DEF LessonsHeld
  <2>1. \A q \in Recorders \ {p} : hand'[q].at = "idle"
    <3> SUFFICES ASSUME NEW q \in Recorders \ {p}, hand'[q].at # "idle" PROVE FALSE
      OBVIOUS
    <3>1. hand[q].at # "idle"
      BY <1>5 DEF Actors
    <3>2. lock = q
      BY <3>1 DEF StoreInv, LessonsHeld
    <3> QED
      BY <3>2, <1>3, RowsAssumption
  <2>2. \A c \in Cleaners : hand'[c].at = "idle" /\ c # p
    BY <1>3, <1>5, StoreAssumption DEF Actors
  <2>3. Keeps(Learnt(g, new), told) /\ Keeps(Learnt(g, new), {g})
    BY <1>1 DEF StoreInv, StoreTyped, LessonsHeld, Keeps
  <2>4. \A q \in Actors : hand'[q].at # "idle" => q = p
    BY <2>1, <2>2 DEF Actors
  <2>5. Keeps(store, told) /\ (temp # NoFile => Keeps(temp, told))
    BY DEF StoreInv, LessonsHeld
  <2> QED
    BY <1>3, <1>5, <1>6, <2>1, <2>2, <2>3, <2>4, <2>5 DEF LessonsHeld, Keeps, Actors
<1> QED
  BY <1>7, <1>8, <1>9 DEF StoreInv

LEMMA CleanKeeps ==
    ASSUME StoreInv, NEW p \in Cleaners, Clean(p)
    PROVE  StoreInv'
<1> DEFINE cleaned == [g \in Goals |-> IF g \in Noise THEN NoRow ELSE store[g]]
           rec == [at |-> "write", goal |-> NoRow, rows |-> cleaned]
<1>1. cleaned \in StoreFiles /\ Earned(cleaned) /\ Keeps(cleaned, {}) 
      /\ (Keeps(store, told) => Keeps(cleaned, told))
  BY DEF StoreInv, StoreTyped, RowsEarned, StoreFiles, Earned, Keeps
<1>2. rec \in HandRecords
  BY <1>1 DEF HandRecords
<1>3. /\ hand' = [hand EXCEPT ![p] = rec] /\ hand[p].at = "idle"
      /\ UNCHANGED <<store, temp, lock, told, calls, apart>>
      /\ apart => \A q \in Recorders : hand[q].at = "idle"
  BY DEF Clean, Resting
<1>4. hand \in [Actors -> HandRecords] /\ p \in Actors /\ p \notin Recorders
  BY StoreAssumption DEF StoreInv, StoreTyped, Actors
<1>5. hand'[p] = rec /\ \A q \in Actors \ {p} : hand'[q] = hand[q]
  BY <1>3, <1>4
<1>6. rec.at = "write" /\ rec.rows = cleaned
  OBVIOUS
<1> HIDE DEF rec, cleaned
<1>7. StoreTyped'
  <2>1. hand' \in [Actors -> HandRecords]
    BY <1>2, <1>3, <1>4
  <2>2. \A q \in Recorders : hand'[q].at # "idle" => hand'[q].goal \in Goals
    BY <1>4, <1>5 DEF StoreInv, StoreTyped, Actors
  <2> QED
    BY <2>1, <2>2, <1>3 DEF StoreInv, StoreTyped
<1>8. RowsEarned'
  BY <1>1, <1>3, <1>5, <1>6 DEF StoreInv, RowsEarned, Earned
<1>9. LessonsHeld'
  <2> SUFFICES ASSUME apart PROVE LessonsHeld'
    BY <1>3 DEF LessonsHeld
  <2>1. \A q \in Recorders : hand'[q].at = "idle"
    BY <1>3, <1>4, <1>5 DEF Actors
  <2>2. Keeps(cleaned, told)
    BY <1>1 DEF StoreInv, LessonsHeld
  <2>3. /\ Keeps(store, told) /\ (temp # NoFile => Keeps(temp, told))
        /\ \A q \in Actors : hand[q].at # "idle" => Keeps(hand[q].rows, told)
    BY DEF StoreInv, LessonsHeld
  <2>4. \A q \in Actors : hand'[q].at # "idle" => Keeps(hand'[q].rows, told)
    BY <1>5, <1>6, <2>2, <2>3
  <2> QED
    BY <1>3, <2>1, <2>3, <2>4 DEF LessonsHeld, Keeps
<1> QED
  BY <1>7, <1>8, <1>9 DEF StoreInv

LEMMA WriteTempKeeps ==
    ASSUME StoreInv, NEW p \in Actors, WriteTemp(p)
    PROVE  StoreInv'
<1>1. /\ hand[p].at = "write" /\ temp' = hand[p].rows
      /\ hand' = [hand EXCEPT ![p].at = "replace"]
      /\ UNCHANGED <<store, lock, told, calls, apart>>
  BY DEF WriteTemp
<1>2. hand \in [Actors -> HandRecords] /\ hand[p] \in HandRecords /\ hand[p].rows \in StoreFiles
  BY DEF StoreInv, StoreTyped, HandRecords
<1>3. /\ hand' \in [Actors -> HandRecords]
      /\ hand'[p].at = "replace" /\ hand'[p].rows = hand[p].rows /\ hand'[p].goal = hand[p].goal
      /\ \A q \in Actors \ {p} : hand'[q] = hand[q]
  BY <1>1, <1>2 DEF HandRecords
<1>4. /\ \A q \in Actors : /\ hand'[q].at # "idle" <=> hand[q].at # "idle"
                           /\ hand'[q].rows = hand[q].rows /\ hand'[q].goal = hand[q].goal
  BY <1>1, <1>3
<1>5. StoreTyped'
  BY <1>1, <1>2, <1>3, <1>4 DEF StoreInv, StoreTyped, Actors
<1>6. RowsEarned'
  BY <1>1, <1>4 DEF StoreInv, RowsEarned, Earned
<1>7. LessonsHeld'
  <2> SUFFICES ASSUME apart PROVE LessonsHeld'
    BY <1>1 DEF LessonsHeld
  <2>1. \A q \in Recorders : hand'[q].at # "idle" =>
            lock' = q /\ (\A c \in Cleaners : hand'[c].at = "idle")
    BY <1>1, <1>4 DEF StoreInv, LessonsHeld, Actors
  <2>2. Keeps(store, told)' /\ Keeps(temp, told)'
    BY <1>1 DEF StoreInv, LessonsHeld, Keeps
  <2>3. /\ \A q \in Actors : hand'[q].at # "idle" => Keeps(hand'[q].rows, told')
        /\ \A q \in Recorders : hand'[q].at # "idle" => Keeps(hand'[q].rows, {hand'[q].goal})
    BY <1>1, <1>4 DEF StoreInv, LessonsHeld, Actors
  <2>4. ASSUME NEW q \in Recorders, hand'[q].at = "replace" PROVE temp' = hand'[q].rows
    <3>1. CASE p \in Recorders
      BY <3>1, <2>1, <2>4, <1>3, <1>1
    <3>2. CASE p \in Cleaners
      BY <3>2, <2>1, <2>4, <1>3
    <3> QED
      BY <3>1, <3>2 DEF Actors
  <2> QED
    BY <2>1, <2>2, <2>3, <2>4 DEF LessonsHeld, Keeps
<1> QED
  BY <1>5, <1>6, <1>7 DEF StoreInv

LEMMA ReplaceKeeps ==
    ASSUME StoreInv, NEW p \in Actors, Replace(p)
    PROVE  StoreInv'
<1>1. /\ hand[p].at = "replace" /\ hand' = [hand EXCEPT ![p] = Free]
      /\ lock' = (IF lock = p THEN NoRow ELSE lock)
      /\ UNCHANGED <<calls, apart>>
      /\ \/ /\ temp # NoFile /\ store' = temp /\ temp' = NoFile
            /\ told' = IF p \in Recorders THEN told \cup {hand[p].goal} ELSE told
         \/ UNCHANGED <<store, temp, told>>
  BY DEF Replace
<1>2. /\ hand \in [Actors -> HandRecords] /\ Free \in HandRecords /\ Free.at = "idle"
      /\ Earned(Free.rows)
  BY EmptyFile DEF StoreInv, StoreTyped, HandRecords, Free
<1>3. /\ hand' \in [Actors -> HandRecords] /\ hand'[p] = Free
      /\ \A q \in Actors \ {p} : hand'[q] = hand[q]
  BY <1>1, <1>2
<1>4. StoreTyped'
  <2>1. told' \subseteq Goals
    BY <1>1 DEF StoreInv, StoreTyped
  <2>2. store' \in StoreFiles /\ temp' \in StoreFiles \cup {NoFile}
    BY <1>1 DEF StoreInv, StoreTyped
  <2>3. lock' \in Recorders \cup {NoRow}
    BY <1>1 DEF StoreInv, StoreTyped
  <2>4. \A q \in Recorders : hand'[q].at # "idle" => hand'[q].goal \in Goals
    BY <1>2, <1>3 DEF StoreInv, StoreTyped, Actors
  <2> QED
    BY <1>1, <1>3, <2>1, <2>2, <2>3, <2>4 DEF StoreInv, StoreTyped
<1>5. RowsEarned'
  <2>1. Earned(store)' /\ (temp' # NoFile => Earned(temp'))
    BY <1>1 DEF StoreInv, RowsEarned, Earned
  <2>2. \A q \in Actors : Earned(hand'[q].rows)
    BY <1>2, <1>3 DEF StoreInv, RowsEarned
  <2> QED
    BY <2>1, <2>2 DEF RowsEarned, Earned
<1>6. LessonsHeld'
  <2> SUFFICES ASSUME apart PROVE LessonsHeld'
    BY <1>1 DEF LessonsHeld
  <2> USE DEF StoreInv, LessonsHeld
  <2>1. \A q \in Actors : hand'[q].at # "idle" => q # p /\ hand'[q] = hand[q]
    BY <1>2, <1>3
  <2>2. \A q \in Recorders : hand'[q].at # "idle" =>
            lock' = q /\ (\A c \in Cleaners : hand'[c].at = "idle")
    BY <1>1, <1>2, <1>3, <2>1 DEF Actors
  <2>3. ASSUME p \in Recorders PROVE \A q \in Actors : hand'[q].at = "idle"
    BY <2>3, <1>1, <2>1 DEF Actors
  <2>4. Keeps(store, told)' /\ (temp' # NoFile => Keeps(temp, told)')
    BY <1>1 DEF Keeps
  <2>5. \A q \in Actors : hand'[q].at # "idle" => Keeps(hand'[q].rows, told')
    BY <1>1, <2>1, <2>3
  <2>6. \A q \in Recorders : hand'[q].at # "idle" => Keeps(hand'[q].rows, {hand'[q].goal})
    BY <2>1 DEF Actors
  <2>7. \A q \in Recorders : hand'[q].at = "replace" /\ temp' # NoFile => temp' = hand'[q].rows
    BY <1>1, <2>1 DEF Actors
  <2> QED
    BY <2>2, <2>4, <2>5, <2>6, <2>7 DEF Keeps
<1> QED
  BY <1>4, <1>5, <1>6 DEF StoreInv

LEMMA StoreInvStep == StoreInv /\ StoreNext => StoreInv'
<1> SUFFICES ASSUME StoreInv, StoreNext PROVE StoreInv'
  OBVIOUS
<1>1. ASSUME NEW p \in Recorders, Learn(p) PROVE StoreInv'
  BY <1>1, RecordLessonKeeps, LessonIsEarned, ClaimIsEarned DEF Learn
<1> QED
  BY <1>1, CleanKeeps, WriteTempKeeps, ReplaceKeeps DEF StoreNext, Actors

LEMMA StoreInvFrame == StoreInv /\ UNCHANGED storeVars => StoreInv'
  BY DEF StoreInv, StoreTyped, RowsEarned, LessonsHeld, Earned, Keeps, storeVars

-----------------------------------------------------------------------------
(* Least elements, and induction along the numbers up to n. *)
LEMMA LeastOf ==
    ASSUME NEW S, S \subseteq Nat, S # {}
    PROVE  Min(S) \in S /\ \A m \in S : Min(S) <= m
<1>1. IsWellFoundedOn(OpToRel(<, Nat), Nat)
  BY NatLessThanWellFounded
<1>2. PICK n \in S : \A m \in S : ~ (<<m, n>> \in OpToRel(<, Nat))
  BY <1>1, WFMin
<1>3. \A m \in S : ~(m < n)
  BY <1>2 DEF OpToRel
<1>4. \A m \in S : n <= m
  BY <1>3
<1> QED
  BY <1>4 DEF Min

LEMMA UpTo ==
    ASSUME NEW n \in Nat, NEW S, 0 \in S, \A k \in 0..n : k \in S /\ k < n => k + 1 \in S
    PROVE  \A k \in 0..n : k \in S
<1> DEFINE missing == {k \in 0..n : k \notin S}
<1> SUFFICES ASSUME missing # {} PROVE FALSE
  OBVIOUS
<1>1. missing \subseteq Nat
  OBVIOUS
<1> DEFINE m == Min(missing)
<1>2. m \in missing /\ \A k \in missing : m <= k
  BY <1>1, LeastOf
<1> HIDE DEF m
<1>3. m \in 0..n /\ m \notin S /\ m # 0
  BY <1>2
<1>4. m - 1 \in 0..n /\ m - 1 < n /\ (m - 1) + 1 = m /\ ~(m <= m - 1)
  BY <1>3
<1>5. m - 1 \in S
  BY <1>2, <1>4
<1> QED
  BY <1>3, <1>4, <1>5

(* A recursion along the numbers up to n has the values that one more step *)
(* gives.                                                                  *)
RunsBy(f, n, b, step) ==
    f = [i \in 0..n |-> IF i = 0 THEN b ELSE step[<<f[i - 1], i>>]]

LEMMA RunExists ==
    ASSUME NEW n \in Nat, NEW V, NEW b \in V, NEW step \in [V \X (1..n) -> V]
    PROVE  \E f \in [0..n -> V] : RunsBy(f, n, b, step)
<1> DEFINE done == {k \in 0..n : \E f \in [0..k -> V] : RunsBy(f, k, b, step)}
<1>1. 0 \in done
  <2> DEFINE f == [i \in 0..0 |-> b]
  <2>1. f \in [0..0 -> V] /\ 0 \in 0..n /\ \A i \in 0..0 : i = 0
    OBVIOUS
  <2>2. RunsBy(f, 0, b, step)
    BY <2>1 DEF RunsBy
  <2> QED
    BY <2>1, <2>2
<1>2. ASSUME NEW k \in 0..n, k \in done, k < n PROVE k + 1 \in done
  <2>1. PICK f \in [0..k -> V] : RunsBy(f, k, b, step)
    BY <1>2
  <2> DEFINE x == step[<<f[k], k + 1>>]
             g == [i \in 0..(k + 1) |-> IF i = k + 1 THEN x ELSE f[i]]
  <2>2. /\ k \in 0..k /\ k + 1 \in 1..n /\ k + 1 \in 0..n /\ k + 1 # 0 /\ (k + 1) - 1 = k
        /\ \A i \in 0..(k + 1) : i = k + 1 \/ (i \in 0..k /\ i # k + 1)
        /\ \A i \in 0..(k + 1) : i # 0 => i - 1 \in 0..(k + 1) /\ i - 1 # k + 1
    BY <1>2
  <2>3. x \in V
    BY <2>2
  <2> HIDE DEF x
  <2>4. g \in [0..(k + 1) -> V]
    BY <2>2, <2>3
  <2>5. \A i \in 0..k : f[i] = IF i = 0 THEN b ELSE step[<<f[i - 1], i>>]
    BY <2>1 DEF RunsBy
  <2>6. ASSUME NEW i \in 0..(k + 1)
        PROVE  g[i] = IF i = 0 THEN b ELSE step[<<g[i - 1], i>>]
    <3>1. i # 0 => g[i - 1] = f[i - 1]
      BY <2>2
    <3>2. CASE i = k + 1
      <4>1. i # 0 /\ i - 1 = k /\ g[i] = x
        BY <2>2, <3>2
      <4>2. g[i - 1] = f[k]
        BY <3>1, <4>1
      <4> HIDE DEF g
      <4> QED
        BY <3>2, <4>1, <4>2 DEF x
    <3>3. CASE i # k + 1
      <4>1. g[i] = f[i] /\ i \in 0..k
        BY <2>2, <3>3
      <4> HIDE DEF g
      <4> QED
        BY <2>5, <3>1, <4>1
    <3> QED
      BY <3>2, <3>3
  <2>7. g = [i \in 0..(k + 1) |-> g[i]]
    OBVIOUS
  <2> HIDE DEF g
  <2>8. g = [i \in 0..(k + 1) |-> IF i = 0 THEN b ELSE step[<<g[i - 1], i>>]]
    BY <2>6, <2>7
  <2>9. RunsBy(g, k + 1, b, step)
    BY <2>8 DEF RunsBy
  <2> QED
    BY <2>2, <2>4, <2>9
<1> HIDE DEF done
<1>3. n \in 0..n /\ \A k \in 0..n : k \in done
  BY <1>1, <1>2, UpTo
<1> QED
  BY <1>3 DEF done

-----------------------------------------------------------------------------
(* The budget of real trajectories, round by round. *)

Spending == [kept : [Tasks -> Nat], left : Nat]

LEMMA SpendTyped ==
    ASSUME NEW spent \in Spending, NEW task \in Tasks, NEW sizes
    PROVE  Spend(spent, task, sizes) \in Spending
<1>1. spent.kept \in [Tasks -> Nat] /\ spent.left \in Nat
  BY DEF Spending
<1>2. spent.kept[task] + 1 \in Nat
  BY <1>1
<1>3. [spent.kept EXCEPT ![task] = @ + 1] \in [Tasks -> Nat]
  BY <1>1, <1>2
<1>4. spent.left > 0 => spent.left - 1 \in Nat
  BY <1>1
<1> QED
  BY <1>3, <1>4 DEF Spend, Spending

(* A round is one turn after the other. *)
LEMMA RoundRuns ==
    ASSUME NEW spent \in Spending, NEW groups \in Seq(Tasks), NEW sizes \in [Tasks -> Nat]
    PROVE  \E f \in [0..Len(groups) -> Spending] :
              /\ f[0] = spent /\ Round(spent, groups, sizes) = f[Len(groups)]
              /\ \A i \in 1..Len(groups) : f[i] = Spend(f[i - 1], groups[i], sizes)
<1> DEFINE n == Len(groups)
           step == [p \in Spending \X (1..n) |-> Spend(p[1], groups[p[2]], sizes)]
           Is(f) == f = [i \in 0..n |-> IF i = 0 THEN spent ELSE Spend(f[i - 1], groups[i], sizes)]
           the == CHOOSE f : Is(f)
<1>1. n \in Nat /\ \A i \in 1..n : groups[i] \in Tasks
  OBVIOUS
<1>2. step \in [Spending \X (1..n) -> Spending]
  BY <1>1, SpendTyped
<1>3. \A a \in Spending, i \in 1..n : step[<<a, i>>] = Spend(a, groups[i], sizes)
  OBVIOUS
<1> HIDE DEF step, n
<1>4. PICK g \in [0..n -> Spending] : RunsBy(g, n, spent, step)
  BY <1>1, <1>2, RunExists
<1>5. Is(g)
  <2>1. ASSUME NEW i \in 0..n
        PROVE  g[i] = IF i = 0 THEN spent ELSE Spend(g[i - 1], groups[i], sizes)
    <3>1. CASE i = 0
      BY <1>4, <3>1 DEF RunsBy
    <3>2. CASE i # 0
      <4>1. i \in 1..n /\ i - 1 \in 0..n
        BY <1>1, <3>2
      <4>2. g[i - 1] \in Spending /\ g[i] = step[<<g[i - 1], i>>]
        BY <1>4, <3>2, <4>1 DEF RunsBy
      <4> QED
        BY <1>3, <3>2, <4>1, <4>2
    <3> QED
      BY <3>1, <3>2
  <2>2. g = [i \in 0..n |-> g[i]]
    OBVIOUS
  <2> QED
    BY <2>1, <2>2
<1> HIDE DEF Is
<1>6. Is(the)
  BY <1>5
<1>7. Round(spent, groups, sizes) = the[n]
  BY DEF Round, Is, n
<1> HIDE DEF the
<1>8. \A i \in 0..n : the[i] = IF i = 0 THEN spent ELSE Spend(the[i - 1], groups[i], sizes)
  BY <1>6 DEF Is
<1>9. \A i \in 0..n : the[i] \in Spending
  <2> DEFINE fine == {i \in 0..n : the[i] \in Spending}
  <2>1. 0 \in fine
    BY <1>1, <1>8
  <2>2. ASSUME NEW k \in 0..n, k \in fine, k < n PROVE k + 1 \in fine
    <3>1. k + 1 \in 0..n /\ k + 1 # 0 /\ (k + 1) - 1 = k /\ k + 1 \in 1..n
      BY <1>1, <2>2
    <3>2. the[k + 1] = Spend(the[k], groups[k + 1], sizes)
      BY <1>8, <3>1
    <3> QED
      BY <1>1, <2>2, <3>1, <3>2, SpendTyped
  <2> HIDE DEF fine
  <2>3. \A k \in 0..n : k \in fine
    BY <1>1, <2>1, <2>2, UpTo
  <2> QED
    BY <2>3 DEF fine
<1>10. the = [i \in 0..n |-> the[i]]
  BY <1>6 DEF Is
<1>11. the \in [0..n -> Spending]
  BY <1>9, <1>10
<1>12. 0 \in 0..n /\ \A i \in 1..n : i \in 0..n /\ i # 0
  BY <1>1
<1>13. the[0] = spent /\ \A i \in 1..n : the[i] = Spend(the[i - 1], groups[i], sizes)
  BY <1>8, <1>12
<1> QED
  BY <1>7, <1>11, <1>13 DEF n

(* Where V have had their turn in the round that follows r whole ones: who  *)
(* has more records than were kept of it has been given one in each round. *)
TurnsTaken(spent, sizes, r, V) ==
    \A t \in Tasks :
        /\ spent.kept[t] <= IF t \in V THEN r + 1 ELSE r
        /\ spent.kept[t] < sizes[t] =>
              spent.kept[t] >= r /\ (t \in V => spent.kept[t] >= r + 1 \/ spent.left = 0)

LEMMA SpendTakesTurn ==
    ASSUME NEW spent \in Spending, NEW sizes \in [Tasks -> Nat], NEW r \in Nat, NEW V,
           NEW g \in Tasks, g \notin V, TurnsTaken(spent, sizes, r, V)
    PROVE  TurnsTaken(Spend(spent, g, sizes), sizes, r, V \cup {g})
<1> DEFINE new == Spend(spent, g, sizes)
<1>1. spent.kept \in [Tasks -> Nat] /\ spent.left \in Nat
  BY DEF Spending
<1>2. \A t \in Tasks : spent.kept[t] \in Nat /\ sizes[t] \in Nat
  BY <1>1
<1>3. CASE spent.kept[g] < sizes[g] /\ spent.left > 0
  <2>1. new.kept = [spent.kept EXCEPT ![g] = spent.kept[g] + 1] /\ new.left = spent.left - 1
    BY <1>3 DEF Spend
  <2>2. new.kept[g] = spent.kept[g] + 1 /\ \A t \in Tasks : t # g => new.kept[t] = spent.kept[t]
    BY <1>1, <2>1
  <2> HIDE DEF new
  <2> SUFFICES ASSUME NEW t \in Tasks
               PROVE  /\ new.kept[t] <= IF t \in V \cup {g} THEN r + 1 ELSE r
                      /\ new.kept[t] < sizes[t] =>
                           new.kept[t] >= r /\ (t \in V \cup {g} => new.kept[t] >= r + 1 \/ new.left = 0)
    BY DEF TurnsTaken, new
  <2>3. CASE t = g
    <3>1. spent.kept[g] <= r /\ spent.kept[g] >= r
      BY <1>3 DEF TurnsTaken
    <3> QED
      BY <1>2, <2>2, <2>3, <3>1
  <2>4. CASE t # g
    <3>1. /\ spent.kept[t] <= IF t \in V THEN r + 1 ELSE r
          /\ spent.kept[t] < sizes[t] => spent.kept[t] >= r /\ (t \in V => spent.kept[t] >= r + 1)
      BY <1>1, <1>3 DEF TurnsTaken
    <3> QED
      BY <2>2, <2>4, <3>1
  <2> QED
    BY <2>3, <2>4
<1>4. CASE ~(spent.kept[g] < sizes[g] /\ spent.left > 0)
  <2>1. new = spent /\ (spent.kept[g] < sizes[g] => spent.left = 0)
    BY <1>1, <1>4 DEF Spend
  <2>2. ASSUME NEW t \in Tasks
        PROVE  /\ spent.kept[t] <= IF t \in V \cup {g} THEN r + 1 ELSE r
               /\ spent.kept[t] < sizes[t] =>
                    spent.kept[t] >= r /\ (t \in V \cup {g} => spent.kept[t] >= r + 1 \/ spent.left = 0)
    BY <1>2, <2>1 DEF TurnsTaken
  <2> HIDE DEF new
  <2>3. TurnsTaken(spent, sizes, r, V \cup {g})
    BY <2>2 DEF TurnsTaken
  <2> QED
    BY <2>1, <2>3 DEF new
<1> QED
  BY <1>3, <1>4

(* A list that has each task with records once: a round over it is one     *)
(* turn each, or nothing at all once the budget is spent.                   *)
TurnList(groups, sizes) ==
    /\ groups \in Seq(Tasks)
    /\ \A i, j \in DOMAIN groups : i # j => groups[i] # groups[j]
    /\ \A t \in Tasks : sizes[t] > 0 <=> \E i \in DOMAIN groups : groups[i] = t

LEMMA RoundTakesTurns ==
    ASSUME NEW sizes \in [Tasks -> Nat], NEW groups, TurnList(groups, sizes),
           NEW spent \in Spending, NEW r \in Nat, TurnsTaken(spent, sizes, r, {})
    PROVE  /\ Round(spent, groups, sizes) \in Spending
           /\ TurnsTaken(Round(spent, groups, sizes), sizes, r, {t \in Tasks : sizes[t] > 0})
<1> DEFINE n == Len(groups)
           V(i) == {groups[j] : j \in 1..i}
<1>1. groups \in Seq(Tasks) /\ n \in Nat /\ DOMAIN groups = 1..n
  BY DEF TurnList
<1>2. PICK f \in [0..n -> Spending] :
          /\ f[0] = spent /\ Round(spent, groups, sizes) = f[n]
          /\ \A i \in 1..n : f[i] = Spend(f[i - 1], groups[i], sizes)
  <2>1. groups \in Seq(Tasks)
    BY <1>1
  <2>2. \E f \in [0..Len(groups) -> Spending] :
          /\ f[0] = spent /\ Round(spent, groups, sizes) = f[Len(groups)]
          /\ \A i \in 1..Len(groups) : f[i] = Spend(f[i - 1], groups[i], sizes)
    BY <2>1, RoundRuns
  <2> QED
    BY <2>2
<1> HIDE DEF n
<1> DEFINE fine == {i \in 0..n : TurnsTaken(f[i], sizes, r, V(i))}
<1>3. 0 \in fine
  <2>1. V(0) = {} /\ 0 \in 0..n
    BY <1>1
  <2> HIDE DEF V
  <2> QED
    BY <1>2, <2>1
<1>4. ASSUME NEW k \in 0..n, k \in fine, k < n PROVE k + 1 \in fine
  <2>1. k + 1 \in 1..n /\ k + 1 \in 0..n /\ (k + 1) - 1 = k /\ 1..(k + 1) = (1..k) \cup {k + 1}
    BY <1>1, <1>4
  <2>a. \A j \in 1..k : j \in 1..n /\ j # k + 1
    BY <1>1, <1>4
  <2>b. groups[k + 1] \in Tasks
    BY <1>1, <2>1
  <2>c. \A j \in 1..k : groups[j] # groups[k + 1]
    BY <1>1, <2>1, <2>a DEF TurnList
  <2>2. groups[k + 1] \in Tasks /\ groups[k + 1] \notin V(k)
    BY <2>b, <2>c
  <2>3. V(k + 1) = V(k) \cup {groups[k + 1]}
    BY <2>1
  <2>4. f[k + 1] = Spend(f[k], groups[k + 1], sizes) /\ f[k] \in Spending
    BY <1>2, <2>1
  <2>5. TurnsTaken(f[k], sizes, r, V(k))
    BY <1>4
  <2> HIDE DEF V
  <2>6. TurnsTaken(f[k + 1], sizes, r, V(k + 1))
    BY <2>2, <2>3, <2>4, <2>5, SpendTakesTurn
  <2> QED
    BY <2>1, <2>6
<1> HIDE DEF fine
<1>5. n \in 0..n /\ \A k \in 0..n : k \in fine
  <2>1. n \in 0..n
    BY <1>1
  <2>2. \A k \in 0..n : k \in fine /\ k < n => k + 1 \in fine
    BY <1>4
  <2>3. n \in Nat
    BY <1>1
  <2>4. \A k \in 0..n : k \in fine
    BY <1>3, <2>2, <2>3, UpTo
  <2> QED
    BY <2>1, <2>4
<1>6. TurnsTaken(f[n], sizes, r, V(n)) /\ f[n] \in Spending
  BY <1>2, <1>5 DEF fine
<1>7. \A t \in Tasks : sizes[t] > 0 <=> t \in V(n)
  BY <1>1 DEF TurnList
<1> HIDE DEF V
<1>8. TurnsTaken(f[n], sizes, r, {t \in Tasks : sizes[t] > 0})
  <2> DEFINE W == {t \in Tasks : sizes[t] > 0}
             a == f[n]
  <2>1. a.kept \in [Tasks -> Nat]
    BY <1>6 DEF Spending
  <2> SUFFICES ASSUME NEW t \in Tasks
               PROVE  /\ a.kept[t] <= IF t \in W THEN r + 1 ELSE r
                      /\ a.kept[t] < sizes[t] =>
                           a.kept[t] >= r /\ (t \in W => a.kept[t] >= r + 1 \/ a.left = 0)
    BY DEF TurnsTaken
  <2>2. /\ a.kept[t] <= IF t \in V(n) THEN r + 1 ELSE r
        /\ a.kept[t] < sizes[t] =>
              a.kept[t] >= r /\ (t \in V(n) => a.kept[t] >= r + 1 \/ a.left = 0)
    BY <1>6 DEF TurnsTaken
  <2>3. t \in W <=> t \in V(n)
    BY <1>7
  <2> QED
    BY <2>2, <2>3
<1> QED
  BY <1>2, <1>6, <1>8
LEMMA RoundTyped ==
    ASSUME NEW spent \in Spending, NEW groups \in Seq(Tasks), NEW sizes \in [Tasks -> Nat]
    PROVE  Round(spent, groups, sizes) \in Spending
<1>1. Len(groups) \in Nat /\ Len(groups) \in 0..Len(groups)
  OBVIOUS
<1> QED
  BY <1>1, RoundRuns

(* Once the budget is spent, a round keeps nothing more. *)
LEMMA RoundSpent ==
    ASSUME NEW spent \in Spending, NEW groups \in Seq(Tasks), NEW sizes \in [Tasks -> Nat],
           spent.left = 0
    PROVE  Round(spent, groups, sizes) = spent
<1> DEFINE n == Len(groups)
<1>1. n \in Nat
  OBVIOUS
<1>2. PICK f \in [0..n -> Spending] :
          /\ f[0] = spent /\ Round(spent, groups, sizes) = f[n]
          /\ \A i \in 1..n : f[i] = Spend(f[i - 1], groups[i], sizes)
  BY RoundRuns
<1> HIDE DEF n
<1> DEFINE same == {i \in 0..n : f[i] = spent}
<1>3. 0 \in same
  BY <1>1, <1>2
<1>4. ASSUME NEW k \in 0..n, k \in same, k < n PROVE k + 1 \in same
  <2>1. k + 1 \in 1..n /\ k + 1 \in 0..n /\ (k + 1) - 1 = k
    BY <1>1, <1>4
  <2>2. f[k + 1] = Spend(spent, groups[k + 1], sizes)
    BY <1>2, <1>4, <2>1
  <2>3. Spend(spent, groups[k + 1], sizes) = spent
    BY DEF Spend
  <2> QED
    BY <2>1, <2>2, <2>3
<1> HIDE DEF same
<1>5. n \in 0..n /\ \A k \in 0..n : k \in same
  <2>1. n \in 0..n
    BY <1>1
  <2>2. \A k \in 0..n : k \in same /\ k < n => k + 1 \in same
    BY <1>4
  <2>3. \A k \in 0..n : k \in same
    BY <1>1, <1>3, <2>2, UpTo
  <2> QED
    BY <2>1, <2>3
<1> QED
  BY <1>2, <1>5 DEF same

(* Before the first round. *)
Unspent(budget) == [kept |-> [task \in Tasks |-> 0], left |-> budget]

(* The quota is one round after the other. *)
LEMMA QuotaRuns ==
    ASSUME NEW groups \in Seq(Tasks), NEW sizes \in [Tasks -> Nat], NEW budget \in Nat
    PROVE  \E f \in [0..budget -> Spending] :
              /\ f[0] = Unspent(budget)
              /\ Quota(groups, sizes, budget) = f[budget].kept
              /\ \A i \in 1..budget : f[i] = Round(f[i - 1], groups, sizes)
<1> DEFINE none == Unspent(budget)
           step == [p \in Spending \X (1..budget) |-> Round(p[1], groups, sizes)]
           Is(f) == f = [i \in 0..budget |-> IF i = 0 THEN none ELSE Round(f[i - 1], groups, sizes)]
           the == CHOOSE f : Is(f)
<1>0. DOMAIN sizes = Tasks
  OBVIOUS
<1>1. none \in Spending
  BY DEF Spending, Unspent
<1>2. step \in [Spending \X (1..budget) -> Spending]
  BY RoundTyped
<1>3. \A a \in Spending, i \in 1..budget : step[<<a, i>>] = Round(a, groups, sizes)
  OBVIOUS
<1>4. Quota(groups, sizes, budget) = the[budget].kept
  BY <1>0 DEF Quota, Unspent
<1> HIDE DEF step, none
<1>5. PICK g \in [0..budget -> Spending] : RunsBy(g, budget, none, step)
  BY <1>1, <1>2, RunExists
<1>6. Is(g)
  <2>1. ASSUME NEW i \in 0..budget
        PROVE  g[i] = IF i = 0 THEN none ELSE Round(g[i - 1], groups, sizes)
    <3>1. CASE i = 0
      BY <1>5, <3>1 DEF RunsBy
    <3>2. CASE i # 0
      <4>1. i \in 1..budget /\ i - 1 \in 0..budget
        BY <3>2
      <4>2. g[i - 1] \in Spending /\ g[i] = step[<<g[i - 1], i>>]
        BY <1>5, <3>2, <4>1 DEF RunsBy
      <4> QED
        BY <1>3, <3>2, <4>1, <4>2
    <3> QED
      BY <3>1, <3>2
  <2>2. g = [i \in 0..budget |-> g[i]]
    OBVIOUS
  <2> QED
    BY <2>1, <2>2
<1> HIDE DEF Is
<1>7. Is(the)
  BY <1>6
<1> HIDE DEF the
<1>8. \A i \in 0..budget : the[i] = IF i = 0 THEN none ELSE Round(the[i - 1], groups, sizes)
  BY <1>7 DEF Is
<1>9. \A i \in 0..budget : the[i] \in Spending
  <2> DEFINE fine == {i \in 0..budget : the[i] \in Spending}
  <2>1. 0 \in fine
    BY <1>1, <1>8
  <2>2. ASSUME NEW k \in 0..budget, k \in fine, k < budget PROVE k + 1 \in fine
    <3>1. k + 1 \in 0..budget /\ k + 1 # 0 /\ (k + 1) - 1 = k
      BY <2>2
    <3>2. the[k + 1] = Round(the[k], groups, sizes)
      BY <1>8, <3>1
    <3> QED
      BY <2>2, <3>1, <3>2, RoundTyped
  <2> HIDE DEF fine
  <2>3. \A k \in 0..budget : k \in fine
    BY <2>1, <2>2, UpTo
  <2> QED
    BY <2>3 DEF fine
<1>10. the = [i \in 0..budget |-> the[i]]
  BY <1>7 DEF Is
<1>11. the \in [0..budget -> Spending]
  BY <1>9, <1>10
<1>12. 0 \in 0..budget /\ \A i \in 1..budget : i \in 0..budget /\ i # 0
  OBVIOUS
<1>13. the[0] = none /\ \A i \in 1..budget : the[i] = Round(the[i - 1], groups, sizes)
  BY <1>8, <1>12
<1> QED
  BY <1>4, <1>11, <1>13 DEF none

(* After r whole rounds and a part of one more. *)
Shared(spent, sizes, r) ==
    /\ \A t \in Tasks : /\ spent.kept[t] <= r + 1
                        /\ spent.kept[t] < sizes[t] => spent.kept[t] >= r
    /\ spent.left # 0 => TurnsTaken(spent, sizes, r, {})

LEMMA RoundShares ==
    ASSUME NEW sizes \in [Tasks -> Nat], NEW groups, TurnList(groups, sizes),
           NEW spent \in Spending, NEW r \in Nat, Shared(spent, sizes, r)
    PROVE  \E s \in Nat : Shared(Round(spent, groups, sizes), sizes, s)
<1> DEFINE new == Round(spent, groups, sizes)
<1>1. groups \in Seq(Tasks)
  BY DEF TurnList
<1>2. CASE spent.left = 0
  BY <1>1, <1>2, RoundSpent
<1>3. CASE spent.left # 0
  <2>1. TurnsTaken(spent, sizes, r, {})
    BY <1>3 DEF Shared
  <2>2. new \in Spending /\ TurnsTaken(new, sizes, r, {t \in Tasks : sizes[t] > 0})
    BY <2>1, RoundTakesTurns
  <2> HIDE DEF new
  <2>3. \A t \in Tasks : new.kept[t] \in Nat /\ sizes[t] \in Nat
    BY <2>2 DEF Spending
  <2>4. \A t \in Tasks : /\ new.kept[t] <= r + 1
                         /\ new.kept[t] < sizes[t] => new.kept[t] >= r
    BY <2>2, <2>3 DEF TurnsTaken
  <2>5. CASE new.left = 0
    <3>1. Shared(new, sizes, r)
      BY <2>4, <2>5 DEF Shared
    <3> QED
      BY <3>1 DEF new
  <2>6. CASE new.left # 0
    <3>1. \A t \in Tasks : new.kept[t] < sizes[t] => new.kept[t] >= r + 1
      BY <2>2, <2>3, <2>6 DEF TurnsTaken
    <3>2. \A t \in Tasks : new.kept[t] <= (r + 1) + 1
      BY <2>3, <2>4
    <3>3. TurnsTaken(new, sizes, r + 1, {})
      BY <2>4, <3>1 DEF TurnsTaken
    <3>4. Shared(new, sizes, r + 1) /\ r + 1 \in Nat
      BY <3>1, <3>2, <3>3 DEF Shared
    <3> QED
      BY <3>4 DEF new
  <2> QED
    BY <2>5, <2>6
<1> QED
  BY <1>2, <1>3

LEMMA QuotaShares ==
    ASSUME NEW sizes \in [Tasks -> Nat], NEW groups, TurnList(groups, sizes), NEW budget \in Nat
    PROVE  \E spent \in Spending, r \in Nat :
               Quota(groups, sizes, budget) = spent.kept /\ Shared(spent, sizes, r)
<1>1. groups \in Seq(Tasks)
  BY DEF TurnList
<1>2. PICK f \in [0..budget -> Spending] :
          /\ f[0] = Unspent(budget)
          /\ Quota(groups, sizes, budget) = f[budget].kept
          /\ \A i \in 1..budget : f[i] = Round(f[i - 1], groups, sizes)
  BY <1>1, QuotaRuns
<1> DEFINE fine == {i \in 0..budget : \E r \in Nat : Shared(f[i], sizes, r)}
<1>3. 0 \in fine
  <2>1. \A t \in Tasks : f[0].kept[t] = 0 /\ sizes[t] \in Nat
    BY <1>2 DEF Unspent
  <2>2. Shared(f[0], sizes, 0)
    BY <2>1 DEF Shared, TurnsTaken
  <2> QED
    BY <2>2
<1>4. ASSUME NEW k \in 0..budget, k \in fine, k < budget PROVE k + 1 \in fine
  <2>1. k + 1 \in 1..budget /\ k + 1 \in 0..budget /\ (k + 1) - 1 = k
    BY <1>4
  <2>2. PICK r \in Nat : Shared(f[k], sizes, r)
    BY <1>4
  <2>3. f[k] \in Spending /\ f[k + 1] = Round(f[k], groups, sizes)
    BY <1>2, <2>1
  <2>4. \E s \in Nat : Shared(Round(f[k], groups, sizes), sizes, s)
    BY <2>2, <2>3, RoundShares
  <2> QED
    BY <2>1, <2>3, <2>4
<1> HIDE DEF fine
<1>5. budget \in 0..budget /\ \A k \in 0..budget : k \in fine
  BY <1>3, <1>4, UpTo
<1>6. PICK r \in Nat : Shared(f[budget], sizes, r)
  BY <1>5 DEF fine
<1> QED
  BY <1>2, <1>5, <1>6

(* No task is given two more than one that is still short of its own. *)
LEMMA QuotaFair ==
    ASSUME NEW sizes \in [Tasks -> Nat], NEW groups, TurnList(groups, sizes), NEW budget \in Nat
    PROVE  \A low, high \in Tasks :
               Quota(groups, sizes, budget)[low] < sizes[low] =>
                   Quota(groups, sizes, budget)[high] <= Quota(groups, sizes, budget)[low] + 1
<1>1. PICK spent \in Spending, r \in Nat :
          Quota(groups, sizes, budget) = spent.kept /\ Shared(spent, sizes, r)
  BY QuotaShares
<1>2. \A t \in Tasks : spent.kept[t] \in Nat /\ sizes[t] \in Nat
  BY DEF Spending
<1>3. ASSUME NEW low \in Tasks, NEW high \in Tasks, spent.kept[low] < sizes[low]
      PROVE  spent.kept[high] <= spent.kept[low] + 1
  BY <1>1, <1>2, <1>3 DEF Shared
<1> QED
  BY <1>1, <1>3

(* How many trajectories there are of each task. *)
LEMMA SizesTyped ==
    ASSUME NEW goals, goals \subseteq Goals
    PROVE  /\ IsFiniteSet(goals) /\ SizesOf(goals) \in [Tasks -> Nat]
           /\ \A t \in Tasks : IsFiniteSet(OfTask(goals, t)) /\ OfTask(goals, t) \subseteq goals
<1>1. IsFiniteSet(goals)
  BY FS_Subset, CorpusAssumption
<1>2. ASSUME NEW t \in Tasks
      PROVE  /\ IsFiniteSet(OfTask(goals, t)) /\ OfTask(goals, t) \subseteq goals
             /\ Cardinality(OfTask(goals, t)) \in Nat
  <2>1. OfTask(goals, t) \subseteq goals
    BY DEF OfTask
  <2>2. IsFiniteSet(OfTask(goals, t))
    BY <1>1, <2>1, FS_Subset
  <2> QED
    BY <2>1, <2>2, FS_CardinalityType
<1> QED
  BY <1>1, <1>2 DEF SizesOf

(* The groups of the real trajectories, in whatever order: each task that  *)
(* has any, once.                                                          *)
LEMMA GroupsAreTurns ==
    ASSUME NEW real, real \subseteq Goals, NEW groups \in SetToSeqs({TaskOf[g] : g \in real})
    PROVE  TurnList(groups, SizesOf(real))
<1> DEFINE T == {TaskOf[g] : g \in real}
           map == [g \in real |-> TaskOf[g]]
           n == Cardinality(T)
<1>1. T \subseteq Tasks
  BY CorpusAssumption
<1>2. IsFiniteSet(real) /\ SizesOf(real) \in [Tasks -> Nat]
  BY SizesTyped
<1>3. map \in Surjection(real, T)
  BY DEF Surjection
<1>4. IsFiniteSet(T)
  BY <1>2, <1>3, FS_Surjection
<1>5. n \in Nat
  BY <1>4, FS_CardinalityType
<1>6. groups \in [1..n -> T] /\ \A i, j \in 1..n : i # j => groups[i] # groups[j]
  BY DEF SetToSeqs
<1> HIDE DEF n, map
<1>7. groups \in Injection(1..n, T)
  BY <1>6 DEF Injection, IsInjective
<1>8. Cardinality(1..n) = Cardinality(T)
  BY <1>5, FS_Interval DEF n
<1>9. groups \in Surjection(1..n, T)
  BY <1>4, <1>7, <1>8, FS_Injection
<1>10. ASSUME NEW t \in Tasks
       PROVE  SizesOf(real)[t] > 0 <=> t \in T
  <2>1. SizesOf(real)[t] = Cardinality(OfTask(real, t)) /\ IsFiniteSet(OfTask(real, t))
    BY SizesTyped DEF SizesOf
  <2>2. OfTask(real, t) = {} <=> t \notin T
    BY DEF OfTask
  <2>3. SizesOf(real)[t] = 0 <=> OfTask(real, t) = {}
    BY <2>1, FS_EmptySet
  <2>4. SizesOf(real)[t] \in Nat
    BY <1>2
  <2>5. SizesOf(real)[t] > 0 <=> SizesOf(real)[t] # 0
    BY <2>4
  <2> QED
    BY <2>2, <2>3, <2>5
<1> HIDE DEF T
<1>11. groups \in Seq(Tasks) /\ DOMAIN groups = 1..n
  BY <1>1, <1>5, <1>6
<1>12. \A t \in Tasks : t \in T <=> \E i \in 1..n : groups[i] = t
  BY <1>6, <1>9 DEF Surjection
<1> QED
  BY <1>6, <1>10, <1>11, <1>12 DEF TurnList

(* What is kept of the real trajectories is shared out by turns. *)
LEMMA KeptTakesTurns ==
    ASSUME NEW real, real \subseteq Goals, NEW demos, demos \subseteq Goals,
           NEW kept, KeptReal(real, kept, demos)
    PROVE  \A low, high \in Tasks :
               OfTask(real \ kept, low) # {} =>
                   Cardinality(OfTask(kept, high)) <= Cardinality(OfTask(kept, low)) + 1
<1>1. kept \subseteq real
  BY DEF KeptReal
<1>2. CASE demos = {}
  BY <1>2 DEF KeptReal, OfTask
<1>3. CASE demos # {}
  <2> DEFINE budget == CapRatio * Cardinality(demos)
  <2>1. budget \in Nat
    BY SizesTyped, FS_CardinalityType, CorpusAssumption
  <2>2. PICK groups \in SetToSeqs({TaskOf[g] : g \in real}) :
            SizesOf(kept) = Quota(groups, SizesOf(real), budget)
    BY <1>3 DEF KeptReal
  <2> HIDE DEF budget
  <2>3. SizesOf(real) \in [Tasks -> Nat] /\ TurnList(groups, SizesOf(real))
    BY SizesTyped, GroupsAreTurns
  <2>4. \A low, high \in Tasks : SizesOf(kept)[low] < SizesOf(real)[low] =>
                                    SizesOf(kept)[high] <= SizesOf(kept)[low] + 1
    BY <2>1, <2>2, <2>3, QuotaFair
  <2>5. ASSUME NEW low \in Tasks, OfTask(real \ kept, low) # {}
        PROVE  SizesOf(kept)[low] < SizesOf(real)[low]
    <3> DEFINE K == OfTask(kept, low)
               R == OfTask(real, low)
    <3>1. K \subseteq R /\ K # R
      BY <1>1, <2>5 DEF OfTask
    <3>2. IsFiniteSet(R) /\ SizesOf(kept)[low] = Cardinality(K) /\ SizesOf(real)[low] = Cardinality(R)
      BY SizesTyped DEF SizesOf
    <3>3. IsFiniteSet(K) /\ Cardinality(K) <= Cardinality(R) /\ Cardinality(K) # Cardinality(R)
      BY <3>1, <3>2, FS_Subset
    <3>4. Cardinality(K) \in Nat /\ Cardinality(R) \in Nat
      BY <3>2, <3>3, FS_CardinalityType
    <3> QED
      BY <3>2, <3>3, <3>4
  <2>6. \A t \in Tasks : SizesOf(kept)[t] = Cardinality(OfTask(kept, t))
    BY DEF SizesOf
  <2> QED
    BY <2>4, <2>5, <2>6
<1> QED
  BY <1>2, <1>3

-----------------------------------------------------------------------------
(* The exports, and the corpus made of them. *)
Judgements(kept) ==
    /\ kept \in Export
    /\ \A g \in Goals : kept[g] # NoRow => (kept[g].row.proof <=> kept[g].row.steps = "proved")

CorpusTyped ==
    corpus # NoFile => /\ corpus.real \subseteq corpus.taught
                       /\ corpus.taught \subseteq corpus.offered /\ corpus.offered \subseteq Goals
                       /\ corpus.prefixes \subseteq Goals /\ corpus.torn \in BOOLEAN
                       /\ corpus.steps \in [corpus.taught -> {"proved", "unproved", "none"}]

CorpusInv == /\ StoreInv /\ CorpusTyped /\ CorpusIsSound
             /\ export # NoFile => Judgements(export)
             /\ first # NoFile => Judgements(first)
             /\ exports \in 0..MaxExports

LEMMA CorpusInvInit == CorpusInit => CorpusInv
  BY StoreInvInit, CorpusAssumption
  DEF CorpusInit, CorpusInv, CorpusTyped, CorpusIsSound, TaughtIsVerified, OneExport, TasksTakeTurns

LEMMA CurateKeeps == CorpusInv /\ Curate => CorpusInv'
<1> SUFFICES ASSUME CorpusInv, Curate PROVE CorpusInv'
  OBVIOUS
<1>1. StoreInv'
  BY StoreInvFrame DEF CorpusInv, Curate, storeVars
<1>2. Judgements(export)'
  <2>1. PICK verdictOf \in [Goals -> Verdicts] : export' = Judged(verdictOf)
    BY DEF Curate
  <2>2. store \in [Goals -> Rows \cup {NoRow}] /\ Earned(store)
    BY DEF CorpusInv, StoreInv, StoreTyped, StoreFiles, RowsEarned
  <2>3. \A g \in Goals : export'[g] = IF store[g] = NoRow THEN NoRow
                                      ELSE [row |-> store[g], verdict |-> verdictOf[g]]
    BY <2>1 DEF Judged
  <2>4. export' \in Export
    BY <2>1, <2>2 DEF Judged, Export
  <2>5. ASSUME NEW g \in Goals, export'[g] # NoRow
        PROVE  export'[g].row = store[g] /\ store[g] # NoRow
    <3>1. store[g] # NoRow
      BY <2>3, <2>5
    <3>2. export'[g] = [row |-> store[g], verdict |-> verdictOf[g]]
      BY <2>3, <3>1
    <3> QED
      BY <3>1, <3>2
  <2> QED
    BY <2>2, <2>4, <2>5 DEF Judgements, Earned
<1>3. exports' \in 0..MaxExports
  BY CorpusAssumption DEF CorpusInv, Curate
<1>4. UNCHANGED <<first, corpus>>
  BY DEF Curate
<1> QED
  BY <1>1, <1>2, <1>3, <1>4
  DEF CorpusInv, CorpusTyped, CorpusIsSound, TaughtIsVerified, OneExport, TasksTakeTurns, Judgements

LEMMA ReadRecordsKeeps == CorpusInv /\ ReadRecords => CorpusInv'
<1> SUFFICES ASSUME CorpusInv, ReadRecords PROVE CorpusInv'
  OBVIOUS
<1>1. StoreInv'
  BY StoreInvFrame DEF CorpusInv, ReadRecords, storeVars
<1> QED
  BY <1>1 DEF ReadRecords, CorpusInv, CorpusTyped, CorpusIsSound, TaughtIsVerified, OneExport, TasksTakeTurns, Judgements

LEMMA WriteCorpusKeeps == CorpusInv /\ WriteCorpus => CorpusInv'
<1> SUFFICES ASSUME CorpusInv, WriteCorpus PROVE CorpusInv'
  OBVIOUS
<1>1. StoreInv'
  BY StoreInvFrame DEF CorpusInv, WriteCorpus, storeVars
<1>2. PICK kept, prefixes :
          LET all == Trainable(first)
              demos == {g \in all : Deliberate(first[g].row)}
          IN /\ KeptReal(all \ demos, kept, demos) /\ prefixes \subseteq PrefixSource(export)
             /\ corpus' = [taught |-> demos \cup kept, real |-> kept, offered |-> all,
                           steps |-> [g \in demos \cup kept |-> first[g].row.steps],
                           prefixes |-> prefixes, torn |-> first # export]
  BY DEF WriteCorpus
<1> DEFINE all == Trainable(first)
           demos == {g \in all : Deliberate(first[g].row)}
           taught == demos \cup kept
<1>3. kept \subseteq all \ demos /\ KeptReal(all \ demos, kept, demos)
  BY <1>2 DEF KeptReal
<1>4. /\ taught \subseteq all /\ prefixes \subseteq PrefixSource(export)
      /\ corpus'.real = kept /\ kept \subseteq taught /\ all \ taught = (all \ demos) \ kept
      /\ corpus'.taught = taught /\ corpus'.offered = all /\ corpus'.prefixes = prefixes
      /\ corpus'.steps = [g \in taught |-> first[g].row.steps]
      /\ corpus'.torn = (first # export)
  BY <1>2, <1>3
<1> HIDE DEF taught, demos
<1>5. Judgements(first) /\ first \in [Goals -> [row : Rows, verdict : Verdicts] \cup {NoRow}]
  BY DEF CorpusInv, WriteCorpus, Judgements, Export
<1>6. \A g \in all : /\ g \in Goals /\ first[g] # NoRow /\ first[g].row.proof
                     /\ first[g].row.outcome \in {"success", "recovered"}
  BY DEF Trainable, Eligible
<1>7. \A g \in all : first[g].row.steps = "proved"
  BY <1>5, <1>6 DEF Judgements
<1>8. \A g \in taught : corpus'.steps[g] = "proved"
  BY <1>4, <1>7
<1>9. corpus'.taught \cap corpus'.prefixes # {} => corpus'.torn
  BY <1>4, <1>6 DEF PrefixSource
<1>10. CorpusTyped'
  <2>1. prefixes \subseteq Goals
    BY <1>4 DEF PrefixSource
  <2>2. corpus'.steps \in [taught -> {"proved", "unproved", "none"}]
    BY <1>4, <1>7
  <2> QED
    BY <1>4, <1>6, <2>1, <2>2 DEF CorpusTyped
<1>11. TasksTakeTurns'
  <2>1. all \ demos \subseteq Goals /\ demos \subseteq Goals
    BY <1>6 DEF demos
  <2>2. \A low, high \in Tasks :
            OfTask((all \ demos) \ kept, low) # {} =>
                Cardinality(OfTask(kept, high)) <= Cardinality(OfTask(kept, low)) + 1
    BY <1>3, <2>1, KeptTakesTurns
  <2> HIDE DEF all
  <2> QED
    BY <1>4, <2>2 DEF TasksTakeTurns
<1>12. CorpusIsSound'
  BY <1>4, <1>8, <1>9, <1>11 DEF CorpusIsSound, TaughtIsVerified, OneExport
<1>13. first' = NoFile /\ UNCHANGED <<export, exports>>
  BY DEF WriteCorpus
<1> QED
  BY <1>1, <1>10, <1>12, <1>13 DEF CorpusInv, Judgements

LEMMA CorpusInvStep == CorpusInv /\ [CorpusNext]_learningVars => CorpusInv'
<1>1. ASSUME CorpusInv, StoreNext, UNCHANGED corpusVars PROVE CorpusInv'
  <2>1. StoreInv'
    BY <1>1, StoreInvStep DEF CorpusInv
  <2> QED
    BY <1>1, <2>1 DEF CorpusInv, CorpusTyped, CorpusIsSound, TaughtIsVerified, OneExport, TasksTakeTurns, Judgements, corpusVars
<1>2. ASSUME CorpusInv, UNCHANGED learningVars PROVE CorpusInv'
  <2>1. StoreInv'
    BY <1>2, StoreInvFrame DEF CorpusInv, learningVars, storeVars
  <2> QED
    BY <1>2, <2>1 DEF CorpusInv, CorpusTyped, CorpusIsSound, TaughtIsVerified, OneExport, TasksTakeTurns, Judgements, learningVars
<1> QED
  BY <1>1, <1>2, CurateKeeps, ReadRecordsKeeps, WriteCorpusKeeps DEF CorpusNext

LEMMA CorpusInvGives == CorpusInv => CorpusTypeOK /\ LessonsKept /\ CorpusIsSound
<1> SUFFICES ASSUME CorpusInv PROVE CorpusTypeOK /\ LessonsKept /\ CorpusIsSound
  OBVIOUS
<1>1. StoreTypeOK
  BY DEF CorpusInv, StoreInv, StoreTyped, StoreTypeOK, HandRecords
<1>2. CorpusTypeOK
  BY <1>1 DEF CorpusInv, CorpusTyped, CorpusTypeOK, Judgements
<1>3. LessonsKept
  BY DEF CorpusInv, StoreInv, LessonsHeld, Keeps, LessonsKept
<1> QED
  BY <1>2, <1>3 DEF CorpusInv

(* The experience store, its exports and the corpora keep their types      *)
(* (agent/experience.py, curation.py, training.py).                        *)
THEOREM CorpusTypeCorrect == CorpusSpec => []CorpusTypeOK
  BY CorpusInvInit, CorpusInvStep, CorpusInvGives, PTL DEF CorpusSpec

(* For any number of recording threads and clean-ups: a lesson whose       *)
(* record() has returned stays, as long as curate() keeps apart            *)
(* (ExperienceStore.record, session_learning.curate).                      *)
THEOREM LessonsStay == CorpusSpec => []LessonsKept
  BY CorpusInvInit, CorpusInvStep, CorpusInvGives, PTL DEF CorpusSpec

(* Whatever later sessions and claims make of a row's outcome, the steps   *)
(* taught as a demonstration are those of a session whose own verification *)
(* passed; none of them is taught as a failure too, unless an export came  *)
(* between the two reads; and while one task has a real trajectory left    *)
(* out, no other is given two more (training._eligibility, build_training).*)
THEOREM CorporaStaySound == CorpusSpec => []CorpusIsSound
  BY CorpusInvInit, CorpusInvStep, CorpusInvGives, PTL DEF CorpusSpec

-----------------------------------------------------------------------------
(* The task ledger, for any number of clerks and tasks. *)

LEMMA Joining ==
    ASSUME NEW T, NEW a \in Seq(T), NEW b \in Seq(T)
    PROVE  /\ a \o b \in Seq(T) /\ Len(a \o b) = Len(a) + Len(b)
           /\ \A j \in 1..(Len(a) + Len(b)) :
                  (a \o b)[j] = IF j <= Len(a) THEN a[j] ELSE b[j - Len(a)]
  OBVIOUS

(* What is left when a row is taken out of a sequence. *)
LEMMA RowRemoved ==
    ASSUME NEW T, NEW s \in Seq(T), NEW i \in DOMAIN s
    PROVE  /\ RemoveAt(s, i) \in Seq(T) /\ Len(RemoveAt(s, i)) = Len(s) - 1
           /\ \A j \in 1..(Len(s) - 1) : RemoveAt(s, i)[j] = IF j < i THEN s[j] ELSE s[j + 1]
<1> DEFINE low == SubSeq(s, 1, i - 1)
           high == SubSeq(s, i + 1, Len(s))
<1>1. i \in 1..Len(s) /\ Len(s) \in Nat
  OBVIOUS
<1>2. /\ low \in Seq(T) /\ Len(low) = i - 1 /\ \A j \in 1..(i - 1) : low[j] = s[j]
  BY <1>1
<1>3. high \in Seq(T) /\ Len(high) = Len(s) - i /\ \A j \in 1..(Len(s) - i) : high[j] = s[i + j]
  BY <1>1
<1>4. RemoveAt(s, i) = low \o high
  BY DEF RemoveAt
<1> HIDE DEF low, high
<1>5. /\ low \o high \in Seq(T) /\ Len(low \o high) = Len(s) - 1
      /\ \A j \in 1..(Len(s) - 1) : (low \o high)[j] = IF j < i THEN low[j] ELSE high[j - (i - 1)]
  <2>1. /\ low \o high \in Seq(T) /\ Len(low \o high) = (i - 1) + (Len(s) - i)
        /\ \A j \in 1..((i - 1) + (Len(s) - i)) :
               (low \o high)[j] = IF j <= i - 1 THEN low[j] ELSE high[j - (i - 1)]
    <3>1. low \in Seq(T) /\ high \in Seq(T) /\ Len(low) = i - 1 /\ Len(high) = Len(s) - i
      BY <1>2, <1>3
    <3>2. /\ low \o high \in Seq(T) /\ Len(low \o high) = Len(low) + Len(high)
          /\ \A j \in 1..(Len(low) + Len(high)) :
                 (low \o high)[j] = IF j <= Len(low) THEN low[j] ELSE high[j - Len(low)]
      BY <3>1, Joining
    <3> QED
      BY <3>1, <3>2
  <2>2. (i - 1) + (Len(s) - i) = Len(s) - 1
    BY <1>1
  <2>4. \A j \in 1..(Len(s) - 1) : j < i <=> j <= i - 1
    BY <1>1
  <2> QED
    BY <2>1, <2>2, <2>4
<1>6. ASSUME NEW j \in 1..(Len(s) - 1)
      PROVE  (low \o high)[j] = IF j < i THEN s[j] ELSE s[j + 1]
  <2>1. CASE j < i
    BY <1>1, <1>2, <1>5, <2>1
  <2>2. CASE ~(j < i)
    <3>1. j - (i - 1) \in 1..(Len(s) - i) /\ i + (j - (i - 1)) = j + 1
      BY <1>1, <2>2
    <3>2. high[j - (i - 1)] = s[j + 1]
      BY <1>3, <3>1
    <3> QED
      BY <1>5, <2>2, <3>2
  <2> QED
    BY <2>1, <2>2
<1> QED
  BY <1>4, <1>5, <1>6

(* The numbers of the list increase, as the ids do. *)
NumbersIncrease(list) == \A i, j \in 1..Len(list) : i < j => list[i].nr < list[j].nr

(* What a command may hold or find in the file. *)
LedgerRows(list) == list \in Seq(TaskRows) /\ Increasing(list)

LEMMA RowAppended ==
    ASSUME NEW list, LedgerRows(list), NEW r \in TaskRows, r.id = NextTaskId(list)
    PROVE  /\ LedgerRows(Append(list, r))
           /\ Numbers(Append(list, r)) = Numbers(list) \cup {r.nr}
           /\ (NumbersIncrease(list) /\ (\A i \in 1..Len(list) : list[i].nr < r.nr))
                  => NumbersIncrease(Append(list, r))
<1> DEFINE longer == Append(list, r)
<1>1. /\ longer \in Seq(TaskRows) /\ Len(longer) = Len(list) + 1 /\ Len(list) \in Nat
      /\ longer[Len(list) + 1] = r /\ \A i \in 1..Len(list) : longer[i] = list[i]
      /\ list \in Seq(TaskRows)
  BY DEF LedgerRows
<1> HIDE DEF longer
<1>2. Increasing(longer)
  <2> SUFFICES ASSUME NEW i \in 1..Len(list) PROVE longer[i].id < longer[i + 1].id
    BY <1>1 DEF Increasing
  <2>1. CASE i = Len(list)
    <3>1. list # <<>> /\ list[i] \in TaskRows
      BY <2>1, <1>1
    <3>2. r.id = list[i].id + 1
      BY <3>1, <2>1 DEF NextTaskId, Last
    <3>3. list[i].id \in Int
      BY <3>1 DEF TaskRows
    <3>4. list[i].id < r.id
      BY <3>2, <3>3
    <3> QED
      BY <3>4, <1>1, <2>1
  <2>2. CASE i # Len(list)
    <3>1. i \in 1..(Len(list) - 1) /\ i + 1 \in 1..Len(list)
      BY <1>1, <2>2
    <3> QED
      BY <3>1, <1>1 DEF LedgerRows, Increasing
  <2> QED
    BY <2>1, <2>2
<1>3. Numbers(longer) = Numbers(list) \cup {r.nr}
  <2>1. DOMAIN longer = 1..(Len(list) + 1) /\ DOMAIN list = 1..Len(list)
    BY <1>1
  <2>2. 1..(Len(list) + 1) = 1..Len(list) \cup {Len(list) + 1}
    BY <1>1
  <2> QED
    BY <1>1, <2>1, <2>2 DEF Numbers
<1>4. ASSUME NumbersIncrease(list), \A i \in 1..Len(list) : list[i].nr < r.nr
      PROVE  NumbersIncrease(longer)
  <2> SUFFICES ASSUME NEW i \in 1..Len(longer), NEW j \in 1..Len(longer), i < j
               PROVE  longer[i].nr < longer[j].nr
    BY DEF NumbersIncrease
  <2>1. i \in 1..Len(list)
    BY <1>1
  <2>2. CASE j = Len(list) + 1
    BY <1>1, <1>4, <2>1, <2>2
  <2>3. CASE j \in 1..Len(list)
    BY <1>1, <1>4, <2>1, <2>3 DEF NumbersIncrease
  <2> QED
    BY <1>1, <2>2, <2>3
<1> QED
  BY <1>1, <1>2, <1>3, <1>4 DEF LedgerRows, longer

LEMMA RowDeleted ==
    ASSUME NEW list, LedgerRows(list), NEW i \in DOMAIN list
    PROVE  /\ LedgerRows(RemoveAt(list, i))
           /\ NumbersIncrease(list) =>
                 /\ NumbersIncrease(RemoveAt(list, i))
                 /\ Numbers(RemoveAt(list, i)) = Numbers(list) \ {list[i].nr}
<1> DEFINE less == RemoveAt(list, i)
<1>1. /\ list \in Seq(TaskRows) /\ i \in 1..Len(list) /\ Len(list) \in Nat
      /\ DOMAIN list = 1..Len(list)
  BY DEF LedgerRows
<1>2. /\ less \in Seq(TaskRows) /\ Len(less) = Len(list) - 1
      /\ \A j \in 1..(Len(list) - 1) : less[j] = IF j < i THEN list[j] ELSE list[j + 1]
  BY <1>1, RowRemoved
<1> HIDE DEF less
<1>3. \A j \in 1..Len(list) : list[j].id \in Int /\ list[j].nr \in Int
  <2>1. 0..MaxTaskId \subseteq Int /\ 1..MaxAdds \subseteq Int
    BY TaskAssumption
  <2>2. \A j \in 1..Len(list) : list[j] \in TaskRows
    BY <1>1
  <2> QED
    BY <2>1, <2>2 DEF TaskRows
<1>4. Increasing(less)
  <2>0. Len(less) - 1 = Len(list) - 2
    BY <1>1, <1>2
  <2> SUFFICES ASSUME NEW j \in 1..(Len(list) - 2) PROVE less[j].id < less[j + 1].id
    BY <2>0 DEF Increasing
  <2>1. /\ j \in 1..(Len(list) - 1) /\ j + 1 \in 1..(Len(list) - 1)
        /\ j \in 1..Len(list) /\ j + 1 \in 1..Len(list) /\ j + 2 \in 1..Len(list) /\ (j + 1) + 1 = j + 2
    BY <1>1
  <2>2. list[j].id < list[j + 1].id /\ list[j + 1].id < list[j + 2].id
    BY <2>1 DEF LedgerRows, Increasing
  <2>3. list[j].id < list[j + 2].id
    BY <2>1, <2>2, <1>3
  <2>4. /\ less[j] = IF j < i THEN list[j] ELSE list[j + 1]
        /\ less[j + 1] = IF j + 1 < i THEN list[j + 1] ELSE list[j + 2]
    BY <1>2, <2>1
  <2> QED
    BY <2>2, <2>3, <2>4, <2>1, <1>1
<1>5. ASSUME NumbersIncrease(list) PROVE NumbersIncrease(less)
  <2> SUFFICES ASSUME NEW j \in 1..(Len(list) - 1), NEW k \in 1..(Len(list) - 1), j < k
               PROVE  less[j].nr < less[k].nr
    BY <1>2 DEF NumbersIncrease
  <2> DEFINE jj == IF j < i THEN j ELSE j + 1
             kk == IF k < i THEN k ELSE k + 1
  <2>1. jj \in 1..Len(list) /\ kk \in 1..Len(list) /\ jj < kk
    BY <1>1
  <2>2. less[j] = list[jj] /\ less[k] = list[kk]
    BY <1>2
  <2> QED
    BY <2>1, <2>2, <1>5 DEF NumbersIncrease
<1>6. ASSUME NumbersIncrease(list) PROVE Numbers(less) = Numbers(list) \ {list[i].nr}
  <2>1. DOMAIN less = 1..(Len(list) - 1)
    BY <1>1, <1>2
  <2>2. ASSUME NEW j \in 1..(Len(list) - 1) PROVE less[j].nr \in Numbers(list) \ {list[i].nr}
    <3> DEFINE jj == IF j < i THEN j ELSE j + 1
    <3>1. jj \in 1..Len(list) /\ (jj < i \/ i < jj)
      BY <1>1
    <3>2. less[j] = list[jj]
      BY <1>2
    <3> HIDE DEF jj
    <3>3. list[jj].nr < list[i].nr \/ list[i].nr < list[jj].nr
      BY <1>1, <1>6, <3>1 DEF NumbersIncrease
    <3>4. list[jj].nr # list[i].nr
      BY <1>1, <1>3, <3>1, <3>3
    <3> QED
      BY <1>1, <3>1, <3>2, <3>4 DEF Numbers
  <2>3. ASSUME NEW j \in 1..Len(list), list[j].nr # list[i].nr
        PROVE  \E k \in 1..(Len(list) - 1) : less[k].nr = list[j].nr
    <3> DEFINE k == IF j < i THEN j ELSE j - 1
    <3>1. j # i
      BY <2>3
    <3>2. k \in 1..(Len(list) - 1) /\ (IF k < i THEN k ELSE k + 1) = j
      BY <1>1, <3>1
    <3>3. less[k] = list[j]
      BY <1>2, <3>2
    <3> QED
      BY <3>2, <3>3
  <2>4. Numbers(less) \subseteq Numbers(list) \ {list[i].nr}
    BY <2>1, <2>2 DEF Numbers
  <2>5. Numbers(list) \ {list[i].nr} \subseteq Numbers(less)
    BY <1>1, <2>1, <2>3 DEF Numbers
  <2> QED
    BY <2>4, <2>5
<1> QED
  BY <1>2, <1>4, <1>5, <1>6 DEF LedgerRows, less

LEMMA RowMarked ==
    ASSUME NEW list, LedgerRows(list), NEW i \in DOMAIN list
    PROVE  LET marked == [list EXCEPT ![i].status = "done"]
           IN  /\ LedgerRows(marked) /\ Numbers(marked) = Numbers(list)
               /\ NumbersIncrease(list) => NumbersIncrease(marked)
<1> DEFINE marked == [list EXCEPT ![i].status = "done"]
<1>1. /\ list \in Seq(TaskRows) /\ list[i] \in TaskRows
      /\ DOMAIN list = 1..Len(list) /\ Len(list) \in Nat
  BY DEF LedgerRows
<1>2. [list[i] EXCEPT !.status = "done"] \in TaskRows
  BY <1>1 DEF TaskRows
<1>3. /\ marked \in Seq(TaskRows) /\ Len(marked) = Len(list) /\ DOMAIN marked = DOMAIN list
  BY <1>1, <1>2
<1>4. \A j \in DOMAIN list : marked[j].id = list[j].id /\ marked[j].nr = list[j].nr
  BY <1>1 DEF TaskRows
<1> HIDE DEF marked
<1>5. Increasing(marked)
  BY <1>1, <1>3, <1>4 DEF LedgerRows, Increasing
<1>6. Numbers(marked) = Numbers(list)
  BY <1>3, <1>4 DEF Numbers
<1>7. NumbersIncrease(list) => NumbersIncrease(marked)
  BY <1>1, <1>3, <1>4 DEF NumbersIncrease
<1> QED
  BY <1>3, <1>5, <1>6, <1>7 DEF LedgerRows, marked

LedgerTyped ==
    /\ LedgerRows(tasks) /\ \A c \in Clerks : copy[c] # NoCopy => LedgerRows(copy[c])
    /\ copy \in [Clerks -> Seq(TaskRows) \cup {NoCopy}]
    /\ adds \in 0..MaxAdds /\ dropped \subseteq 1..MaxAdds /\ serial \in BOOLEAN

Left == (1..adds) \ dropped

(* One at a time: the ledger, or the copy that is about to replace it, is  *)
(* what was added and not deleted, in that order.                          *)
LedgerExact ==
    serial => /\ dropped \subseteq 1..adds
              /\ \A c, d \in Clerks : copy[c] # NoCopy /\ copy[d] # NoCopy => c = d
              /\ \A c \in Clerks : copy[c] # NoCopy =>
                     NumbersIncrease(copy[c]) /\ Numbers(copy[c]) = Left
              /\ (\A c \in Clerks : copy[c] = NoCopy) =>
                     NumbersIncrease(tasks) /\ Numbers(tasks) = Left

LedgerInv == LedgerTyped /\ LedgerExact

LEMMA LedgerInvInit == TaskInit => LedgerInv
<1> SUFFICES ASSUME TaskInit PROVE LedgerInv
  OBVIOUS
<1>1. LedgerRows(<<>>) /\ NumbersIncrease(<<>>) /\ Numbers(<<>>) = {}
  BY DEF LedgerRows, Increasing, NumbersIncrease, Numbers
<1>2. Left = {}
  BY DEF TaskInit, Left
<1> QED
  BY <1>1, <1>2, TaskAssumption DEF TaskInit, LedgerInv, LedgerTyped, LedgerExact

(* A command takes up the file, changed into list. *)
LEMMA HeldKeeps ==
    ASSUME LedgerInv, NEW c \in Clerks, NEW held, LedgerRows(held), MayOpen(c), Hold(c, held),
           tasks' = tasks, serial' = serial, adds' \in 0..MaxAdds, dropped' \subseteq 1..MaxAdds,
           (serial /\ NumbersIncrease(tasks) /\ Numbers(tasks) = Left /\ dropped \subseteq 1..adds) =>
               /\ dropped' \subseteq 1..adds'
               /\ NumbersIncrease(held) /\ Numbers(held) = Left'
    PROVE  LedgerInv'
<1>1. copy \in [Clerks -> Seq(TaskRows) \cup {NoCopy}] /\ copy' = [copy EXCEPT ![c] = held]
  BY DEF LedgerInv, LedgerTyped, Hold
<1>2. held \in Seq(TaskRows) /\ held # NoCopy
  BY TaskAssumption DEF LedgerRows
<1>3. /\ copy' \in [Clerks -> Seq(TaskRows) \cup {NoCopy}] /\ copy'[c] = held
      /\ \A d \in Clerks \ {c} : copy'[d] = copy[d]
  BY <1>1, <1>2
<1>4. LedgerTyped'
  BY <1>3 DEF LedgerInv, LedgerTyped, LedgerRows, Increasing
<1>5. LedgerExact'
  <2> SUFFICES ASSUME serial PROVE LedgerExact'
    BY DEF LedgerExact
  <2>1. \A d \in Clerks : copy[d] = NoCopy
    BY DEF MayOpen
  <2>2. dropped' \subseteq 1..adds' /\ NumbersIncrease(held) /\ Numbers(held) = Left'
    BY <2>1 DEF LedgerInv, LedgerExact
  <2> QED
    BY <1>2, <1>3, <2>1, <2>2 DEF LedgerExact
<1> QED
  BY <1>4, <1>5 DEF LedgerInv

LEMMA AddKeeps == ASSUME LedgerInv, NEW c \in Clerks, Add(c) PROVE LedgerInv'
<1> DEFINE r == [id |-> NextTaskId(tasks), status |-> "todo", nr |-> adds + 1]
<1>1. /\ adds \in 0..MaxAdds /\ MaxAdds \in Nat /\ MaxTaskId \in Nat /\ adds < MaxAdds
      /\ adds' = adds + 1 /\ NextTaskId(tasks) <= MaxTaskId
  BY TaskAssumption DEF LedgerInv, LedgerTyped, Add
<1>2. LedgerRows(tasks) /\ tasks \in Seq(TaskRows)
  BY DEF LedgerInv, LedgerTyped, LedgerRows
<1>3. NextTaskId(tasks) \in Nat
  <2>1. CASE tasks = <<>>
    BY <2>1 DEF NextTaskId
  <2>2. CASE tasks # <<>>
    <3>1. tasks[Len(tasks)] \in TaskRows
      BY <1>2, <2>2
    <3> QED
      BY <3>1, <2>2 DEF NextTaskId, Last, TaskRows
  <2> QED
    BY <2>1, <2>2
<1>4. r \in TaskRows
  <2>1. NextTaskId(tasks) \in 0..MaxTaskId /\ adds + 1 \in 1..MaxAdds
    BY <1>1, <1>3
  <2> QED
    BY <2>1 DEF TaskRows
<1>5. MayOpen(c) /\ Hold(c, Append(tasks, r)) /\ UNCHANGED <<tasks, dropped, serial>>
  BY <1>1 DEF Add
<1>6. r.id = NextTaskId(tasks) /\ r.nr = adds + 1
  OBVIOUS
<1> HIDE DEF r
<1>7. /\ LedgerRows(Append(tasks, r)) /\ Numbers(Append(tasks, r)) = Numbers(tasks) \cup {adds + 1}
      /\ (NumbersIncrease(tasks) /\ (\A i \in 1..Len(tasks) : tasks[i].nr < adds + 1))
             => NumbersIncrease(Append(tasks, r))
  BY <1>2, <1>4, <1>6, RowAppended
<1>8. ASSUME NumbersIncrease(tasks), Numbers(tasks) = Left, dropped \subseteq 1..adds
      PROVE  /\ dropped' \subseteq 1..adds'
             /\ NumbersIncrease(Append(tasks, r)) /\ Numbers(Append(tasks, r)) = Left'
  <2>1. \A n \in Numbers(tasks) : n \in 1..adds
    BY <1>8 DEF Left
  <2>2. \A i \in 1..Len(tasks) : tasks[i].nr \in Numbers(tasks)
    BY <1>2 DEF Numbers
  <2>3. \A i \in 1..Len(tasks) : tasks[i].nr < adds + 1
    BY <1>1, <2>1, <2>2
  <2>4. /\ 1..(adds + 1) = (1..adds) \cup {adds + 1} /\ adds + 1 \notin 1..adds
    BY <1>1
  <2>5. Left' = Left \cup {adds + 1}
    BY <1>1, <1>5, <1>8, <2>4 DEF Left
  <2>6. dropped' \subseteq 1..adds'
    BY <1>1, <1>5, <1>8, <2>4
  <2> QED
    BY <1>7, <1>8, <2>3, <2>5, <2>6
<1>9. adds' \in 0..MaxAdds /\ dropped' \subseteq 1..MaxAdds
  BY <1>1, <1>5 DEF LedgerInv, LedgerTyped
<1> QED
  BY <1>5, <1>7, <1>8, <1>9, HeldKeeps

LEMMA MarkDoneKeeps ==
    ASSUME LedgerInv, NEW c \in Clerks, NEW i \in DOMAIN tasks, MarkDone(c, i) PROVE LedgerInv'
<1> DEFINE held == [tasks EXCEPT ![i].status = "done"]
<1>1. MayOpen(c) /\ Hold(c, held) /\ UNCHANGED <<tasks, adds, dropped, serial>>
  BY DEF MarkDone
<1>2. /\ LedgerRows(held) /\ Numbers(held) = Numbers(tasks)
      /\ NumbersIncrease(tasks) => NumbersIncrease(held)
  BY RowMarked DEF LedgerInv, LedgerTyped
<1> HIDE DEF held
<1>3. adds' \in 0..MaxAdds /\ dropped' \subseteq 1..MaxAdds /\ Left' = Left
  BY <1>1 DEF LedgerInv, LedgerTyped, Left
<1> QED
  BY <1>1, <1>2, <1>3, HeldKeeps

LEMMA DeleteKeeps ==
    ASSUME LedgerInv, NEW c \in Clerks, NEW i \in DOMAIN tasks, Delete(c, i) PROVE LedgerInv'
<1> DEFINE held == RemoveAt(tasks, i)
<1>1. /\ MayOpen(c) /\ Hold(c, held) /\ UNCHANGED <<tasks, adds, serial>>
      /\ dropped' = dropped \cup {tasks[i].nr}
  BY DEF Delete
<1>2. /\ LedgerRows(held)
      /\ NumbersIncrease(tasks) =>
             NumbersIncrease(held) /\ Numbers(held) = Numbers(tasks) \ {tasks[i].nr}
  BY RowDeleted DEF LedgerInv, LedgerTyped
<1> HIDE DEF held
<1>3. tasks[i] \in TaskRows
  BY DEF LedgerInv, LedgerTyped, LedgerRows
<1>4. adds' \in 0..MaxAdds /\ dropped' \subseteq 1..MaxAdds
  BY <1>1, <1>3 DEF LedgerInv, LedgerTyped, TaskRows
<1>5. ASSUME NumbersIncrease(tasks), Numbers(tasks) = Left, dropped \subseteq 1..adds
      PROVE  dropped' \subseteq 1..adds' /\ NumbersIncrease(held) /\ Numbers(held) = Left'
  <2>1. tasks[i].nr \in Left
    BY <1>5 DEF Numbers
  <2>2. Left' = Left \ {tasks[i].nr}
    BY <1>1 DEF Left
  <2> QED
    BY <1>1, <1>2, <1>5, <2>1, <2>2 DEF Left
<1> QED
  BY <1>1, <1>2, <1>4, <1>5, HeldKeeps

LEMMA SaveTasksKeeps ==
    ASSUME LedgerInv, NEW c \in Clerks, SaveTasks(c) PROVE LedgerInv'
<1>1. /\ copy[c] # NoCopy /\ tasks' = copy[c] /\ copy' = [copy EXCEPT ![c] = NoCopy]
      /\ UNCHANGED <<adds, dropped, serial>>
  BY DEF SaveTasks, Hold
<1>2. copy \in [Clerks -> Seq(TaskRows) \cup {NoCopy}]
  BY DEF LedgerInv, LedgerTyped
<1>3. /\ copy' \in [Clerks -> Seq(TaskRows) \cup {NoCopy}] /\ copy'[c] = NoCopy
      /\ \A d \in Clerks \ {c} : copy'[d] = copy[d]
  BY <1>1, <1>2
<1>4. LedgerTyped'
  BY <1>1, <1>3 DEF LedgerInv, LedgerTyped, LedgerRows, Increasing
<1>5. LedgerExact'
  <2> SUFFICES ASSUME serial PROVE LedgerExact'
    BY <1>1 DEF LedgerExact
  <2>1. Left' = Left
    BY <1>1 DEF Left
  <2>2. /\ NumbersIncrease(copy[c]) /\ Numbers(copy[c]) = Left /\ dropped \subseteq 1..adds
        /\ \A d \in Clerks \ {c} : copy[d] = NoCopy
    BY <1>1 DEF LedgerInv, LedgerExact
  <2>3. NumbersIncrease(tasks') /\ Numbers(tasks') = Left
    BY <1>1, <2>2
  <2> QED
    BY <1>1, <1>3, <2>1, <2>2, <2>3 DEF LedgerExact, NumbersIncrease, Numbers
<1> QED
  BY <1>4, <1>5 DEF LedgerInv

LEMMA LedgerInvStep == LedgerInv /\ [TaskNext]_taskVars => LedgerInv'
<1>1. ASSUME LedgerInv, UNCHANGED taskVars PROVE LedgerInv'
  BY <1>1 DEF LedgerInv, LedgerTyped, LedgerExact, LedgerRows, Increasing, NumbersIncrease,
              Numbers, Left, taskVars
<1> QED
  BY <1>1, AddKeeps, MarkDoneKeeps, DeleteKeeps, SaveTasksKeeps DEF TaskNext

LEMMA LedgerInvGives == LedgerInv => TaskTypeOK /\ TasksSurvive
  BY DEF LedgerInv, LedgerTyped, LedgerRows, LedgerExact, Left, TaskTypeOK, TasksSurvive,
         TasksLoad, TasksKept

(* The task file holds tasks (task.TaskStore). *)
THEOREM TasksTyped == TaskSpec => []TaskTypeOK
  BY LedgerInvInit, LedgerInvStep, LedgerInvGives, PTL DEF TaskSpec

(* However commands overlap, tasks.jsonl loads again; one after the other  *)
(* they lose no task and bring none back (TaskStore.load, add, delete).    *)
THEOREM TasksStay == TaskSpec => []TasksSurvive
  BY LedgerInvInit, LedgerInvStep, LedgerInvGives, PTL DEF TaskSpec

-----------------------------------------------------------------------------
(* Folds over a list of cases are functions along its positions. *)

LEMMA GreatestOf ==
    ASSUME NEW n \in Nat
    PROVE  /\ \A S \in SUBSET (1..(n + 1)) : n + 1 \in S => Max(S) = n + 1
           /\ n > 0 => Max(1..n) = n
<1>1. ASSUME NEW S \in SUBSET (1..(n + 1)), n + 1 \in S PROVE Max(S) = n + 1
  <2>1. \A y \in S : n + 1 >= y
    OBVIOUS
  <2>2. \A x \in S : (\A y \in S : x >= y) => x = n + 1
    BY <1>1
  <2> QED
    BY <1>1, <2>1, <2>2 DEF Max
<1>2. ASSUME n > 0 PROVE Max(1..n) = n
  <2>1. n \in 1..n /\ \A y \in 1..n : n >= y
    BY <1>2
  <2>2. \A x \in 1..n : (\A y \in 1..n : x >= y) => x = n
    BY <1>2
  <2> QED
    BY <2>1, <2>2 DEF Max
<1> QED
  BY <1>1, <1>2

LEMMA GreatestIsIn ==
    ASSUME NEW n \in Nat
    PROVE  \A S \in SUBSET (1..n) : S # {} => Max(S) \in S
<1> DEFINE fine == {k \in 0..n : \A S \in SUBSET (1..k) : S # {} => Max(S) \in S}
<1>1. 0 \in fine
  <2>1. (\A S \in SUBSET (1..0) : S = {}) /\ 0 \in 0..n
    OBVIOUS
  <2> QED
    BY <2>1
<1>2. ASSUME NEW k \in 0..n, k \in fine, k < n PROVE k + 1 \in fine
  <2>1. k \in Nat /\ 1..(k + 1) = (1..k) \cup {k + 1} /\ k + 1 \in 0..n
    BY <1>2
  <2>2. ASSUME NEW S \in SUBSET (1..(k + 1)), S # {} PROVE Max(S) \in S
    <3>1. CASE k + 1 \in S
      BY <2>1, <3>1, GreatestOf
    <3>2. CASE k + 1 \notin S
      BY <2>1, <2>2, <3>2, <1>2
    <3> QED
      BY <3>1, <3>2
  <2> QED
    BY <2>1, <2>2
<1> HIDE DEF fine
<1>3. \A k \in 0..n : k \in fine
  BY <1>1, <1>2, UpTo
<1>4. n \in fine
  BY <1>3
<1> QED
  BY <1>4 DEF fine

(* FoldLeft is defined by a function on sets of positions, each folded     *)
(* without its last one.  For a step on the values V there is such a       *)
(* function.                                                               *)
FoldsBy(g, n, b, step) ==
    g = [s \in SUBSET (1..n) |-> IF s = {} THEN b ELSE step[<<g[s \ {Max(s)}], Max(s)>>]]

LEMMA FoldExists ==
    ASSUME NEW n \in Nat, NEW V, NEW b \in V, NEW step \in [V \X (1..n) -> V]
    PROVE  \E g \in [SUBSET (1..n) -> V] : FoldsBy(g, n, b, step)
<1> DEFINE done == {k \in 0..n : \E g \in [SUBSET (1..k) -> V] : FoldsBy(g, k, b, step)}
<1>1. 0 \in done
  <2> DEFINE g == [s \in SUBSET (1..0) |-> b]
  <2>1. \A s \in SUBSET (1..0) : s = {}
    OBVIOUS
  <2>2. FoldsBy(g, 0, b, step) /\ g \in [SUBSET (1..0) -> V]
    BY <2>1 DEF FoldsBy
  <2> QED
    BY <2>2
<1>2. ASSUME NEW k \in 0..n, k \in done, k < n PROVE k + 1 \in done
  <2>0. k \in Nat /\ 1..(k + 1) = (1..k) \cup {k + 1}
    OBVIOUS
  <2>1. PICK g \in [SUBSET (1..k) -> V] : FoldsBy(g, k, b, step)
    BY <1>2
  <2> DEFINE h == [s \in SUBSET (1..(k + 1)) |->
                      IF k + 1 \in s THEN step[<<g[s \ {k + 1}], k + 1>>] ELSE g[s]]
  <2>2. ASSUME NEW s \in SUBSET (1..(k + 1))
        PROVE  h[s] = IF s = {} THEN b ELSE step[<<h[s \ {Max(s)}], Max(s)>>]
    <3>1. CASE k + 1 \in s
      <4>1. Max(s) = k + 1
        BY <2>0, <3>1, GreatestOf
      <4>2. s \ {k + 1} \in SUBSET (1..(k + 1)) /\ k + 1 \notin s \ {k + 1}
        OBVIOUS
      <4>3. h[s \ {k + 1}] = g[s \ {k + 1}]
        BY <4>2
      <4>4. h[s] = step[<<g[s \ {k + 1}], k + 1>>]
        BY <3>1
      <4> QED
        BY <3>1, <4>1, <4>3, <4>4
    <3>2. CASE k + 1 \notin s
      <4>1. s \in SUBSET (1..k) /\ s \ {Max(s)} \in SUBSET (1..(k + 1)) /\ k + 1 \notin s \ {Max(s)}
        BY <2>0, <3>2
      <4>2. h[s] = g[s] /\ h[s \ {Max(s)}] = g[s \ {Max(s)}]
        BY <3>2, <4>1
      <4>3. g[s] = IF s = {} THEN b ELSE step[<<g[s \ {Max(s)}], Max(s)>>]
        BY <2>1, <4>1 DEF FoldsBy
      <4> QED
        BY <4>2, <4>3
    <3> QED
      BY <3>1, <3>2
  <2>3. h = [s \in SUBSET (1..(k + 1)) |-> IF s = {} THEN b ELSE step[<<h[s \ {Max(s)}], Max(s)>>]]
    <3> DEFINE other == [s \in SUBSET (1..(k + 1)) |-> IF s = {} THEN b ELSE step[<<h[s \ {Max(s)}], Max(s)>>]]
    <3>1. DOMAIN h = SUBSET (1..(k + 1)) /\ DOMAIN other = SUBSET (1..(k + 1))
      OBVIOUS
    <3>2. \A s \in SUBSET (1..(k + 1)) : h[s] = other[s]
      BY <2>2
    <3>3. h = [s \in SUBSET (1..(k + 1)) |-> h[s]]
      OBVIOUS
    <3> HIDE DEF h
    <3> QED
      BY <3>2, <3>3
  <2>4. FoldsBy(h, k + 1, b, step)
    BY <2>3 DEF FoldsBy
  <2>5. h \in [SUBSET (1..(k + 1)) -> V]
    <3> SUFFICES ASSUME NEW s \in SUBSET (1..(k + 1)) PROVE h[s] \in V
      OBVIOUS
    <3>1. CASE k + 1 \in s
      <4>1. s \ {k + 1} \in SUBSET (1..k) /\ k + 1 \in 1..n
        BY <2>0, <1>2
      <4>2. g[s \ {k + 1}] \in V
        BY <4>1
      <4>3. step[<<g[s \ {k + 1}], k + 1>>] \in V
        BY <4>1, <4>2
      <4> QED
        BY <3>1, <4>3
    <3>2. CASE k + 1 \notin s
      BY <2>0, <3>2
    <3> QED
      BY <3>1, <3>2
  <2>6. k + 1 \in 0..n
    BY <1>2
  <2> HIDE DEF h
  <2> QED
    BY <2>4, <2>5, <2>6
<1> HIDE DEF done
<1>3. \A k \in 0..n : k \in done
  BY <1>1, <1>2, UpTo
<1>4. n \in done
  BY <1>3
<1> QED
  BY <1>4 DEF done

-----------------------------------------------------------------------------
(* What a list of cases counts. *)

LEMMA RowsCount ==
    ASSUME NEW cases \in Seq(Row)
    PROVE  /\ Len(cases) \in Nat /\ DOMAIN cases = 1..Len(cases)
           /\ \A k \in 1..Len(cases) : cases[k] \in Row /\ cases[k].times_seen \in Nat
<1>1. \A k \in 1..Len(cases) : cases[k] \in Row
  OBVIOUS
<1>2. \A row \in Row : row.times_seen \in Nat
  BY DEF Row
<1> QED
  BY <1>1, <1>2

(* What a list of cases counts, position by position. *)
Sums(f, cases) == /\ f \in [0..Len(cases) -> Nat] /\ f[0] = 0
                  /\ \A k \in 1..Len(cases) : f[k] = f[k - 1] + cases[k].times_seen

LEMMA WithoutLast ==
    ASSUME NEW n \in Nat, NEW k \in 1..n
    PROVE  /\ 1..k \in SUBSET (1..n) /\ 1..k # {} /\ k \in 0..n /\ k - 1 \in 0..n
           /\ (1..k) \ {k} = 1..(k - 1) /\ Max(1..k) = k
<1>1. k \in Nat /\ k > 0
  OBVIOUS
<1>2. Max(1..k) = k
  BY <1>1, GreatestOf
<1> QED
  BY <1>2

LEMMA TotalSums ==
    ASSUME NEW cases \in Seq(Row)
    PROVE  \E f : Sums(f, cases) /\ Total(cases) = f[Len(cases)]
<1> DEFINE n == Len(cases)
           step == [p \in Nat \X (1..n) |-> p[1] + cases[p[2]].times_seen]
           Is(h) == h = [s \in SUBSET DOMAIN cases |->
                            IF s = {} THEN 0 ELSE h[s \ {Max(s)}] + cases[Max(s)].times_seen]
           the == CHOOSE h : Is(h)
<1>1. n \in Nat /\ DOMAIN cases = 1..n /\ \A k \in 1..n : cases[k].times_seen \in Nat
  BY RowsCount
<1>1a. n \in Nat
  OBVIOUS
<1> HIDE DEF n
<1>2. step \in [Nat \X (1..n) -> Nat]
  BY <1>1
<1>3. \A v \in Nat, k \in 1..n : step[<<v, k>>] = v + cases[k].times_seen
  OBVIOUS
<1> HIDE DEF step
<1>4. PICK g \in [SUBSET (1..n) -> Nat] : FoldsBy(g, n, 0, step)
  BY <1>1, <1>2, FoldExists
<1>5. Is(g)
  <2>1. ASSUME NEW s \in SUBSET (1..n)
        PROVE  g[s] = IF s = {} THEN 0 ELSE g[s \ {Max(s)}] + cases[Max(s)].times_seen
    <3>1. CASE s = {}
      BY <1>4, <3>1 DEF FoldsBy
    <3>2. CASE s # {}
      <4>1. Max(s) \in 1..n /\ s \ {Max(s)} \in SUBSET (1..n)
        BY <1>1, <3>2, GreatestIsIn
      <4>2. g[s \ {Max(s)}] \in Nat
        BY <4>1
      <4>3. g[s] = step[<<g[s \ {Max(s)}], Max(s)>>]
        BY <1>4, <3>2 DEF FoldsBy
      <4> QED
        BY <1>3, <3>2, <4>1, <4>2, <4>3
    <3> QED
      BY <3>1, <3>2
  <2>2. g = [s \in SUBSET (1..n) |-> g[s]]
    OBVIOUS
  <2> QED
    BY <1>1, <2>1, <2>2
<1> HIDE DEF Is
<1>6. Is(the)
  BY <1>5
<1>7. Total(cases) = the[DOMAIN cases]
  BY DEF Total, FoldLeft, MapThenFoldSet, Is
<1> HIDE DEF the
<1> DEFINE f == [k \in 0..n |-> the[1..k]]
<1>8. f[0] = 0
  <2>1. 1..0 = {} /\ {} \in SUBSET (1..n) /\ 0 \in 0..n
    BY <1>1
  <2>2. the[{}] = 0
    BY <1>1, <1>6, <2>1 DEF Is
  <2> QED
    BY <2>1, <2>2
<1>9. ASSUME NEW k \in 1..n PROVE f[k] = f[k - 1] + cases[k].times_seen
  <2>1. /\ 1..k \in SUBSET (1..n) /\ 1..k # {} /\ k \in 0..n /\ k - 1 \in 0..n
        /\ (1..k) \ {k} = 1..(k - 1)
    BY <1>1a, WithoutLast
  <2>2. Max(1..k) = k
    BY <1>1a, WithoutLast
  <2>3. the[1..k] = the[(1..k) \ {Max(1..k)}] + cases[Max(1..k)].times_seen
    BY <1>1, <1>6, <2>1 DEF Is
  <2> QED
    BY <2>1, <2>2, <2>3
<1>10. f = [k \in 0..n |-> f[k]] /\ Total(cases) = f[n]
  BY <1>1, <1>7
<1> HIDE DEF f
<1>11. \A k \in 0..n : f[k] \in Nat
  <2> DEFINE in == {k \in 0..n : f[k] \in Nat}
  <2>1. 0 \in in
    BY <1>1, <1>8
  <2>2. ASSUME NEW k \in 0..n, k \in in, k < n PROVE k + 1 \in in
    <3>1. k + 1 \in 1..n /\ (k + 1) - 1 = k /\ k + 1 \in 0..n
      BY <1>1, <2>2
    <3>2. f[k + 1] = f[k] + cases[k + 1].times_seen /\ f[k] \in Nat
      BY <3>1, <1>9, <2>2
    <3>3. f[k + 1] \in Nat
      BY <1>1, <3>1, <3>2
    <3> QED
      BY <3>1, <3>3
  <2> HIDE DEF in
  <2>3. \A k \in 0..n : k \in in
    BY <1>1, <2>1, <2>2, UpTo
  <2> QED
    BY <2>3 DEF in
<1> QED
  BY <1>8, <1>9, <1>10, <1>11 DEF Sums, n

LEMMA SumsAgree ==
    ASSUME NEW cases \in Seq(Row), NEW f, Sums(f, cases)
    PROVE  Total(cases) = f[Len(cases)]
<1>1. PICK g : Sums(g, cases) /\ Total(cases) = g[Len(cases)]
  BY TotalSums
<1> DEFINE same == {k \in 0..Len(cases) : f[k] = g[k]}
<1>2. Len(cases) \in Nat
  OBVIOUS
<1>3. 0 \in same
  BY <1>1, <1>2 DEF Sums
<1>4. ASSUME NEW k \in 0..Len(cases), k \in same, k < Len(cases) PROVE k + 1 \in same
  <2>1. k + 1 \in 1..Len(cases) /\ (k + 1) - 1 = k /\ k + 1 \in 0..Len(cases)
    BY <1>2, <1>4
  <2>2. /\ f[k + 1] = f[k] + cases[k + 1].times_seen
        /\ g[k + 1] = g[k] + cases[k + 1].times_seen
    BY <1>1, <2>1 DEF Sums
  <2> QED
    BY <1>4, <2>1, <2>2
<1> HIDE DEF same
<1>5. \A k \in 0..Len(cases) : k \in same
  BY <1>2, <1>3, <1>4, UpTo
<1>6. Len(cases) \in same
  BY <1>2, <1>5
<1> QED
  BY <1>1, <1>6 DEF same

LEMMA TotalType == ASSUME NEW cases \in Seq(Row) PROVE Total(cases) \in Nat
<1>1. PICK f : Sums(f, cases) /\ Total(cases) = f[Len(cases)]
  BY TotalSums
<1> QED
  BY <1>1 DEF Sums

LEMMA TotalOfNone == Total(<<>>) = 0
<1>0. <<>> \in Seq(Row)
  OBVIOUS
<1>1. PICK f : Sums(f, <<>>) /\ Total(<<>>) = f[Len(<<>>)]
  BY <1>0, TotalSums
<1> QED
  BY <1>1 DEF Sums

(* A new row adds its count. *)
LEMMA TotalAppended ==
    ASSUME NEW cases \in Seq(Row), NEW row \in Row
    PROVE  Total(Append(cases, row)) = Total(cases) + row.times_seen
<1> DEFINE longer == Append(cases, row)
           n == Len(cases)
<1>1. PICK f : Sums(f, cases) /\ Total(cases) = f[Len(cases)]
  BY TotalSums
<1>2. /\ n \in Nat /\ longer \in Seq(Row) /\ Len(longer) = n + 1 /\ longer[n + 1] = row
      /\ \A k \in 1..n : longer[k] = cases[k]
  OBVIOUS
<1>3. row.times_seen \in Nat
  BY DEF Row
<1> DEFINE h == [k \in 0..(n + 1) |-> IF k = n + 1 THEN f[n] + row.times_seen ELSE f[k]]
<1>4. f \in [0..n -> Nat] /\ f[0] = 0 /\ \A k \in 1..n : f[k] = f[k - 1] + cases[k].times_seen
  BY <1>1 DEF Sums
<1> HIDE DEF longer, n
<1>5. /\ h[0] = 0 /\ h[n + 1] = f[n] + row.times_seen /\ \A k \in 0..n : h[k] = f[k]
  BY <1>2, <1>4
<1>6. h \in [0..(n + 1) -> Nat]
  <2>1. f[n] + row.times_seen \in Nat
    BY <1>2, <1>3, <1>4
  <2>2. \A k \in 0..(n + 1) : k # n + 1 => k \in 0..n
    BY <1>2
  <2> QED
    BY <1>4, <2>1, <2>2
<1> HIDE DEF h
<1>7. ASSUME NEW k \in 1..(n + 1) PROVE h[k] = h[k - 1] + longer[k].times_seen
  <2>1. CASE k = n + 1
    <3>1. k - 1 = n /\ n \in 0..n
      BY <1>2, <2>1
    <3> QED
      BY <1>2, <1>5, <2>1, <3>1
  <2>2. CASE k # n + 1
    <3>1. k \in 1..n /\ k \in 0..n /\ k - 1 \in 0..n
      BY <1>2, <2>2
    <3> QED
      BY <1>2, <1>4, <1>5, <3>1
  <2> QED
    BY <2>1, <2>2
<1>8. Sums(h, longer)
  BY <1>2, <1>5, <1>6, <1>7 DEF Sums
<1>9. Total(longer) = h[n + 1]
  BY <1>2, <1>8, SumsAgree
<1> QED
  BY <1>1, <1>5, <1>9 DEF longer, n

(* Lists that differ in the count of one row differ by as much. *)
(* The row at i counts d more than it did. *)
CountsMore(other, cases, i, d) ==
    /\ Len(other) = Len(cases)
    /\ \A k \in 1..Len(cases) :
           other[k].times_seen = cases[k].times_seen + (IF k = i THEN d ELSE 0)

LEMMA TotalChanged ==
    ASSUME NEW cases \in Seq(Row), NEW i \in 1..Len(cases), NEW d \in Nat,
           NEW other \in Seq(Row), CountsMore(other, cases, i, d)
    PROVE  Total(other) = Total(cases) + d
<1>0. /\ Len(other) = Len(cases)
      /\ \A k \in 1..Len(cases) :
             other[k].times_seen = cases[k].times_seen + (IF k = i THEN d ELSE 0)
  BY DEF CountsMore
<1> DEFINE n == Len(cases)
<1>1. PICK f : Sums(f, cases) /\ Total(cases) = f[Len(cases)]
  BY TotalSums
<1>2. n \in Nat /\ Len(other) = n /\ i \in 1..n /\ \A k \in 1..n : cases[k].times_seen \in Nat
  BY <1>0, RowsCount
<1> DEFINE h == [k \in 0..n |-> IF k < i THEN f[k] ELSE f[k] + d]
<1>3. f \in [0..n -> Nat] /\ f[0] = 0 /\ \A k \in 1..n : f[k] = f[k - 1] + cases[k].times_seen
  BY <1>1 DEF Sums
<1>3a. \A k \in 1..n : other[k].times_seen = cases[k].times_seen + (IF k = i THEN d ELSE 0)
  BY <1>0
<1> HIDE DEF n
<1>4. h \in [0..n -> Nat] /\ h[0] = 0 /\ h[n] = f[n] + d
  BY <1>2, <1>3
<1>5. ASSUME NEW k \in 1..n PROVE h[k] = h[k - 1] + other[k].times_seen
  <2>1. k \in 0..n /\ k - 1 \in 0..n /\ k \in Nat /\ i \in Nat
    BY <1>2
  <2>2. f[k] \in Nat /\ f[k - 1] \in Nat /\ cases[k].times_seen \in Nat
    BY <1>2, <1>3, <2>1
  <2>3. f[k] = f[k - 1] + cases[k].times_seen
    BY <1>3
  <2>4. other[k].times_seen = cases[k].times_seen + (IF k = i THEN d ELSE 0)
    BY <1>3a
  <2>5. /\ h[k] = IF k < i THEN f[k] ELSE f[k] + d
        /\ h[k - 1] = IF k - 1 < i THEN f[k - 1] ELSE f[k - 1] + d
    BY <2>1
  <2> HIDE DEF h
  <2>6. CASE k < i
    BY <2>1, <2>2, <2>3, <2>4, <2>5, <2>6
  <2>7. CASE k = i
    BY <2>1, <2>2, <2>3, <2>4, <2>5, <2>7
  <2>8. CASE i < k
    BY <2>1, <2>2, <2>3, <2>4, <2>5, <2>8
  <2> QED
    BY <2>1, <2>6, <2>7, <2>8
<1> HIDE DEF h
<1>6. Sums(h, other)
  BY <1>2, <1>4, <1>5 DEF Sums
<1>7. Total(other) = h[n]
  BY <1>2, <1>6, SumsAgree
<1> QED
  BY <1>1, <1>4, <1>7 DEF n

LEMMA TotalSame ==
    ASSUME NEW cases \in Seq(Row), NEW other \in Seq(Row), Len(other) = Len(cases),
           \A k \in 1..Len(cases) : other[k].times_seen = cases[k].times_seen
    PROVE  Total(other) = Total(cases)
<1>1. PICK f : Sums(f, cases) /\ Total(cases) = f[Len(cases)]
  BY TotalSums
<1>2. Sums(f, other)
  BY <1>1 DEF Sums
<1> QED
  BY <1>1, <1>2, SumsAgree

(* A row that goes takes its count along. *)
LEMMA TotalRemoved ==
    ASSUME NEW cases \in Seq(Row), NEW i \in 1..Len(cases)
    PROVE  Total(cases) = Total(RemoveAt(cases, i)) + cases[i].times_seen
<1> DEFINE n == Len(cases)
           less == RemoveAt(cases, i)
           c == cases[i].times_seen
<1>1. PICK f : Sums(f, cases) /\ Total(cases) = f[Len(cases)]
  BY TotalSums
<1>2. n \in Nat /\ n > 0 /\ i \in 1..n /\ \A k \in 1..n : cases[k].times_seen \in Nat
  BY RowsCount
<1>3. /\ less \in Seq(Row) /\ Len(less) = n - 1
      /\ \A k \in 1..(n - 1) : less[k] = IF k < i THEN cases[k] ELSE cases[k + 1]
  <2>1. i \in DOMAIN cases
    OBVIOUS
  <2> QED
    BY <2>1, RowRemoved
<1>4. f \in [0..n -> Nat] /\ f[0] = 0 /\ \A k \in 1..n : f[k] = f[k - 1] + cases[k].times_seen
  BY <1>1 DEF Sums
<1> HIDE DEF n, less
<1>5. c \in Nat
  BY <1>2
<1>6. f[i] = f[i - 1] + c /\ i - 1 \in 0..n /\ f[i - 1] \in Nat
  BY <1>2, <1>4
(* the sums grow, so that those after row i hold its count *)
<1>7. \A k \in 0..n : k >= i => f[k] >= c
  <2> DEFINE ok == {k \in 0..n : k >= i => f[k] >= c}
  <2>1. 0 \in ok
    BY <1>2
  <2>2. ASSUME NEW k \in 0..n, k \in ok, k < n PROVE k + 1 \in ok
    <3>1. k + 1 \in 1..n /\ (k + 1) - 1 = k /\ k + 1 \in 0..n /\ k \in Nat /\ i \in Nat
      BY <1>2, <2>2
    <3>2. f[k + 1] = f[k] + cases[k + 1].times_seen
      BY <1>4, <3>1
    <3>3. f[k] \in Nat /\ cases[k + 1].times_seen \in Nat
      BY <1>2, <1>4, <3>1
    <3>4. CASE k >= i
      BY <2>2, <3>1, <3>2, <3>3, <3>4, <1>5
    <3>5. CASE k + 1 = i
      BY <3>1, <3>2, <3>3, <3>5, <1>5
    <3>6. CASE k + 1 < i
      BY <3>1, <3>6
    <3> QED
      BY <3>1, <3>4, <3>5, <3>6
  <2> HIDE DEF ok
  <2>3. \A k \in 0..n : k \in ok
    BY <1>2, <2>1, <2>2, UpTo
  <2> QED
    BY <2>3 DEF ok
<1> HIDE DEF c
<1> DEFINE h == [k \in 0..(n - 1) |-> IF k < i THEN f[k] ELSE f[k + 1] - c]
<1>8. h \in [0..(n - 1) -> Nat]
  <2> SUFFICES ASSUME NEW k \in 0..(n - 1) PROVE h[k] \in Nat
    OBVIOUS
  <2>1. k \in 0..n /\ k + 1 \in 0..n /\ k \in Nat /\ i \in Nat
    BY <1>2
  <2>2. f[k] \in Nat /\ f[k + 1] \in Nat
    BY <1>4, <2>1
  <2>3. ~(k < i) => f[k + 1] >= c
    BY <1>7, <2>1
  <2> QED
    BY <1>5, <2>2, <2>3
<1>9. h[0] = 0
  BY <1>2, <1>4
<1>10. h[n - 1] = f[n] - c
  <2>1. n - 1 \in 0..(n - 1) /\ (n - 1) + 1 = n
    BY <1>2
  <2>2. CASE n - 1 < i
    <3>1. i = n
      BY <1>2, <2>2
    <3> QED
      BY <1>5, <1>6, <2>1, <2>2, <3>1
  <2>3. CASE ~(n - 1 < i)
    BY <2>1, <2>3
  <2> QED
    BY <2>2, <2>3
<1>11. ASSUME NEW k \in 1..(n - 1) PROVE h[k] = h[k - 1] + less[k].times_seen
  <2>1. /\ k \in 0..(n - 1) /\ k - 1 \in 0..(n - 1) /\ k \in 1..n /\ k + 1 \in 1..n
        /\ (k - 1) + 1 = k /\ (k + 1) - 1 = k /\ k \in Nat /\ i \in Nat
    BY <1>2
  <2>2. /\ f[k] = f[k - 1] + cases[k].times_seen
        /\ f[k + 1] = f[k] + cases[k + 1].times_seen
    BY <1>4, <2>1
  <2>3. /\ f[k] \in Nat /\ f[k - 1] \in Nat /\ f[k + 1] \in Nat
        /\ cases[k].times_seen \in Nat /\ cases[k + 1].times_seen \in Nat
    BY <1>2, <1>4, <2>1
  <2>4. less[k] = IF k < i THEN cases[k] ELSE cases[k + 1]
    BY <1>3
  <2>5. /\ h[k] = IF k < i THEN f[k] ELSE f[k + 1] - c
        /\ h[k - 1] = IF k - 1 < i THEN f[k - 1] ELSE f[k] - c
    BY <2>1
  <2> HIDE DEF h
  <2>6. CASE k < i
    BY <2>1, <2>2, <2>3, <2>4, <2>5, <2>6
  <2>7. CASE k = i
    <3>1. f[k] = f[k - 1] + c
      BY <1>6, <2>7
    <3>2. h[k] = f[k + 1] - c /\ h[k - 1] = f[k - 1] /\ less[k].times_seen = cases[k + 1].times_seen
      BY <2>1, <2>4, <2>5, <2>7
    <3>3. f[k + 1] = (f[k - 1] + c) + less[k].times_seen /\ less[k].times_seen \in Nat
      BY <2>2, <2>3, <3>1, <3>2
    <3>4. \A x, y, z \in Nat : ((x + z) + y) - z = x + y
      OBVIOUS
    <3> QED
      BY <1>5, <2>3, <3>2, <3>3, <3>4
  <2>8. CASE i < k
    <3>1. h[k] = f[k + 1] - c /\ h[k - 1] = f[k] - c /\ less[k].times_seen = cases[k + 1].times_seen
      BY <2>1, <2>4, <2>5, <2>8
    <3>2. \A x, y, z \in Nat : x = y + z => x - c = (y - c) + z
      BY <1>5
    <3>3. f[k + 1] - c = (f[k] - c) + cases[k + 1].times_seen
      BY <2>2, <2>3, <3>2
    <3> QED
      BY <3>1, <3>3
  <2> QED
    BY <2>1, <2>6, <2>7, <2>8
<1> HIDE DEF h
<1>12. Sums(h, less)
  BY <1>2, <1>3, <1>8, <1>9, <1>11 DEF Sums
<1>13. Total(less) = h[n - 1]
  BY <1>3, <1>12, SumsAgree
<1>14. Total(cases) = f[n] /\ f[n] \in Nat
  BY <1>1, <1>2, <1>4 DEF n
<1> QED
  BY <1>5, <1>10, <1>13, <1>14 DEF less, c

-----------------------------------------------------------------------------
(* How a list of cases goes on: its ids, signatures and reviewers. *)

(* The position a signature is first recorded at. *)
LEMMA FirstIs ==
    ASSUME NEW cases \in Seq(Row), NEW s, Known(cases, s)
    PROVE  \E i \in 1..Len(cases) : \A j \in 1..Len(cases) : IsFirst(cases, j, s) <=> j = i
<1> DEFINE here == {i \in 1..Len(cases) : cases[i].signature = s}
           i == Min(here)
<1>1. Len(cases) \in Nat /\ here \subseteq Nat /\ here # {}
  BY DEF Known
<1>2. i \in here /\ \A j \in here : i <= j
  BY <1>1, LeastOf
<1> HIDE DEF i
<1>3. i \in 1..Len(cases) /\ cases[i].signature = s
  BY <1>2
<1>4. \A j \in 1..Len(cases) : cases[j].signature = s => i <= j
  BY <1>2
<1>5. ASSUME NEW j \in 1..Len(cases) PROVE IsFirst(cases, j, s) <=> j = i
  <2>1. ASSUME IsFirst(cases, j, s) PROVE j = i
    <3>1. i <= j
      BY <2>1, <1>4 DEF IsFirst
    <3>2. ~(i \in 1..(j - 1))
      BY <2>1, <1>3 DEF IsFirst
    <3> QED
      BY <1>1, <1>3, <3>1, <3>2
  <2>2. ASSUME j = i PROVE IsFirst(cases, j, s)
    <3>1. ASSUME NEW k \in 1..(j - 1) PROVE cases[k].signature # s
      <4>1. k \in 1..Len(cases) /\ ~(i <= k)
        BY <1>1, <1>3, <2>2
      <4> QED
        BY <1>4, <4>1
    <3> QED
      BY <1>3, <2>2, <3>1 DEF IsFirst
  <2> QED
    BY <2>1, <2>2
<1> QED
  BY <1>3, <1>5

(* Lists with the same ids are loaded alike. *)
LEMMA IdsKept ==
    ASSUME NEW a, Loads(a), NEW b \in Seq(Row), Len(b) = Len(a),
           \A i \in 1..Len(a) : b[i].id = a[i].id
    PROVE  Loads(b)
  BY DEF Loads

LEMMA NextIdIsNext ==
    ASSUME NEW a, Loads(a)
    PROVE  NextId(a) \in Nat \ {0} /\ \A i \in 1..Len(a) : a[i].id < NextId(a)
<1>1. a \in Seq(Row) /\ Len(a) \in Nat
  BY DEF Loads
<1>2. CASE a = <<>>
  BY <1>2 DEF NextId
<1>3. CASE a # <<>>
  <2> DEFINE n == Len(a)
  <2>1. n \in 1..Len(a) /\ a[n] \in Row /\ NextId(a) = a[n].id + 1
    BY <1>1, <1>3 DEF NextId
  <2>2. a[n].id \in Nat \ {0}
    BY <2>1 DEF Row
  <2>3. ASSUME NEW i \in 1..Len(a) PROVE a[i].id < NextId(a)
    <3>1. CASE i = n
      BY <2>1, <2>2, <3>1
    <3>2. CASE i # n
      <4>1. i < n
        BY <1>1, <3>2
      <4>2. a[i].id < a[n].id
        BY <2>1, <4>1 DEF Loads
      <4>3. a[i] \in Row
        BY <1>1
      <4>4. a[i].id \in Nat
        BY <4>3 DEF Row
      <4> QED
        BY <2>1, <2>2, <4>2, <4>4
    <3> QED
      BY <3>1, <3>2
  <2> QED
    BY <2>1, <2>2, <2>3
<1> QED
  BY <1>2, <1>3

LEMMA NextIdAppended ==
    ASSUME NEW a, Loads(a), NEW row \in Row, row.id = NextId(a)
    PROVE  Loads(Append(a, row))
<1> DEFINE b == Append(a, row)
<1>1. /\ b \in Seq(Row) /\ Len(b) = Len(a) + 1 /\ Len(a) \in Nat /\ b[Len(a) + 1] = row
      /\ \A i \in 1..Len(a) : b[i] = a[i]
  BY DEF Loads
<1> HIDE DEF b
<1>2. ASSUME NEW i \in 1..Len(b), NEW j \in 1..Len(b), i < j PROVE b[i].id < b[j].id
  <2>1. i \in 1..Len(a)
    BY <1>1, <1>2
  <2>2. CASE j = Len(a) + 1
    BY <1>1, <2>1, <2>2, NextIdIsNext
  <2>3. CASE j # Len(a) + 1
    <3>1. j \in 1..Len(a)
      BY <1>1, <2>3
    <3> QED
      BY <1>1, <1>2, <2>1, <3>1 DEF Loads
  <2> QED
    BY <2>2, <2>3
<1> QED
  BY <1>1, <1>2 DEF Loads, b

(* b goes on from a: it has its rows, reviewed where they were, and after  *)
(* them rows under signatures a does not know.                             *)
GoesOn(a, b) ==
    /\ b \in Seq(Row) /\ Len(a) <= Len(b)
    /\ \A i \in 1..Len(a) : /\ b[i].id = a[i].id /\ b[i].signature = a[i].signature
                            /\ a[i].by # Unknown => b[i].by # Unknown
    /\ \A j \in 1..Len(b) : j > Len(a) => ~Known(a, b[j].signature)

StillReviewed(a, b) ==
    \A i \in DOMAIN a, j \in DOMAIN b :
        /\ a[i].id = b[j].id /\ a[i].signature = b[j].signature /\ a[i].by # Unknown
        => b[j].by # Unknown

LEMMA IdsDiffer ==
    ASSUME NEW a, Loads(a), NEW i \in 1..Len(a), NEW j \in 1..Len(a), a[i].id = a[j].id
    PROVE  i = j
<1>1. a[i] \in Row /\ a[j] \in Row
  BY DEF Loads
<1>2. a[i].id \in Nat /\ a[j].id \in Nat
  BY <1>1 DEF Row
<1>3. ~(i < j) /\ ~(j < i)
  BY <1>2 DEF Loads
<1> QED
  BY <1>3

LEMMA GoesOnReviewed ==
    ASSUME NEW a, Loads(a), NEW b, GoesOn(a, b)
    PROVE  StillReviewed(a, b)
<1>1. /\ a \in Seq(Row) /\ b \in Seq(Row) /\ Len(a) \in Nat /\ Len(b) \in Nat
      /\ DOMAIN a = 1..Len(a) /\ DOMAIN b = 1..Len(b)
  BY DEF Loads, GoesOn
<1> SUFFICES ASSUME NEW i \in 1..Len(a), NEW j \in 1..Len(b), a[i].id = b[j].id,
                    a[i].signature = b[j].signature, a[i].by # Unknown
             PROVE  b[j].by # Unknown
  BY <1>1 DEF StillReviewed
<1>2. ~(j > Len(a))
  BY DEF GoesOn, Known
<1>3. j \in 1..Len(a)
  BY <1>1, <1>2
<1>4. b[j].id = a[j].id
  BY <1>3 DEF GoesOn
<1>5. i = j
  BY <1>3, <1>4, IdsDiffer
<1> QED
  BY <1>3, <1>5 DEF GoesOn

LEMMA GoesOnTwins ==
    ASSUME NEW a \in Seq(Row), NEW b, GoesOn(a, b), Len(b) <= Len(a) + 1, NEW s, TwiceIn(b, s)
    PROVE  TwiceIn(a, s)
<1>1. /\ b \in Seq(Row) /\ Len(a) \in Nat /\ Len(b) \in Nat
      /\ DOMAIN a = 1..Len(a) /\ DOMAIN b = 1..Len(b)
  BY DEF GoesOn
<1>2. PICK i \in 1..Len(b), j \in 1..Len(b) : i # j /\ b[i].signature = s /\ b[j].signature = s
  BY <1>1 DEF TwiceIn
<1>3. ASSUME NEW k \in 1..Len(b), NEW l \in 1..Len(b), k # l, b[k].signature = s, b[l].signature = s
      PROVE  k \in 1..Len(a)
  <2> SUFFICES ASSUME k \notin 1..Len(a) PROVE FALSE
    OBVIOUS
  <2>1. k > Len(a) /\ k = Len(a) + 1 /\ l \in 1..Len(a)
    BY <1>1, <1>3
  <2>2. ~Known(a, s)
    BY <2>1, <1>3 DEF GoesOn
  <2>3. a[l].signature = s
    BY <2>1, <1>3 DEF GoesOn
  <2> QED
    BY <2>1, <2>2, <2>3 DEF Known
<1>4. i \in 1..Len(a) /\ j \in 1..Len(a)
  BY <1>2, <1>3
<1>5. a[i].signature = s /\ a[j].signature = s
  BY <1>2, <1>4 DEF GoesOn
<1> QED
  BY <1>1, <1>2, <1>4, <1>5 DEF TwiceIn

LEMMA GoesOnFurther ==
    ASSUME NEW a \in Seq(Row), NEW b, NEW c, GoesOn(a, b), GoesOn(b, c)
    PROVE  GoesOn(a, c)
<1>1. /\ b \in Seq(Row) /\ c \in Seq(Row) /\ Len(a) \in Nat /\ Len(b) \in Nat /\ Len(c) \in Nat
      /\ Len(a) <= Len(b) /\ Len(b) <= Len(c)
  BY DEF GoesOn
<1>2. \A i \in 1..Len(a) : i \in 1..Len(b)
  BY <1>1
<1>3. \A i \in 1..Len(a) : /\ c[i].id = a[i].id /\ c[i].signature = a[i].signature
                           /\ a[i].by # Unknown => c[i].by # Unknown
  BY <1>2 DEF GoesOn
<1>4. \A s : Known(a, s) => Known(b, s)
  BY <1>2 DEF GoesOn, Known
<1>5. ASSUME NEW j \in 1..Len(c), j > Len(a) PROVE ~Known(a, c[j].signature)
  <2>1. CASE j > Len(b)
    BY <2>1, <1>4 DEF GoesOn
  <2>2. CASE ~(j > Len(b))
    <3>1. j \in 1..Len(b)
      BY <1>1, <2>2
    <3>2. c[j].signature = b[j].signature
      BY <3>1 DEF GoesOn
    <3> QED
      BY <1>5, <3>1, <3>2 DEF GoesOn
  <2> QED
    BY <2>1, <2>2
<1>6. Len(a) <= Len(c)
  BY <1>1
<1> QED
  BY <1>1, <1>3, <1>5, <1>6 DEF GoesOn

LEMMA GoesOnWith ==
    ASSUME NEW a \in Seq(Row), NEW row \in Row, ~Known(a, row.signature)
    PROVE  GoesOn(a, Append(a, row)) /\ Len(Append(a, row)) = Len(a) + 1
<1> DEFINE b == Append(a, row)
<1>1. /\ b \in Seq(Row) /\ Len(b) = Len(a) + 1 /\ Len(a) \in Nat /\ b[Len(a) + 1] = row
      /\ \A i \in 1..Len(a) : b[i] = a[i]
  OBVIOUS
<1> HIDE DEF b
<1>2. \A j \in 1..Len(b) : j > Len(a) => j = Len(a) + 1
  BY <1>1
<1>3. Len(a) <= Len(b)
  BY <1>1
<1>4. \A j \in 1..Len(b) : j > Len(a) => ~Known(a, b[j].signature)
  BY <1>1, <1>2
<1> QED
  BY <1>1, <1>3, <1>4 DEF GoesOn, b

-----------------------------------------------------------------------------
(* What record(), import --merge and merge do to a list of cases. *)

(* record(): the base goes on, with one occurrence more. *)
LEMMA RecordedFacts ==
    ASSUME Loads(rows), NEW s \in Signatures, NEW w \in Writers
    PROVE  /\ Loads(RecordedBy(s, w)) /\ GoesOn(rows, RecordedBy(s, w))
           /\ Len(RecordedBy(s, w)) <= Len(rows) + 1
           /\ Total(RecordedBy(s, w)) = Total(rows) + 1
<1> DEFINE n == Len(rows)
           R == Recorded(rows, s, w)
           B == RecordedBy(s, w)
<1>1. /\ rows \in Seq(Row) /\ n \in Nat /\ DOMAIN rows = 1..n
      /\ \A i \in 1..n : /\ rows[i] \in Row /\ rows[i].times_seen \in Nat \ {0}
                         /\ rows[i].id \in Nat \ {0} /\ rows[i].signature \in Signatures
                         /\ rows[i].by \in Writers
  <2>1. rows \in Seq(Row)
    BY DEF Loads
  <2>2. \A row \in Row : /\ row.times_seen \in Nat \ {0} /\ row.id \in Nat \ {0}
                         /\ row.signature \in Signatures /\ row.by \in Writers
    BY DEF Row
  <2>3. n \in Nat /\ DOMAIN rows = 1..n /\ \A i \in 1..n : rows[i] \in Row
    BY <2>1
  <2> QED
    BY <2>1, <2>2, <2>3
<1> HIDE DEF n
<1>2. CASE Known(rows, s)
  <2>1. PICK i \in 1..n : \A j \in 1..n : IsFirst(rows, j, s) <=> j = i
    BY <1>1, <1>2, FirstIs DEF n
  <2> DEFINE bumped(v) == [id |-> rows[i].id, signature |-> rows[i].signature,
                           times_seen |-> rows[i].times_seen + 1, by |-> v]
             seenBy == IF w = Unknown THEN rows[i].by ELSE w
  <2>2. R = [j \in 1..n |-> IF j = i THEN bumped(w) ELSE rows[j]]
    BY <1>2, <2>1 DEF Recorded, Bumped, n
  <2>3. B = [j \in 1..n |-> IF j = i THEN bumped(seenBy) ELSE rows[j]]
    <3>1. CASE w = Unknown
      <4>1. B = [j \in DOMAIN R |-> IF j \in DOMAIN rows THEN [R[j] EXCEPT !.by = rows[j].by] ELSE R[j]]
        BY <3>1 DEF RecordedBy
      <4>2. DOMAIN R = 1..n /\ DOMAIN rows = 1..n
        BY <1>1, <2>2
      <4>3. [R[i] EXCEPT !.by = rows[i].by] = bumped(rows[i].by)
        BY <2>2
      <4>4. ASSUME NEW j \in 1..n, j # i PROVE [R[j] EXCEPT !.by = rows[j].by] = rows[j]
        BY <1>1, <2>2, <4>4 DEF Row
      <4>5. \A j \in 1..n : [R[j] EXCEPT !.by = rows[j].by] = IF j = i THEN bumped(rows[i].by) ELSE rows[j]
        BY <4>3, <4>4
      <4> HIDE DEF B, R, bumped
      <4> QED
        BY <3>1, <4>1, <4>2, <4>5
    <3>2. CASE w # Unknown
      BY <2>2, <3>2 DEF RecordedBy
    <3> QED
      BY <3>1, <3>2
  <2>4. bumped(seenBy) \in Row /\ seenBy \in Writers /\ (rows[i].by # Unknown => seenBy # Unknown)
    <3>1. rows[i] \in Row
      BY <1>1
    <3>2. \A y \in Writers : bumped(y) \in Row
      BY <3>1 DEF Row
    <3>3. seenBy \in Writers /\ (rows[i].by # Unknown => seenBy # Unknown)
      BY <3>1 DEF Row
    <3> HIDE DEF seenBy, bumped
    <3> QED
      BY <3>2, <3>3
  <2>5. /\ bumped(seenBy).id = rows[i].id /\ bumped(seenBy).signature = rows[i].signature
        /\ bumped(seenBy).times_seen = rows[i].times_seen + 1 /\ bumped(seenBy).by = seenBy
    OBVIOUS
  <2> HIDE DEF B, R, bumped, seenBy
  <2>6. B \in Seq(Row) /\ Len(B) = n
    BY <1>1, <2>3, <2>4
  <2>7. \A j \in 1..n : /\ B[j].id = rows[j].id /\ B[j].signature = rows[j].signature
                        /\ rows[j].by # Unknown => B[j].by # Unknown
                        /\ B[j].times_seen = rows[j].times_seen + (IF j = i THEN 1 ELSE 0)
    <3> TAKE j \in 1..n
    <3>1. CASE j = i
      BY <2>3, <2>4, <2>5, <3>1
    <3>2. CASE j # i
      BY <1>1, <2>3, <3>2
    <3> QED
      BY <3>1, <3>2
  <2>8. Loads(B)
    BY <2>6, <2>7, IdsKept DEF n
  <2>9. GoesOn(rows, B) /\ Len(B) <= Len(rows) + 1
    <3>1. \A j \in 1..n : ~(j > n)
      BY <1>1
    <3>2. n <= n /\ n <= n + 1
      BY <1>1
    <3> QED
      BY <2>6, <2>7, <3>1, <3>2 DEF GoesOn, n
  <2>10. Total(B) = Total(rows) + 1
    <3>1. i \in 1..Len(rows) /\ CountsMore(B, rows, i, 1)
      BY <2>6, <2>7 DEF n, CountsMore
    <3>2. 1 \in Nat /\ rows \in Seq(Row) /\ B \in Seq(Row)
      BY <1>1, <2>6
    <3> QED
      BY <3>1, <3>2, TotalChanged
  <2> QED
    BY <2>8, <2>9, <2>10 DEF B
<1>3. CASE ~Known(rows, s)
  <2> DEFINE new == NewRow(rows, s, w)
  <2>1. /\ new \in Row /\ new.id = NextId(rows) /\ new.signature = s /\ new.times_seen = 1
    BY NextIdIsNext DEF NewRow, Row
  <2>2. R = Append(rows, new)
    BY <1>3 DEF Recorded
  <2> HIDE DEF new
  <2>3. /\ Len(R) = n + 1 /\ DOMAIN R = 1..(n + 1) /\ R[n + 1] = new /\ \A i \in 1..n : R[i] = rows[i]
        /\ R \in Seq(Row)
    BY <1>1, <2>1, <2>2 DEF n
  <2>4. B = R
    <3>1. CASE w = Unknown
      <4>1. B = [j \in DOMAIN R |-> IF j \in DOMAIN rows THEN [R[j] EXCEPT !.by = rows[j].by] ELSE R[j]]
        BY <3>1 DEF RecordedBy
      <4>2. ASSUME NEW j \in 1..n PROVE [R[j] EXCEPT !.by = rows[j].by] = R[j]
        BY <1>1, <2>3 DEF Row
      <4>3. R = [j \in DOMAIN R |-> R[j]]
        BY <2>3
      <4> HIDE DEF B, R
      <4>4. [j \in DOMAIN R |-> IF j \in DOMAIN rows THEN [R[j] EXCEPT !.by = rows[j].by] ELSE R[j]]
                = [j \in DOMAIN R |-> R[j]]
        BY <1>1, <4>2
      <4> QED
        BY <4>1, <4>3, <4>4
    <3>2. CASE w # Unknown
      BY <3>2 DEF RecordedBy
    <3> QED
      BY <3>1, <3>2
  <2>5. Loads(R)
    BY <2>1, <2>2, NextIdAppended
  <2>6. GoesOn(rows, R) /\ Len(R) <= Len(rows) + 1
    <3>1. GoesOn(rows, Append(rows, new)) /\ Len(Append(rows, new)) = Len(rows) + 1
      BY <1>1, <1>3, <2>1, GoesOnWith
    <3>2. Len(rows) + 1 <= Len(rows) + 1
      BY <1>1 DEF n
    <3> HIDE DEF R
    <3> QED
      BY <2>2, <3>1, <3>2
  <2>7. Total(R) = Total(rows) + 1
    BY <1>1, <2>1, <2>2, TotalAppended
  <2> QED
    BY <2>4, <2>5, <2>6, <2>7
<1> QED
  BY <1>2, <1>3

(* One imported case: the base goes on, with the case's occurrences. *)
LEMMA FoldedFacts ==
    ASSUME NEW cases, Loads(cases), NEW row \in Row
    PROVE  /\ Loads(Folded(cases, row)) /\ GoesOn(cases, Folded(cases, row))
           /\ Len(Folded(cases, row)) <= Len(cases) + 1
           /\ Total(Folded(cases, row)) = Total(cases) + row.times_seen
<1> DEFINE n == Len(cases)
           F == Folded(cases, row)
<1>1. /\ cases \in Seq(Row) /\ n \in Nat /\ DOMAIN cases = 1..n
      /\ \A i \in 1..n : /\ cases[i] \in Row /\ cases[i].times_seen \in Nat \ {0}
  <2>1. cases \in Seq(Row)
    BY DEF Loads
  <2>2. \A r \in Row : r.times_seen \in Nat \ {0}
    BY DEF Row
  <2>3. n \in Nat /\ DOMAIN cases = 1..n /\ \A i \in 1..n : cases[i] \in Row
    BY <2>1
  <2> QED
    BY <2>1, <2>2, <2>3
<1>2. row.times_seen \in Nat /\ row.times_seen # 0
  BY DEF Row
<1> HIDE DEF n
<1>3. CASE Known(cases, row.signature)
  <2>1. PICK i \in 1..n : \A j \in 1..n : IsFirst(cases, j, row.signature) <=> j = i
    BY <1>1, <1>3, FirstIs DEF n
  <2> DEFINE bumped == [cases[i] EXCEPT !.times_seen = cases[i].times_seen + row.times_seen]
  <2>2. F = [j \in 1..n |-> IF j = i THEN bumped ELSE cases[j]]
    <3>1. F = CountedIn(cases, row)
      BY <1>3 DEF Folded
    <3>2. CountedIn(cases, row) =
             [j \in 1..n |-> IF j = i THEN [cases[j] EXCEPT !.times_seen = cases[j].times_seen + row.times_seen]
                                      ELSE cases[j]]
      BY <1>1, <2>1 DEF CountedIn
    <3> QED
      BY <3>1, <3>2
  <2>3. cases[i].times_seen + row.times_seen \in Nat \ {0}
    BY <1>1, <1>2
  <2>4. /\ bumped \in Row /\ bumped.id = cases[i].id /\ bumped.signature = cases[i].signature
        /\ bumped.by = cases[i].by /\ bumped.times_seen = cases[i].times_seen + row.times_seen
    BY <1>1, <2>3 DEF Row
  <2> HIDE DEF F, bumped
  <2>5. F \in Seq(Row) /\ Len(F) = n
    BY <1>1, <2>2, <2>4
  <2>6. \A j \in 1..n : /\ F[j].id = cases[j].id /\ F[j].signature = cases[j].signature
                        /\ F[j].by = cases[j].by
                        /\ F[j].times_seen = cases[j].times_seen + (IF j = i THEN row.times_seen ELSE 0)
    <3> TAKE j \in 1..n
    <3>1. CASE j = i
      BY <2>2, <2>4, <3>1
    <3>2. CASE j # i
      BY <1>1, <2>2, <3>2
    <3> QED
      BY <3>1, <3>2
  <2>7. Loads(F)
    BY <2>5, <2>6, IdsKept DEF n
  <2>8. GoesOn(cases, F) /\ Len(F) <= Len(cases) + 1
    <3>1. \A j \in 1..n : ~(j > n)
      BY <1>1
    <3>2. n <= n /\ n <= n + 1
      BY <1>1
    <3> QED
      BY <2>5, <2>6, <3>1, <3>2 DEF GoesOn, n
  <2>9. Total(F) = Total(cases) + row.times_seen
    <3>1. i \in 1..Len(cases) /\ CountsMore(F, cases, i, row.times_seen)
      BY <2>5, <2>6 DEF n, CountsMore
    <3> QED
      BY <1>1, <1>2, <2>5, <3>1, TotalChanged
  <2> QED
    BY <2>7, <2>8, <2>9 DEF F
<1>4. CASE ~Known(cases, row.signature)
  <2> DEFINE new == [row EXCEPT !.id = NextId(cases)]
  <2>1. /\ new \in Row /\ new.id = NextId(cases) /\ new.signature = row.signature
        /\ new.times_seen = row.times_seen
    BY NextIdIsNext DEF Row
  <2>2. F = Append(cases, new)
    BY <1>4 DEF Folded
  <2> HIDE DEF new, F
  <2>3. Loads(F)
    BY <2>1, <2>2, NextIdAppended
  <2>4. GoesOn(cases, F) /\ Len(F) <= Len(cases) + 1
    <3>1. GoesOn(cases, Append(cases, new)) /\ Len(Append(cases, new)) = Len(cases) + 1
      BY <1>1, <1>4, <2>1, GoesOnWith
    <3>2. Len(cases) + 1 <= Len(cases) + 1
      BY <1>1 DEF n
    <3> QED
      BY <2>2, <3>1, <3>2
  <2>5. Total(F) = Total(cases) + row.times_seen
    BY <1>1, <2>1, <2>2, TotalAppended
  <2> QED
    BY <2>3, <2>4, <2>5 DEF F
<1> QED
  BY <1>3, <1>4

LEMMA GoesOnItself == ASSUME NEW a, Loads(a) PROVE GoesOn(a, a)
<1>1. a \in Seq(Row) /\ Len(a) \in Nat /\ Len(a) <= Len(a) /\ \A j \in 1..Len(a) : ~(j > Len(a))
  BY DEF Loads
<1> QED
  BY <1>1 DEF GoesOn

(* import --merge folds the cases of a file into the base one by one. *)
LEMMA MergedAlong ==
    ASSUME NEW file \in Seq(Row), rows \in Seq(Row),
           \A cases \in Seq(Row), row \in Row : Folded(cases, row) \in Seq(Row)
    PROVE  \E f : /\ f \in [0..Len(file) -> Seq(Row)] /\ f[0] = rows
                  /\ \A k \in 1..Len(file) : f[k] = Folded(f[k - 1], file[k])
                  /\ MergedWith(file) = f[Len(file)]
<1> DEFINE n == Len(file)
           step == [p \in Seq(Row) \X (1..n) |-> Folded(p[1], file[p[2]])]
           Is(h) == h = [s \in SUBSET DOMAIN file |->
                            IF s = {} THEN rows ELSE Folded(h[s \ {Max(s)}], file[Max(s)])]
           the == CHOOSE h : Is(h)
<1>1. n \in Nat /\ DOMAIN file = 1..n /\ \A k \in 1..n : file[k] \in Row
  BY RowsCount
<1>1a. n \in Nat
  OBVIOUS
<1> HIDE DEF n
<1>2. step \in [Seq(Row) \X (1..n) -> Seq(Row)]
  BY <1>1
<1>3. \A v \in Seq(Row), k \in 1..n : step[<<v, k>>] = Folded(v, file[k])
  OBVIOUS
<1> HIDE DEF step
<1>4. PICK g \in [SUBSET (1..n) -> Seq(Row)] : FoldsBy(g, n, rows, step)
  BY <1>1, <1>2, FoldExists
<1>5. Is(g)
  <2>1. ASSUME NEW s \in SUBSET (1..n)
        PROVE  g[s] = IF s = {} THEN rows ELSE Folded(g[s \ {Max(s)}], file[Max(s)])
    <3>1. CASE s = {}
      BY <1>4, <3>1 DEF FoldsBy
    <3>2. CASE s # {}
      <4>1. Max(s) \in 1..n /\ s \ {Max(s)} \in SUBSET (1..n)
        BY <1>1, <3>2, GreatestIsIn
      <4>2. g[s \ {Max(s)}] \in Seq(Row)
        BY <4>1
      <4>3. g[s] = step[<<g[s \ {Max(s)}], Max(s)>>]
        BY <1>4, <3>2 DEF FoldsBy
      <4> QED
        BY <1>3, <3>2, <4>1, <4>2, <4>3
    <3> QED
      BY <3>1, <3>2
  <2>2. g = [s \in SUBSET (1..n) |-> g[s]]
    OBVIOUS
  <2> QED
    BY <1>1, <2>1, <2>2
<1> HIDE DEF Is
<1>6. Is(the)
  BY <1>5
<1>7. MergedWith(file) = the[DOMAIN file]
  BY DEF MergedWith, FoldLeft, MapThenFoldSet, Is
<1> HIDE DEF the
<1> DEFINE f == [k \in 0..n |-> the[1..k]]
<1>8. f[0] = rows
  <2>1. 1..0 = {} /\ {} \in SUBSET (1..n) /\ 0 \in 0..n
    BY <1>1
  <2>2. the[{}] = rows
    BY <1>1, <1>6, <2>1 DEF Is
  <2> QED
    BY <2>1, <2>2
<1>9. ASSUME NEW k \in 1..n PROVE f[k] = Folded(f[k - 1], file[k])
  <2>1. /\ 1..k \in SUBSET (1..n) /\ 1..k # {} /\ k \in 0..n /\ k - 1 \in 0..n
        /\ (1..k) \ {k} = 1..(k - 1)
    BY <1>1a, WithoutLast
  <2>2. Max(1..k) = k
    BY <1>1a, WithoutLast
  <2>3. the[1..k] = Folded(the[(1..k) \ {Max(1..k)}], file[Max(1..k)])
    BY <1>1, <1>6, <2>1 DEF Is
  <2> QED
    BY <2>1, <2>2, <2>3
<1>10. f = [k \in 0..n |-> f[k]] /\ MergedWith(file) = f[n]
  BY <1>1, <1>7
<1> HIDE DEF f
<1>11. \A k \in 0..n : f[k] \in Seq(Row)
  <2> DEFINE in == {k \in 0..n : f[k] \in Seq(Row)}
  <2>1. 0 \in in
    BY <1>1, <1>8
  <2>2. ASSUME NEW k \in 0..n, k \in in, k < n PROVE k + 1 \in in
    <3>1. k + 1 \in 1..n /\ (k + 1) - 1 = k /\ k + 1 \in 0..n
      BY <1>1, <2>2
    <3>2. f[k + 1] = Folded(f[k], file[k + 1]) /\ f[k] \in Seq(Row) /\ file[k + 1] \in Row
      BY <1>1, <3>1, <1>9, <2>2
    <3> QED
      BY <3>1, <3>2
  <2> HIDE DEF in
  <2>3. \A k \in 0..n : k \in in
    BY <1>1, <2>1, <2>2, UpTo
  <2> QED
    BY <2>3 DEF in
<1> QED
  BY <1>8, <1>9, <1>10, <1>11 DEF n

(* The base that import --merge saves: it goes on from the live one, has   *)
(* no twins the live one had not, and counts both.                         *)
LEMMA MergedWithFacts ==
    ASSUME Loads(rows), NEW file, Loads(file)
    PROVE  /\ Loads(MergedWith(file)) /\ GoesOn(rows, MergedWith(file))
           /\ \A s : TwiceIn(MergedWith(file), s) => TwiceIn(rows, s)
           /\ Total(MergedWith(file)) = Total(rows) + Total(file)
<1>0. rows \in Seq(Row) /\ file \in Seq(Row)
  BY DEF Loads
<1>1. \A cases \in Seq(Row), row \in Row : Folded(cases, row) \in Seq(Row)
  <2> TAKE cases \in Seq(Row), row \in Row
  <2>1. NextId(cases) \in Nat \ {0}
    <3>1. CASE cases = <<>>
      BY <3>1 DEF NextId
    <3>2. CASE cases # <<>>
      <4>1. cases[Len(cases)] \in Row
        BY <3>2
      <4>2. cases[Len(cases)].id \in Nat
        BY <4>1 DEF Row
      <4> QED
        BY <3>2, <4>2 DEF NextId
    <3> QED
      BY <3>1, <3>2
  <2>2. [row EXCEPT !.id = NextId(cases)] \in Row
    BY <2>1 DEF Row
  <2>3. CountedIn(cases, row) \in Seq(Row)
    <3>1. \A i \in 1..Len(cases) :
             /\ cases[i] \in Row
             /\ [cases[i] EXCEPT !.times_seen = cases[i].times_seen + row.times_seen] \in Row
      <4> TAKE i \in 1..Len(cases)
      <4>1. cases[i] \in Row
        OBVIOUS
      <4>2. cases[i].times_seen + row.times_seen \in Nat \ {0}
        BY <4>1 DEF Row
      <4> QED
        BY <4>1, <4>2 DEF Row
    <3>2. CountedIn(cases, row) \in [1..Len(cases) -> Row]
      BY <3>1 DEF CountedIn
    <3>3. Len(cases) \in Nat
      OBVIOUS
    <3> HIDE DEF CountedIn
    <3> QED
      BY <3>2, <3>3
  <2> QED
    BY <2>2, <2>3 DEF Folded
<1>2. PICK f : /\ f \in [0..Len(file) -> Seq(Row)] /\ f[0] = rows
               /\ \A k \in 1..Len(file) : f[k] = Folded(f[k - 1], file[k])
               /\ MergedWith(file) = f[Len(file)]
  BY <1>0, <1>1, MergedAlong
<1>3. PICK sums : Sums(sums, file) /\ Total(file) = sums[Len(file)]
  BY <1>0, TotalSums
<1> DEFINE Fine(k) == /\ Loads(f[k]) /\ GoesOn(rows, f[k])
                      /\ \A s : TwiceIn(f[k], s) => TwiceIn(rows, s)
                      /\ Total(f[k]) = Total(rows) + sums[k]
           fine == {k \in 0..Len(file) : Fine(k)}
<1>4. Len(file) \in Nat /\ \A k \in 1..Len(file) : file[k] \in Row /\ file[k].times_seen \in Nat
  BY <1>0, RowsCount
<1>5. 0 \in fine
  <2>1. sums[0] = 0 /\ Total(rows) \in Nat
    BY <1>0, <1>3, TotalType DEF Sums
  <2> QED
    BY <1>2, <1>4, <2>1, GoesOnItself
<1>6. ASSUME NEW k \in 0..Len(file), k \in fine, k < Len(file) PROVE k + 1 \in fine
  <2>1. k + 1 \in 1..Len(file) /\ (k + 1) - 1 = k /\ k + 1 \in 0..Len(file)
    BY <1>4, <1>6
  <2>2. f[k + 1] = Folded(f[k], file[k + 1]) /\ f[k] \in Seq(Row) /\ file[k + 1] \in Row
    BY <1>2, <1>4, <2>1
  <2>3. Fine(k)
    BY <1>6
  <2>4. /\ Loads(f[k + 1]) /\ GoesOn(f[k], f[k + 1]) /\ Len(f[k + 1]) <= Len(f[k]) + 1
        /\ Total(f[k + 1]) = Total(f[k]) + file[k + 1].times_seen
    BY <2>2, <2>3, FoldedFacts
  <2>5. GoesOn(rows, f[k + 1])
    BY <1>0, <2>3, <2>4, GoesOnFurther
  <2>6. \A s : TwiceIn(f[k + 1], s) => TwiceIn(rows, s)
    BY <2>2, <2>3, <2>4, GoesOnTwins
  <2>7. Total(f[k + 1]) = Total(rows) + sums[k + 1]
    <3>1. sums[k + 1] = sums[k] + file[k + 1].times_seen /\ sums[k] \in Nat
      BY <1>3, <2>1 DEF Sums
    <3>2. Total(rows) \in Nat /\ file[k + 1].times_seen \in Nat
      BY <1>0, <1>4, <2>1, TotalType
    <3>3. Total(f[k]) = Total(rows) + sums[k]
      BY <2>3
    <3> HIDE DEF Fine
    <3>4. \A t, x, y, z \in Nat : (t + x) + y = t + (x + y)
      OBVIOUS
    <3> QED
      BY <2>4, <3>1, <3>2, <3>3, <3>4
  <2> QED
    BY <2>1, <2>4, <2>5, <2>6, <2>7
<1> HIDE DEF fine
<1>7. \A k \in 0..Len(file) : k \in fine
  BY <1>4, <1>5, <1>6, UpTo
<1>8. Len(file) \in fine
  BY <1>4, <1>7
<1>9. Fine(Len(file))
  BY <1>8 DEF fine
<1> QED
  BY <1>2, <1>3, <1>9

(* A row taken out of a list. *)
LEMMA TakenOut ==
    ASSUME NEW a, Loads(a), NEW i \in 1..Len(a)
    PROVE  /\ Loads(RemoveAt(a, i)) /\ Len(RemoveAt(a, i)) \in Nat
           /\ \A j \in 1..Len(RemoveAt(a, i)) : \E k \in 1..Len(a) : RemoveAt(a, i)[j] = a[k]
           /\ \A s : TwiceIn(RemoveAt(a, i), s) => TwiceIn(a, s)
<1> DEFINE b == RemoveAt(a, i)
           from(j) == IF j < i THEN j ELSE j + 1
<1>1. a \in Seq(Row) /\ Len(a) \in Nat /\ DOMAIN a = 1..Len(a)
  BY DEF Loads
<1>2. /\ b \in Seq(Row) /\ Len(b) = Len(a) - 1
      /\ \A j \in 1..(Len(a) - 1) : b[j] = IF j < i THEN a[j] ELSE a[j + 1]
  BY <1>1, RowRemoved
<1> HIDE DEF b
<1>3. Len(b) \in Nat /\ DOMAIN b = 1..Len(b)
  BY <1>2
<1>4. \A j \in 1..Len(b) : from(j) \in 1..Len(a) /\ b[j] = a[from(j)]
  BY <1>1, <1>2
<1>5. \A j, k \in 1..Len(b) : (j < k => from(j) < from(k)) /\ (j # k => from(j) # from(k))
  BY <1>1, <1>2
<1> HIDE DEF from
<1>6. Loads(b)
  BY <1>2, <1>4, <1>5 DEF Loads
<1>7. \A s : TwiceIn(b, s) => TwiceIn(a, s)
  BY <1>1, <1>3, <1>4, <1>5 DEF TwiceIn
<1> QED
  BY <1>3, <1>4, <1>6, <1>7 DEF b

(* qa merge: one row less, nothing forgotten. *)
LEMMA MergedFacts ==
    ASSUME Loads(rows), NEW into \in DOMAIN rows, NEW from \in DOMAIN rows, into # from
    PROVE  /\ Loads(Merged(into, from)) /\ StillReviewed(rows, Merged(into, from))
           /\ \A s : TwiceIn(Merged(into, from), s) => TwiceIn(rows, s)
           /\ Total(Merged(into, from)) = Total(rows)
<1> DEFINE d == rows[from].times_seen
           m == [rows EXCEPT ![into].times_seen = rows[into].times_seen + d]
<1>1. /\ rows \in Seq(Row) /\ Len(rows) \in Nat /\ DOMAIN rows = 1..Len(rows)
      /\ \A k \in 1..Len(rows) : rows[k] \in Row /\ rows[k].times_seen \in Nat
  <2>1. rows \in Seq(Row)
    BY DEF Loads
  <2> QED
    BY <2>1, RowsCount
<1>2. d \in Nat /\ rows[into].times_seen + d \in Nat \ {0}
  <2>1. rows[into].times_seen \in Nat \ {0} /\ rows[from].times_seen \in Nat
    BY <1>1 DEF Row
  <2> QED
    BY <2>1
<1> HIDE DEF d
<1>3. [rows[into] EXCEPT !.times_seen = rows[into].times_seen + d] \in Row
  BY <1>1, <1>2 DEF Row
<1>4. /\ m \in Seq(Row) /\ Len(m) = Len(rows) /\ DOMAIN m = DOMAIN rows
      /\ m[into] = [rows[into] EXCEPT !.times_seen = rows[into].times_seen + d]
      /\ \A k \in 1..Len(rows) : k # into => m[k] = rows[k]
  BY <1>1, <1>3
<1>5. \A k \in 1..Len(rows) : /\ m[k].id = rows[k].id /\ m[k].signature = rows[k].signature
                              /\ m[k].by = rows[k].by
                              /\ m[k].times_seen = rows[k].times_seen + (IF k = into THEN d ELSE 0)
  <2>1. /\ m[into].id = rows[into].id /\ m[into].signature = rows[into].signature
        /\ m[into].by = rows[into].by /\ m[into].times_seen = rows[into].times_seen + d
    BY <1>1, <1>4 DEF Row
  <2> HIDE DEF m
  <2> TAKE k \in 1..Len(rows)
  <2>2. CASE k = into
    BY <2>1, <2>2
  <2>3. CASE k # into
    BY <1>1, <1>4, <2>3
  <2> QED
    BY <2>2, <2>3
<1>6. Merged(into, from) = RemoveAt(m, from)
  BY DEF Merged, d
<1> HIDE DEF m
<1>7. Loads(m)
  BY <1>4, <1>5, IdsKept
<1>8. from \in 1..Len(m)
  BY <1>1, <1>4
<1> DEFINE M == RemoveAt(m, from)
<1>9. /\ Loads(M) /\ Len(M) \in Nat /\ M \in Seq(Row)
      /\ \A j \in 1..Len(M) : \E k \in 1..Len(rows) : M[j] = m[k]
      /\ \A s : TwiceIn(M, s) => TwiceIn(m, s)
  <2>1. /\ Loads(M) /\ Len(M) \in Nat
        /\ \A j \in 1..Len(M) : \E k \in 1..Len(m) : M[j] = m[k]
        /\ \A s : TwiceIn(M, s) => TwiceIn(m, s)
    BY <1>7, <1>8, TakenOut
  <2> HIDE DEF M
  <2> QED
    BY <1>4, <2>1 DEF Loads
<1>10. Total(M) = Total(rows)
  <2>1. Total(m) = Total(rows) + d
    <3>1. into \in 1..Len(rows) /\ m \in Seq(Row) /\ CountsMore(m, rows, into, d)
      BY <1>1, <1>4, <1>5 DEF CountsMore
    <3> QED
      BY <1>1, <1>2, <3>1, TotalChanged
  <2>2. Total(m) = Total(M) + m[from].times_seen
    BY <1>4, <1>8, TotalRemoved
  <2>3. m[from].times_seen = d
    BY <1>1, <1>4 DEF d
  <2>4. Total(M) \in Nat /\ Total(rows) \in Nat
    BY <1>1, <1>9, TotalType
  <2> QED
    BY <1>2, <2>1, <2>2, <2>3, <2>4
<1> HIDE DEF M
<1>11. \A s : TwiceIn(M, s) => TwiceIn(rows, s)
  <2>1. \A s : TwiceIn(m, s) => TwiceIn(rows, s)
    BY <1>1, <1>4, <1>5 DEF TwiceIn
  <2> QED
    BY <1>9, <2>1
<1>12. StillReviewed(rows, M)
  <2>0. DOMAIN rows = 1..Len(rows) /\ DOMAIN M = 1..Len(M)
    BY <1>1, <1>9
  <2> SUFFICES ASSUME NEW i \in 1..Len(rows), NEW j \in 1..Len(M), rows[i].id = M[j].id,
                      rows[i].by # Unknown
               PROVE  M[j].by # Unknown
    BY <2>0 DEF StillReviewed
  <2>1. PICK k \in 1..Len(rows) : M[j] = m[k]
    BY <1>9
  <2>2. rows[k].id = rows[i].id
    BY <1>5, <2>1
  <2>3. k = i
    BY <2>2, IdsDiffer
  <2> QED
    BY <1>5, <2>1, <2>3
<1> QED
  BY <1>6, <1>9, <1>10, <1>11, <1>12 DEF M

-----------------------------------------------------------------------------
(* The case base and its teachers, for any signatures, files and overlap. *)

WorkRecords == [at : {"idle", "asking", "saving"}, cases : Seq(Row), pending : SUBSET Nat,
                touched : BOOLEAN, owes : Nat]

TeacherTyped ==
    /\ Loads(rows) /\ work \in [Teachers -> WorkRecords]
    /\ \A t \in Teachers : Loads(work[t].cases) /\ work[t].pending \subseteq DOMAIN work[t].cases
    /\ owed \in Nat /\ typed \subseteq Signatures /\ solo \in BOOLEAN

(* What is in somebody's hands may become the file at any time. *)
TwinsKnown ==
    \A s \in Signatures : /\ TwiceIn(rows, s) => s \in typed
                          /\ \A t \in Teachers : TwiceIn(work[t].cases, s) => s \in typed

(* One at a time: who is at work holds what the file will count, and every *)
(* reviewed case of the file.                                              *)
SoloExact ==
    solo => /\ Total(rows) = owed
            /\ \A t, u \in Teachers : work[t].at # "idle" /\ work[u].at # "idle" => t = u
            /\ \A t \in Teachers : work[t].at # "idle" =>
                  Total(work[t].cases) = work[t].owes /\ StillReviewed(rows, work[t].cases)

TeacherInv == TeacherTyped /\ TwinsKnown /\ SoloExact

LEMMA NoneLoads == Loads(<<>>) /\ (\A s : ~TwiceIn(<<>>, s)) /\ NoWork \in WorkRecords
  BY DEF Loads, TwiceIn, NoWork, Holding, WorkRecords

LEMMA TeacherInvInit == TeacherInit => TeacherInv
<1> SUFFICES ASSUME TeacherInit PROVE TeacherInv
  OBVIOUS
<1>1. NoWork.cases = <<>> /\ NoWork.pending = {} /\ NoWork.at = "idle"
  BY DEF NoWork, Holding
<1>2. TeacherTyped
  BY <1>1, NoneLoads DEF TeacherInit, TeacherTyped
<1>3. TwinsKnown
  BY <1>1, NoneLoads DEF TeacherInit, TwinsKnown
<1>4. SoloExact
  BY <1>1, TotalOfNone DEF TeacherInit, SoloExact
<1> QED
  BY <1>2, <1>3, <1>4 DEF TeacherInv

(* A teacher takes up, changes or puts down what it holds. *)
LEMMA WorkChanges ==
    ASSUME TeacherInv, NEW t \in Teachers, NEW w \in WorkRecords, Loads(w.cases),
           w.pending \subseteq DOMAIN w.cases, work' = [work EXCEPT ![t] = w],
           rows' = rows, owed' = owed, solo' = solo,
           typed \subseteq typed', typed' \subseteq Signatures,
           \A s \in Signatures : TwiceIn(w.cases, s) => s \in typed',
           (solo /\ w.at # "idle") =>
               /\ \A u \in Teachers \ {t} : work[u].at = "idle"
               /\ Total(w.cases) = w.owes /\ StillReviewed(rows, w.cases)
    PROVE  TeacherInv'
<1>1. work \in [Teachers -> WorkRecords]
  BY DEF TeacherInv, TeacherTyped
<1>2. work' \in [Teachers -> WorkRecords] /\ work'[t] = w /\ \A u \in Teachers \ {t} : work'[u] = work[u]
  BY <1>1
<1>3. TeacherTyped'
  <2>1. \A u \in Teachers : Loads(work'[u].cases) /\ work'[u].pending \subseteq DOMAIN work'[u].cases
    BY <1>2 DEF TeacherInv, TeacherTyped
  <2>2. Loads(rows) /\ owed \in Nat /\ solo \in BOOLEAN
    BY DEF TeacherInv, TeacherTyped
  <2> QED
    BY <1>2, <2>1, <2>2 DEF TeacherTyped
<1>4. TwinsKnown'
  BY <1>2 DEF TeacherInv, TwinsKnown
<1>5. SoloExact'
  <2> SUFFICES ASSUME solo PROVE SoloExact'
    BY DEF SoloExact
  <2>1. Total(rows) = owed
    BY DEF TeacherInv, SoloExact
  <2>2. \A u, v \in Teachers : work'[u].at # "idle" /\ work'[v].at # "idle" => u = v
    BY <1>2 DEF TeacherInv, SoloExact
  <2>3. \A u \in Teachers : work'[u].at # "idle" =>
           Total(work'[u].cases) = work'[u].owes /\ StillReviewed(rows, work'[u].cases)
    BY <1>2 DEF TeacherInv, SoloExact
  <2> QED
    BY <2>1, <2>2, <2>3 DEF SoloExact
<1> QED
  BY <1>3, <1>4, <1>5 DEF TeacherInv

LEMMA RecordKeeps ==
    ASSUME TeacherInv, NEW s \in Signatures, NEW w \in Writers, Record(s, w)
    PROVE  TeacherInv' /\ (solo => StillReviewed(rows, rows'))
<1>1. /\ rows' = RecordedBy(s, w) /\ owed' = Owes(owed + 1) /\ UNCHANGED <<work, typed, solo>>
      /\ solo => \A t \in Teachers : work[t].at = "idle"
  BY DEF Record, MayWork
<1>2. Loads(rows) /\ owed \in Nat /\ rows \in Seq(Row)
  BY DEF TeacherInv, TeacherTyped, Loads
<1>3. /\ Loads(rows') /\ GoesOn(rows, rows') /\ Len(rows') <= Len(rows) + 1
      /\ Total(rows') = Total(rows) + 1
  BY <1>1, <1>2, RecordedFacts
<1>4. StillReviewed(rows, rows')
  BY <1>2, <1>3, GoesOnReviewed
<1>5. TeacherTyped'
  <2>1. owed' \in Nat
    BY <1>1, <1>2 DEF Owes
  <2> QED
    BY <1>1, <1>3, <2>1 DEF TeacherInv, TeacherTyped
<1>6. TwinsKnown'
  <2>1. \A x : TwiceIn(rows', x) => TwiceIn(rows, x)
    BY <1>2, <1>3, GoesOnTwins
  <2>2. \A x : TwiceIn(rows, x)' <=> TwiceIn(rows', x)
    BY DEF TwiceIn
  <2> QED
    BY <1>1, <2>1, <2>2 DEF TeacherInv, TwinsKnown, TwiceIn
<1>7. SoloExact'
  <2> SUFFICES ASSUME solo PROVE SoloExact'
    BY <1>1 DEF SoloExact
  <2>1. Total(rows') = owed'
    BY <1>1, <1>3 DEF TeacherInv, SoloExact, Owes
  <2> QED
    BY <1>1, <2>1 DEF SoloExact
<1> QED
  BY <1>4, <1>5, <1>6, <1>7 DEF TeacherInv

LEMMA OpenSchoolKeeps ==
    ASSUME TeacherInv, NEW t \in Teachers, NEW n, OpenSchool(t, n) PROVE TeacherInv'
<1> DEFINE w == Holding("asking", rows, FirstOf(Unreviewed, n), FALSE, owed)
<1>1. /\ work' = [work EXCEPT ![t] = w] /\ UNCHANGED <<rows, owed, typed, solo>>
      /\ work[t].at = "idle" /\ (solo => \A u \in Teachers : work[u].at = "idle")
  BY DEF OpenSchool, MayWork
<1>2. Loads(rows) /\ rows \in Seq(Row) /\ owed \in Nat
  BY DEF TeacherInv, TeacherTyped, Loads
<1>3. FirstOf(Unreviewed, n) \subseteq DOMAIN rows /\ DOMAIN rows \subseteq Nat
  BY <1>2 DEF FirstOf, Unreviewed
<1>4. /\ w.at = "asking" /\ w.cases = rows /\ w.owes = owed /\ w.pending \subseteq DOMAIN rows
      /\ w \in WorkRecords
  BY <1>2, <1>3 DEF Holding, WorkRecords
<1> HIDE DEF w
<1>5. StillReviewed(rows, rows)
  BY <1>2, GoesOnItself, GoesOnReviewed
<1>6. solo => Total(rows) = owed
  BY DEF TeacherInv, SoloExact
<1>7. typed \subseteq Signatures /\ \A s \in Signatures : TwiceIn(rows, s) => s \in typed
  BY DEF TeacherInv, TeacherTyped, TwinsKnown
<1> QED
  BY <1>1, <1>2, <1>4, <1>5, <1>6, <1>7, WorkChanges

(* Whoever is asking holds a list that loads, and shows one of its cases. *)
LEMMA AskingFacts ==
    ASSUME TeacherInv, NEW t \in Teachers, Asking(t)
    PROVE  /\ Loads(work[t].cases) /\ work[t].cases \in Seq(Row)
           /\ Shown(t) \in 1..Len(work[t].cases) /\ Rest(t) \subseteq DOMAIN work[t].cases
           /\ work[t].owes \in Nat /\ work[t].touched \in BOOLEAN
           /\ solo => /\ \A u \in Teachers \ {t} : work[u].at = "idle"
                      /\ Total(work[t].cases) = work[t].owes
                      /\ StillReviewed(rows, work[t].cases)
<1>1. /\ work[t].at = "asking" /\ work[t].pending # {} /\ work[t] \in WorkRecords
      /\ Loads(work[t].cases) /\ work[t].pending \subseteq DOMAIN work[t].cases
  BY DEF TeacherInv, TeacherTyped, Asking
<1>2. /\ work[t].cases \in Seq(Row) /\ DOMAIN work[t].cases = 1..Len(work[t].cases)
      /\ work[t].owes \in Nat /\ work[t].touched \in BOOLEAN /\ work[t].pending \subseteq Nat
  BY <1>1 DEF WorkRecords
<1>3. Shown(t) \in work[t].pending
  BY <1>1, <1>2, LeastOf DEF Shown
<1>4. solo => /\ \A u \in Teachers \ {t} : work[u].at = "idle"
              /\ Total(work[t].cases) = work[t].owes
              /\ StillReviewed(rows, work[t].cases)
  BY <1>1 DEF TeacherInv, SoloExact
<1> QED
  BY <1>1, <1>2, <1>3, <1>4 DEF Rest

LEMMA ReviewKeeps ==
    ASSUME TeacherInv, NEW t \in Teachers, NEW by \in Writers, Review(t, by) PROVE TeacherInv'
<1> DEFINE old == work[t].cases
           i == Shown(t)
           new == [old EXCEPT ![i].by = by]
           w == Holding("asking", new, Rest(t), TRUE, work[t].owes)
<1>1. /\ Asking(t) /\ by # Unknown /\ work' = [work EXCEPT ![t] = w]
      /\ UNCHANGED <<rows, owed, typed, solo>>
  BY DEF Review, Answered
<1>2. /\ Loads(old) /\ old \in Seq(Row) /\ i \in 1..Len(old) /\ Rest(t) \subseteq DOMAIN old
      /\ work[t].owes \in Nat
      /\ solo => /\ \A u \in Teachers \ {t} : work[u].at = "idle"
                 /\ Total(old) = work[t].owes /\ StillReviewed(rows, old)
  BY <1>1, AskingFacts
<1>3. typed \subseteq Signatures /\ \A s \in Signatures : TwiceIn(old, s) => s \in typed
  BY DEF TeacherInv, TeacherTyped, TwinsKnown
<1> HIDE DEF old, i
<1>4. /\ DOMAIN old = 1..Len(old) /\ Len(old) \in Nat /\ old[i] \in Row
      /\ [old[i] EXCEPT !.by = by] \in Row
  <2>1. DOMAIN old = 1..Len(old) /\ Len(old) \in Nat /\ old[i] \in Row
    BY <1>2
  <2>2. \A r \in Row : [r EXCEPT !.by = by] \in Row
    BY DEF Row
  <2> QED
    BY <2>1, <2>2
<1>5. /\ new \in Seq(Row) /\ Len(new) = Len(old) /\ DOMAIN new = DOMAIN old
      /\ new[i] = [old[i] EXCEPT !.by = by] /\ \A k \in 1..Len(old) : k # i => new[k] = old[k]
  BY <1>2, <1>4
<1>6. \A k \in 1..Len(old) : /\ new[k].id = old[k].id /\ new[k].signature = old[k].signature
                             /\ new[k].times_seen = old[k].times_seen
                             /\ new[k].by = old[k].by \/ new[k].by = by
  <2>1. /\ new[i].id = old[i].id /\ new[i].signature = old[i].signature
        /\ new[i].times_seen = old[i].times_seen /\ new[i].by = by
    BY <1>4, <1>5 DEF Row
  <2> HIDE DEF new
  <2> QED
    BY <1>5, <2>1
<1> HIDE DEF new
<1>7. Loads(new)
  BY <1>2, <1>5, <1>6, IdsKept
<1>8. Total(new) = Total(old)
  BY <1>2, <1>5, <1>6, TotalSame
<1>9. \A s \in Signatures : TwiceIn(new, s) => s \in typed
  BY <1>3, <1>4, <1>5, <1>6 DEF TwiceIn
<1>10. StillReviewed(rows, old) => StillReviewed(rows, new)
  BY <1>1, <1>4, <1>5, <1>6 DEF StillReviewed
<1>11. /\ w \in WorkRecords /\ w.at = "asking" /\ w.cases = new /\ w.pending = Rest(t)
       /\ w.owes = work[t].owes
  <2>1. Rest(t) \subseteq Nat
    BY <1>2, <1>4
  <2> QED
    BY <1>2, <1>5, <2>1 DEF Holding, WorkRecords
<1> HIDE DEF w
<1>12. w.pending \subseteq DOMAIN w.cases /\ Loads(w.cases)
  BY <1>2, <1>5, <1>7, <1>11
<1>13. solo => /\ \A u \in Teachers \ {t} : work[u].at = "idle"
               /\ Total(w.cases) = w.owes /\ StillReviewed(rows, w.cases)
  BY <1>2, <1>8, <1>10, <1>11
<1>14. \A s \in Signatures : TwiceIn(w.cases, s) => s \in typed
  BY <1>9, <1>11
<1> QED
  BY <1>1, <1>3, <1>11, <1>12, <1>13, <1>14, WorkChanges

LEMMA TypeCaseKeeps ==
    ASSUME TeacherInv, NEW t \in Teachers, NEW x \in Signatures, NEW by \in Writers, TypeCase(t, x, by)
    PROVE  TeacherInv'
<1> DEFINE old == work[t].cases
           row == NewRow(old, x, by)
           new == Append(old, row)
           w == Holding("asking", new, Rest(t), TRUE, Owes(work[t].owes + 1))
<1>1. /\ Asking(t) /\ by # Unknown /\ work' = [work EXCEPT ![t] = w]
      /\ typed' = (IF Known(old, x) THEN typed \cup {x} ELSE typed)
      /\ UNCHANGED <<rows, owed, solo>>
  BY DEF TypeCase, Answered
<1>2. /\ Loads(old) /\ old \in Seq(Row) /\ Rest(t) \subseteq DOMAIN old
      /\ work[t].owes \in Nat
      /\ solo => /\ \A u \in Teachers \ {t} : work[u].at = "idle"
                 /\ Total(old) = work[t].owes /\ StillReviewed(rows, old)
  BY <1>1, AskingFacts
<1>3. typed \subseteq Signatures /\ \A s \in Signatures : TwiceIn(old, s) => s \in typed
  BY DEF TeacherInv, TeacherTyped, TwinsKnown
<1> HIDE DEF old
<1>4. /\ row \in Row /\ row.id = NextId(old) /\ row.signature = x /\ row.times_seen = 1 /\ row.by = by
  BY <1>2, NextIdIsNext DEF NewRow, Row
<1> HIDE DEF row
<1>5. /\ new \in Seq(Row) /\ Len(new) = Len(old) + 1 /\ DOMAIN new = 1..Len(new) /\ Len(old) \in Nat
      /\ DOMAIN old = 1..Len(old)
      /\ new[Len(old) + 1] = row /\ \A k \in 1..Len(old) : new[k] = old[k]
  BY <1>2, <1>4
<1>6. Loads(new)
  BY <1>2, <1>4, NextIdAppended
<1>7. Total(new) = Total(old) + 1
  BY <1>2, <1>4, TotalAppended
<1> HIDE DEF new
<1>8. \A k \in DOMAIN new : k \in DOMAIN old \/ k = Len(old) + 1
  BY <1>5
<1>9. \A s \in Signatures : TwiceIn(new, s) => s \in typed'
  <2> SUFFICES ASSUME NEW s \in Signatures, TwiceIn(new, s) PROVE s \in typed'
    OBVIOUS
  <2>1. PICK i \in DOMAIN new, j \in DOMAIN new : i # j /\ new[i].signature = s /\ new[j].signature = s
    BY DEF TwiceIn
  <2>2. CASE i \in DOMAIN old /\ j \in DOMAIN old
    <3>1. TwiceIn(old, s)
      BY <1>5, <2>1, <2>2 DEF TwiceIn
    <3> QED
      BY <1>1, <1>3, <3>1
  <2>3. CASE i = Len(old) + 1 \/ j = Len(old) + 1
    <3>1. s = x /\ \E k \in DOMAIN old : old[k].signature = x
      BY <1>4, <1>5, <1>8, <2>1, <2>3
    <3>2. Known(old, x)
      BY <1>5, <3>1 DEF Known
    <3> QED
      BY <1>1, <3>1, <3>2
  <2> QED
    BY <1>8, <2>1, <2>2, <2>3
<1>10. StillReviewed(rows, old) => StillReviewed(rows, new)
  <2> SUFFICES ASSUME StillReviewed(rows, old), NEW i \in DOMAIN rows, NEW j \in DOMAIN new,
                      rows[i].id = new[j].id, rows[i].signature = new[j].signature, rows[i].by # Unknown
               PROVE  new[j].by # Unknown
    BY DEF StillReviewed
  <2>1. CASE j \in DOMAIN old
    BY <1>5, <2>1 DEF StillReviewed
  <2>2. CASE j = Len(old) + 1
    BY <1>1, <1>4, <1>5, <2>2
  <2> QED
    BY <1>8, <2>1, <2>2
<1>11. /\ w \in WorkRecords /\ w.at = "asking" /\ w.cases = new /\ w.pending = Rest(t)
       /\ solo => w.owes = work[t].owes + 1
  <2>1. Rest(t) \subseteq Nat /\ Owes(work[t].owes + 1) \in Nat
    BY <1>2, <1>5 DEF Owes
  <2> QED
    BY <1>2, <1>5, <2>1 DEF Holding, WorkRecords, Owes
<1> HIDE DEF w
<1>12. w.pending \subseteq DOMAIN w.cases /\ Loads(w.cases)
  BY <1>2, <1>5, <1>6, <1>11
<1>13. solo => /\ \A u \in Teachers \ {t} : work[u].at = "idle"
               /\ Total(w.cases) = w.owes /\ StillReviewed(rows, w.cases)
  BY <1>2, <1>7, <1>10, <1>11
<1>14. \A s \in Signatures : TwiceIn(w.cases, s) => s \in typed'
  BY <1>9, <1>11
<1>15. typed \subseteq typed' /\ typed' \subseteq Signatures
  BY <1>1, <1>3
<1> QED
  BY <1>1, <1>11, <1>12, <1>13, <1>14, <1>15, WorkChanges

LEMMA SkipCaseKeeps ==
    ASSUME TeacherInv, NEW t \in Teachers, SkipCase(t) PROVE TeacherInv'
<1> DEFINE w == [work[t] EXCEPT !.pending = Rest(t)]
<1>1. Asking(t) /\ work' = [work EXCEPT ![t] = w] /\ UNCHANGED <<rows, owed, typed, solo>>
  BY DEF SkipCase
<1>2. /\ work[t] \in WorkRecords /\ Loads(work[t].cases) /\ work[t].cases \in Seq(Row)
      /\ Rest(t) \subseteq DOMAIN work[t].cases
      /\ solo => /\ \A u \in Teachers \ {t} : work[u].at = "idle"
                 /\ Total(work[t].cases) = work[t].owes /\ StillReviewed(rows, work[t].cases)
  BY <1>1, AskingFacts DEF TeacherInv, TeacherTyped
<1>3. typed \subseteq Signatures /\ \A s \in Signatures : TwiceIn(work[t].cases, s) => s \in typed
  BY DEF TeacherInv, TeacherTyped, TwinsKnown
<1>4. /\ w \in WorkRecords /\ w.cases = work[t].cases /\ w.pending = Rest(t)
      /\ w.owes = work[t].owes
  <2>1. Rest(t) \subseteq Nat
    BY <1>2
  <2> QED
    BY <1>2, <2>1 DEF WorkRecords
<1> HIDE DEF w
<1> QED
  BY <1>1, <1>2, <1>3, <1>4, WorkChanges

LEMMA PutsDown ==
    ASSUME TeacherInv, NEW t \in Teachers, work' = [work EXCEPT ![t] = NoWork],
           UNCHANGED <<rows, owed, typed, solo>>
    PROVE  TeacherInv'
<1>1. /\ NoWork \in WorkRecords /\ NoWork.at = "idle" /\ Loads(NoWork.cases)
      /\ NoWork.pending \subseteq DOMAIN NoWork.cases /\ \A s : ~TwiceIn(NoWork.cases, s)
  BY NoneLoads DEF NoWork, Holding
<1>2. typed \subseteq Signatures
  BY DEF TeacherInv, TeacherTyped
<1> QED
  BY <1>1, <1>2, WorkChanges

LEMMA EndSchoolKeeps ==
    ASSUME TeacherInv, NEW t \in Teachers, EndSchool(t) PROVE TeacherInv'
<1> DEFINE w == Holding("saving", work[t].cases, {}, TRUE, work[t].owes)
<1>1. /\ work[t].at = "asking" /\ UNCHANGED <<rows, owed, typed, solo>>
      /\ work' = [work EXCEPT ![t] = IF work[t].touched THEN w ELSE NoWork]
  BY DEF EndSchool
<1>2. CASE ~work[t].touched
  BY <1>1, <1>2, PutsDown
<1>3. CASE work[t].touched
  <2>1. /\ work[t] \in WorkRecords /\ Loads(work[t].cases)
        /\ typed \subseteq Signatures
        /\ \A s \in Signatures : TwiceIn(work[t].cases, s) => s \in typed
    BY DEF TeacherInv, TeacherTyped, TwinsKnown
  <2>2. /\ w \in WorkRecords /\ w.cases = work[t].cases /\ w.pending = {} /\ w.owes = work[t].owes
    BY <2>1 DEF Holding, WorkRecords
  <2>3. solo => /\ \A u \in Teachers \ {t} : work[u].at = "idle"
                /\ Total(work[t].cases) = work[t].owes /\ StillReviewed(rows, work[t].cases)
    BY <1>1 DEF TeacherInv, SoloExact
  <2>4. work' = [work EXCEPT ![t] = w]
    BY <1>1, <1>3
  <2> HIDE DEF w
  <2>5. Loads(w.cases) /\ w.pending \subseteq DOMAIN w.cases
    BY <2>1, <2>2
  <2>6. \A s \in Signatures : TwiceIn(w.cases, s) => s \in typed
    BY <2>1, <2>2
  <2>7. solo => /\ \A u \in Teachers \ {t} : work[u].at = "idle"
                /\ Total(w.cases) = w.owes /\ StillReviewed(rows, w.cases)
    BY <2>2, <2>3
  <2> QED
    BY <1>1, <2>1, <2>2, <2>4, <2>5, <2>6, <2>7, WorkChanges
<1> QED
  BY <1>2, <1>3

(* merge and import hold what they save as soon as they have loaded. *)
LEMMA ReadyKeeps ==
    ASSUME TeacherInv, NEW t \in Teachers, NEW cases, NEW owes \in Nat, Ready(t, cases, owes),
           Loads(cases), \A s \in Signatures : TwiceIn(cases, s) => TwiceIn(rows, s),
           solo => Total(cases) = owes /\ StillReviewed(rows, cases)
    PROVE  TeacherInv'
<1> DEFINE w == Holding("saving", cases, {}, TRUE, owes)
<1>1. /\ work' = [work EXCEPT ![t] = w] /\ UNCHANGED <<rows, owed, typed, solo>>
      /\ solo => \A u \in Teachers : work[u].at = "idle"
  BY DEF Ready, MayWork
<1>2. /\ w \in WorkRecords /\ w.cases = cases /\ w.pending = {} /\ w.owes = owes
  BY DEF Holding, WorkRecords, Loads
<1>3. typed \subseteq Signatures /\ \A s \in Signatures : TwiceIn(cases, s) => s \in typed
  BY DEF TeacherInv, TeacherTyped, TwinsKnown
<1> HIDE DEF w
<1> QED
  BY <1>1, <1>2, <1>3, WorkChanges

LEMMA TeacherHolds ==
    ASSUME TeacherInv
    PROVE  Loads(rows) /\ rows \in Seq(Row) /\ owed \in Nat /\ (solo => Total(rows) = owed)
  BY DEF TeacherInv, TeacherTyped, SoloExact, Loads

LEMMA MergeKeeps ==
    ASSUME TeacherInv, NEW t \in Teachers, NEW into \in DOMAIN rows, NEW from \in DOMAIN rows,
           Merge(t, into, from)
    PROVE  TeacherInv'
  BY TeacherHolds, MergedFacts, ReadyKeeps DEF Merge

LEMMA ImportReplaceKeeps ==
    ASSUME TeacherInv, NEW t \in Teachers, NEW file \in Files, ImportReplace(t, file)
    PROVE  TeacherInv'
<1>1. /\ Loads(file) /\ file \in Seq(Row) /\ \A s \in Signatures : ~TwiceIn(file, s)
      /\ \A s \in Signatures : ~(Known(file, s) /\ Known(rows, s))
      /\ Ready(t, file, Total(file))
  BY TeacherAssumption DEF ImportReplace, HasTwins, Loads
<1>2. Loads(rows) /\ Total(file) \in Nat
  BY <1>1, TeacherHolds, TotalType
<1>3. StillReviewed(rows, file)
  <2> SUFFICES ASSUME NEW i \in DOMAIN rows, NEW j \in DOMAIN file,
                      rows[i].signature = file[j].signature
               PROVE  FALSE
    BY DEF StillReviewed
  <2>1. /\ DOMAIN rows = 1..Len(rows) /\ DOMAIN file = 1..Len(file)
        /\ file[j] \in Row
    BY <1>1, <1>2 DEF Loads
  <2>2. file[j].signature \in Signatures
    BY <2>1 DEF Row
  <2> QED
    BY <1>1, <2>1, <2>2 DEF Known
<1> QED
  BY <1>1, <1>2, <1>3, ReadyKeeps

LEMMA ImportMergeKeeps ==
    ASSUME TeacherInv, NEW t \in Teachers, NEW file \in Files, ImportMerge(t, file)
    PROVE  TeacherInv'
<1>1. Loads(file) /\ file \in Seq(Row) /\ Ready(t, MergedWith(file), owed + Total(file))
  BY TeacherAssumption DEF ImportMerge, Loads
<1>2. Loads(rows) /\ owed \in Nat /\ (solo => Total(rows) = owed) /\ Total(file) \in Nat
  BY <1>1, TeacherHolds, TotalType
<1>3. /\ Loads(MergedWith(file)) /\ GoesOn(rows, MergedWith(file))
      /\ \A s : TwiceIn(MergedWith(file), s) => TwiceIn(rows, s)
      /\ Total(MergedWith(file)) = Total(rows) + Total(file)
  BY <1>1, <1>2, MergedWithFacts
<1>4. StillReviewed(rows, MergedWith(file))
  BY <1>2, <1>3, GoesOnReviewed
<1>5. owed + Total(file) \in Nat
  BY <1>2
<1> QED
  BY <1>1, <1>2, <1>3, <1>4, <1>5, ReadyKeeps

LEMMA SaveKeeps ==
    ASSUME TeacherInv, NEW t \in Teachers, Save(t)
    PROVE  TeacherInv' /\ (solo => StillReviewed(rows, rows'))
<1>1. /\ work[t].at = "saving" /\ rows' = work[t].cases /\ owed' = Owes(work[t].owes)
      /\ work' = [work EXCEPT ![t] = NoWork] /\ UNCHANGED <<typed, solo>>
  BY DEF Save
<1>2. /\ work \in [Teachers -> WorkRecords] /\ work[t] \in WorkRecords /\ Loads(work[t].cases)
  BY DEF TeacherInv, TeacherTyped
<1>3. /\ NoWork \in WorkRecords /\ NoWork.at = "idle" /\ NoWork.cases = <<>>
      /\ NoWork.pending = {}
  BY NoneLoads DEF NoWork, Holding
<1>4. /\ work' \in [Teachers -> WorkRecords] /\ work'[t] = NoWork
      /\ \A u \in Teachers \ {t} : work'[u] = work[u]
  BY <1>1, <1>2, <1>3
<1>5. TeacherTyped'
  <2>1. \A u \in Teachers : Loads(work'[u].cases) /\ work'[u].pending \subseteq DOMAIN work'[u].cases
    BY <1>3, <1>4, NoneLoads DEF TeacherInv, TeacherTyped
  <2>2. owed' \in Nat
    BY <1>1, <1>2 DEF Owes, WorkRecords
  <2> QED
    BY <1>1, <1>2, <1>4, <2>1, <2>2 DEF TeacherInv, TeacherTyped
<1>6. TwinsKnown'
  <2>1. \A s \in Signatures : TwiceIn(rows', s) => s \in typed
    BY <1>1 DEF TeacherInv, TwinsKnown
  <2>2. \A u \in Teachers, s \in Signatures : TwiceIn(work'[u].cases, s) => s \in typed
    BY <1>3, <1>4, NoneLoads DEF TeacherInv, TwinsKnown
  <2> QED
    BY <1>1, <2>1, <2>2 DEF TwinsKnown
<1>7. solo => /\ Total(rows') = work[t].owes /\ StillReviewed(rows, rows')
              /\ \A u \in Teachers \ {t} : work[u].at = "idle"
  BY <1>1 DEF TeacherInv, SoloExact
<1>8. SoloExact'
  <2> SUFFICES ASSUME solo PROVE SoloExact'
    BY <1>1 DEF SoloExact
  <2>1. Total(rows') = owed'
    BY <1>1, <1>7 DEF Owes
  <2>2. \A u \in Teachers : work'[u].at = "idle"
    BY <1>3, <1>4, <1>7
  <2> QED
    BY <2>1, <2>2 DEF SoloExact
<1> QED
  BY <1>5, <1>6, <1>7, <1>8 DEF TeacherInv

(* A step keeps the invariant, and one that changes the file keeps what    *)
(* was reviewed.                                                           *)
LEMMA TeacherInvStep ==
    TeacherInv /\ [TeacherNext]_teacherVars =>
        TeacherInv' /\ (solo /\ rows' # rows => StillReviewed(rows, rows'))
<1> SUFFICES ASSUME TeacherInv, [TeacherNext]_teacherVars
             PROVE  TeacherInv' /\ (solo /\ rows' # rows => StillReviewed(rows, rows'))
  OBVIOUS
<1>1. CASE UNCHANGED teacherVars
  BY <1>1 DEF TeacherInv, TeacherTyped, TwinsKnown, SoloExact, TwiceIn, teacherVars
<1>2. ASSUME NEW t \in Teachers, Teach(t)
      PROVE  TeacherInv' /\ (solo /\ rows' # rows => StillReviewed(rows, rows'))
  <2>1. CASE School(t)
    <3>1. rows' = rows
      BY <2>1 DEF School, OpenSchool, Review, TypeCase, SkipCase, EndSchool
    <3>2. TeacherInv'
      BY <2>1, OpenSchoolKeeps, ReviewKeeps, TypeCaseKeeps, SkipCaseKeeps, EndSchoolKeeps DEF School
    <3> QED
      BY <3>1, <3>2
  <2>2. CASE \E into, from \in DOMAIN rows : Merge(t, into, from)
    <3>1. rows' = rows
      BY <2>2 DEF Merge, Ready
    <3> QED
      BY <2>2, <3>1, MergeKeeps
  <2>3. CASE \E file \in Files : ImportReplace(t, file) \/ ImportMerge(t, file)
    <3>1. rows' = rows
      BY <2>3 DEF ImportReplace, ImportMerge, Ready
    <3> QED
      BY <2>3, <3>1, ImportReplaceKeeps, ImportMergeKeeps
  <2>4. CASE Save(t)
    BY <2>4, SaveKeeps
  <2>5. CASE Killed(t)
    BY <2>5, PutsDown DEF Killed
  <2> QED
    BY <1>2, <2>1, <2>2, <2>3, <2>4, <2>5 DEF Teach
<1> QED
  BY <1>1, <1>2, RecordKeeps DEF TeacherNext

LEMMA TeacherInvGives == TeacherInv => TeacherTypeOK /\ CasesConserved
  BY DEF TeacherInv, TeacherTyped, TwinsKnown, SoloExact, TeacherTypeOK, CasesConserved,
         CountsConserved, TwinsAreTyped, WorkRecords

(* Whatever overlaps, cases.jsonl stays a file that load() accepts         *)
(* (store.load, school.py, merge.py, transport.py).                        *)
THEOREM TeacherTypeCorrect == TeacherSpec => []TeacherTypeOK
  BY TeacherInvInit, TeacherInvStep, TeacherInvGives, PTL DEF TeacherSpec

(* For any number of teachers, cases and files to import: one writer at a  *)
(* time loses and repeats no occurrence, and only a school session that    *)
(* typed in a known signature makes it ambiguous.                          *)
THEOREM CasesAreConserved == TeacherSpec => []CasesConserved
  BY TeacherInvInit, TeacherInvStep, TeacherInvGives, PTL DEF TeacherSpec

(* What a person has reviewed is never asked again: no record(), merge or  *)
(* import takes the reviewer away.                                         *)
THEOREM ReviewsStay == TeacherSpec => ReviewedStaysReviewed
<1>1. TeacherInv /\ [TeacherNext]_teacherVars =>
         [solo => \A i \in DOMAIN rows, j \in DOMAIN rows' :
             /\ rows[i].id = rows'[j].id
             /\ rows[i].signature = rows'[j].signature
             /\ rows[i].by # Unknown
             => rows'[j].by # Unknown]_rows
  <2> SUFFICES ASSUME TeacherInv, [TeacherNext]_teacherVars, rows' # rows, solo
               PROVE  \A i \in DOMAIN rows, j \in DOMAIN rows' :
                         /\ rows[i].id = rows'[j].id
                         /\ rows[i].signature = rows'[j].signature
                         /\ rows[i].by # Unknown
                         => rows'[j].by # Unknown
    OBVIOUS
  <2>1. StillReviewed(rows, rows')
    BY TeacherInvStep
  <2> QED
    BY <2>1 DEF StillReviewed
<1> QED
  BY <1>1, TeacherInvInit, TeacherInvStep, PTL DEF TeacherSpec, ReviewedStaysReviewed

-----------------------------------------------------------------------------
(* The two commands that fill the store with demonstrations, for any drills *)
(* and scripts, and whatever dies or is recorded between two of their       *)
(* steps.  While sessions are only recorded between commands, what a        *)
(* command has loaded is what is on file, and every row stands where its    *)
(* run left it.                                                             *)

(* What a row, and a copy of the rows, may look like. *)
LaneRow == [goal : Topics, demo : BOOLEAN, passed : BOOLEAN, authored : BOOLEAN, stamp : Nat,
            superseded : BOOLEAN, guessing : BOOLEAN, leading : BOOLEAN, recovery : BOOLEAN,
            made : Nat, nth : Nat]

Troubles == {"session", "crash", "unproved", "failed"}
Versioned(s) == \A i \in DOMAIN s : s[i].stamp \in 0..version /\ s[i].made \in 1..version

LaneTyped ==
    /\ records \in Seq(LaneRow) /\ Versioned(records)
    /\ version \in 1..MaxVersion /\ builds \in 0..MaxBuilds
    /\ trouble \in Seq(Troubles) /\ Len(trouble) <= MaxTrouble /\ calm \in BOOLEAN
    /\ job \in [kind : {"rest", "build", "lane"},
                op : {"rest", "repair", "guesses", "stale", "cover", "run", "tag"},
                next : Nat \ {0}, covered : SUBSET Topics, copy : Seq(LaneRow) \cup {NoLoad}]
    /\ job.copy # NoLoad => Versioned(job.copy)
    /\ job.op = "tag" => Ahead

(* Where a command is tells which command it is; what it has loaded is what *)
(* is on file, and the row it is about to tag the one it has just made.     *)
JobFits ==
    /\ job.op = "rest" <=> job = NoJob
    /\ job.op \in {"repair", "guesses", "stale"} => job.kind = "build"
    /\ job.op # "rest" => job.kind \in {"build", "lane"}
    /\ job.op \in {"repair", "guesses", "stale", "cover"} => job.next = 1
    /\ job.copy # NoLoad => job.copy = records
    /\ job.op \in {"cover", "run"} => job.copy = NoLoad
    /\ job.op = "tag" => /\ Len(records) > 0
                         /\ records[Len(records)] = Demonstration(Due, job.next, TRUE)

(* Drills are tagged as authored, scripts are not. *)
RowsFit ==
    \A i \in DOMAIN records : records[i].demo =>
        /\ \A d \in DOMAIN Drilled : records[i].goal = Drilled[d].goal =>
              /\ records[i].guessing = Drilled[d].guessing /\ ~records[i].leading
              /\ records[i].stamp > 0 => records[i].authored
        /\ \A d \in DOMAIN Scripted : records[i].goal = Scripted[d].goal => ~records[i].authored

(* What a build has cleaned up when it gets to op. *)
NewestAuthored(i) ==
    records[i].authored => /\ records[i].stamp = version
                           /\ records[i].superseded
                              \/ \A j \in (i + 1)..Len(records) :
                                    ~(records[j].authored /\ records[j].goal = records[i].goal)
Cleaned ==
    job.kind = "build" => \A i \in DOMAIN records :
        /\ job.op \in {"guesses", "stale", "cover"} => NewestAuthored(i)
        /\ job.op \in {"stale", "cover"} /\ records[i].authored /\ records[i].guessing
             => records[i].superseded
        /\ job.op = "cover" /\ records[i].demo /\ records[i].stamp # version
             => records[i].superseded

(* A row that waits for its tags, and a task that has not had its turn. *)
Pending(i) == job.op = "tag" /\ i = Len(records)
Later(kind, d) == /\ job.kind = kind
                  /\ \/ job.op = "run" /\ job.next <= d
                     \/ job.op = "tag" /\ job.next < d

(* While nothing goes wrong a demonstration on file is tagged, so that it   *)
(* is covered, and what is not covered has no demonstration before its turn. *)
DrillsOnce ==
    \A d \in DOMAIN Drilled :
        LET ds == Demonstrations(Drilled[d].goal)
        IN  Drilled[d].guessing
            \/ /\ \A i, j \in ds : i = j
               /\ \A i \in ds : \/ Pending(i)
                                \/ /\ records[i].authored /\ records[i].passed
                                   /\ ~records[i].superseded
               /\ Later("lane", d) => Drilled[d].goal \in job.covered \/ ds = {}

ScriptsOnce ==
    \A d \in DOMAIN Scripted :
        LET ds == {i \in Demonstrations(Scripted[d].goal) : records[i].made = version}
        IN  /\ \A i, j \in Demonstrations(Scripted[d].goal) :
                  records[i].made = records[j].made /\ records[i].nth = records[j].nth => i = j
            /\ \A i \in ds : \/ Pending(i)
                             \/ /\ records[i].passed /\ ~records[i].superseded
                                /\ records[i].stamp = version
                                /\ records[i].leading => records[i].recovery
            /\ Later("build", d) => \/ Scripted[d].goal \in job.covered
                                    \/ \A i \in ds : records[i].nth # d

Smooth == \A i \in DOMAIN trouble : trouble[i] = "session"

CalmInv == /\ JobFits /\ TagsAreEarned /\ RowsFit /\ Cleaned /\ SessionsKept
           /\ Smooth => DrillsOnce /\ ScriptsOnce
LaneInv == LaneTyped /\ (calm => CalmInv)

LEMMA LaneInitHolds == LaneInit => LaneInv
<1> SUFFICES ASSUME LaneInit PROVE LaneInv
  OBVIOUS
<1>1. /\ records = <<>> /\ version = 1 /\ job = NoJob /\ builds = 0 /\ trouble = <<>>
      /\ calm \in BOOLEAN /\ DOMAIN records = {} /\ DOMAIN trouble = {}
  BY DEF LaneInit
<1>2. LaneTyped
  <2>1. <<>> \in Seq(LaneRow) /\ <<>> \in Seq(Troubles) /\ Len(trouble) = 0
    BY <1>1
  <2>2. job \in [kind : {"rest", "build", "lane"},
                 op : {"rest", "repair", "guesses", "stale", "cover", "run", "tag"},
                 next : Nat \ {0}, covered : SUBSET Topics, copy : Seq(LaneRow) \cup {NoLoad}]
        /\ job.copy = NoLoad
    BY <1>1 DEF NoJob
  <2>3. Versioned(records)
    BY <1>1 DEF Versioned
  <2>4. MaxVersion \in Nat /\ MaxBuilds \in Nat /\ MaxTrouble \in Nat
    BY LaneAssumption
  <2>5. version \in 1..MaxVersion
    BY <1>1, <2>4, LaneAssumption
  <2> QED BY <1>1, <2>1, <2>2, <2>3, <2>4, <2>5 DEF LaneTyped, NoJob
<1>3. JobFits
  BY <1>1 DEF JobFits, NoJob
<1>4. TagsAreEarned /\ RowsFit /\ Cleaned
  BY <1>1 DEF TagsAreEarned, RowsFit, Cleaned
<1>5. SessionsKept
  BY <1>1 DEF SessionsKept
<1>6. DrillsOnce /\ ScriptsOnce
  BY <1>1 DEF DrillsOnce, ScriptsOnce, Demonstrations, Later, NoJob
<1> QED BY <1>2, <1>3, <1>4, <1>5, <1>6 DEF LaneInv, CalmInv
-----------------------------------------------------------------------------
LEMMA DueTyped ==
  ASSUME LaneTyped, Ahead PROVE Due \in Task /\ Due.goal \in Topics
<1>1. Lane(job.kind) \in Seq(Task)
  BY LaneAssumption DEF Lane
<1>2. Due \in Task
  BY <1>1 DEF Ahead, Due
<1> QED BY <1>2 DEF Task

(* The record of a run, and of someone's session. *)
LEMMA RunTyped ==
  ASSUME NEW t \in Task, NEW n \in Nat, NEW b \in BOOLEAN, version \in Nat
  PROVE  Demonstration(t, n, b) \in LaneRow
BY DEF Demonstration, LaneRow, Task

LEMMA SessionTyped ==
  ASSUME version \in Nat
  PROVE  SessionRow \in LaneRow
<1>1. [goal |-> "session", guessing |-> FALSE, leading |-> FALSE] \in Task
  BY LaneAssumption DEF Task
<1>2. Demonstration([goal |-> "session", guessing |-> FALSE, leading |-> FALSE], 0, TRUE)
        \in LaneRow
  BY <1>1, RunTyped
<1> QED BY <1>2 DEF SessionRow, LaneRow

(* A row more. *)
LEMMA RowAdded ==
  ASSUME NEW S, NEW s \in Seq(S), NEW e \in S
  PROVE  /\ Append(s, e) \in Seq(S) /\ Len(Append(s, e)) = Len(s) + 1 /\ Len(s) \in Nat
         /\ DOMAIN Append(s, e) = DOMAIN s \cup {Len(s) + 1}
         /\ \A i \in DOMAIN s : Append(s, e)[i] = s[i] /\ i # Len(s) + 1
         /\ Append(s, e)[Len(s) + 1] = e
OBVIOUS

LEMMA TroubleAdded ==
  ASSUME LaneTyped, Len(trouble) < MaxTrouble, NEW o \in Troubles
  PROVE  Append(trouble, o) \in Seq(Troubles) /\ Len(Append(trouble, o)) <= MaxTrouble
<1>1. trouble \in Seq(Troubles) /\ MaxTrouble \in Nat
  BY LaneAssumption DEF LaneTyped
<1>2. /\ Append(trouble, o) \in Seq(Troubles)
      /\ Len(Append(trouble, o)) = Len(trouble) + 1 /\ Len(trouble) \in Nat
  BY <1>1, RowAdded
<1> QED BY <1>1, <1>2

(* A pass goes through the rows one by one. *)
Through(s, r) == /\ r \in Seq(LaneRow) /\ Len(r) = Len(s) /\ DOMAIN r = DOMAIN s

(* It changes nothing of a row but its stamp, to the current one, and whether *)
(* the row counts.                                                           *)
Marked(a, b) ==
    /\ b.goal = a.goal /\ b.demo = a.demo /\ b.passed = a.passed /\ b.authored = a.authored
    /\ b.guessing = a.guessing /\ b.leading = a.leading /\ b.recovery = a.recovery
    /\ b.made = a.made /\ b.nth = a.nth

LEMMA Rowwise ==
  ASSUME NEW s \in Seq(LaneRow), NEW r, r = [i \in DOMAIN s |-> r[i]],
         \A i \in DOMAIN s : r[i] \in LaneRow
  PROVE  Through(s, r)
<1>1. DOMAIN s = 1..Len(s) /\ Len(s) \in Nat
  OBVIOUS
<1>2. r \in [1..Len(s) -> LaneRow]
  BY <1>1
<1> QED BY <1>1, <1>2 DEF Through

LEMMA RepairedRows ==
  ASSUME NEW s \in Seq(LaneRow), version \in Nat
  PROVE  /\ Through(s, Repaired(s))
         /\ \A i \in DOMAIN s :
               /\ Marked(s[i], Repaired(s)[i])
               /\ ~s[i].authored => Repaired(s)[i] = s[i]
               /\ s[i].authored =>
                    /\ Repaired(s)[i].stamp = version
                    /\ Repaired(s)[i].superseded <=>
                         \E j \in (i + 1)..Len(s) : s[j].authored /\ s[j].goal = s[i].goal
<1> DEFINE r == Repaired(s)
           later(i) == \E j \in (i + 1)..Len(s) : s[j].authored /\ s[j].goal = s[i].goal
<1>1. \A i \in DOMAIN s : r[i] = IF ~s[i].authored THEN s[i]
                                 ELSE [s[i] EXCEPT !.stamp = version, !.superseded = later(i)]
  BY DEF Repaired
<1>2. r = [i \in DOMAIN s |-> r[i]]
  BY DEF Repaired
<1>3. ASSUME NEW i \in DOMAIN s
      PROVE  /\ r[i] \in LaneRow /\ Marked(s[i], r[i])
             /\ ~s[i].authored => r[i] = s[i]
             /\ s[i].authored => r[i].stamp = version /\ (r[i].superseded <=> later(i))
  <2>1. s[i] \in LaneRow /\ later(i) \in BOOLEAN
    OBVIOUS
  <2> HIDE DEF r, later
  <2> QED BY <1>1, <2>1 DEF LaneRow, Marked
<1>4. Through(s, r)
  <2> HIDE DEF r
  <2> QED BY <1>2, <1>3, Rowwise
<1> QED BY <1>3, <1>4

LEMMA GuesslessRows ==
  ASSUME NEW s \in Seq(LaneRow)
  PROVE  /\ Through(s, WithoutGuesses(s))
         /\ \A i \in DOMAIN s :
               /\ Marked(s[i], WithoutGuesses(s)[i])
               /\ WithoutGuesses(s)[i].stamp = s[i].stamp
               /\ WithoutGuesses(s)[i].superseded <=>
                    s[i].superseded \/ (s[i].authored /\ s[i].guessing)
<1> DEFINE r == WithoutGuesses(s)
<1>1. \A i \in DOMAIN s : r[i] = IF s[i].authored /\ s[i].guessing
                                 THEN [s[i] EXCEPT !.superseded = TRUE] ELSE s[i]
  BY DEF WithoutGuesses
<1>2. r = [i \in DOMAIN s |-> r[i]]
  BY DEF WithoutGuesses
<1>3. ASSUME NEW i \in DOMAIN s
      PROVE  /\ r[i] \in LaneRow /\ Marked(s[i], r[i]) /\ r[i].stamp = s[i].stamp
             /\ r[i].superseded <=> s[i].superseded \/ (s[i].authored /\ s[i].guessing)
  <2>1. s[i] \in LaneRow
    OBVIOUS
  <2> HIDE DEF r
  <2> QED BY <1>1, <2>1 DEF LaneRow, Marked
<1>4. Through(s, r)
  <2> HIDE DEF r
  <2> QED BY <1>2, <1>3, Rowwise
<1> QED BY <1>3, <1>4

Stale(a) == a.demo /\ (a.stamp # version \/ (a.leading /\ ~a.recovery))

LEMMA FreshRows ==
  ASSUME NEW s \in Seq(LaneRow)
  PROVE  /\ Through(s, WithoutStale(s))
         /\ \A i \in DOMAIN s :
               /\ Marked(s[i], WithoutStale(s)[i])
               /\ WithoutStale(s)[i].stamp = s[i].stamp
               /\ WithoutStale(s)[i].superseded <=> s[i].superseded \/ Stale(s[i])
<1> DEFINE r == WithoutStale(s)
<1>1. \A i \in DOMAIN s : r[i] = IF Stale(s[i]) THEN [s[i] EXCEPT !.superseded = TRUE] ELSE s[i]
  BY DEF WithoutStale, Stale
<1>2. r = [i \in DOMAIN s |-> r[i]]
  BY DEF WithoutStale
<1>3. ASSUME NEW i \in DOMAIN s
      PROVE  /\ r[i] \in LaneRow /\ Marked(s[i], r[i]) /\ r[i].stamp = s[i].stamp
             /\ r[i].superseded <=> s[i].superseded \/ Stale(s[i])
  <2>1. s[i] \in LaneRow
    OBVIOUS
  <2> HIDE DEF r
  <2> QED BY <1>1, <2>1 DEF LaneRow, Marked
<1>4. Through(s, r)
  <2> HIDE DEF r
  <2> QED BY <1>2, <1>3, Rowwise
<1> QED BY <1>3, <1>4

(* Only the last row gets the tags. *)
OnlyLastTagged(t, kind, s, r, n) ==
  /\ Through(s, r)
  /\ \A i \in DOMAIN s : i # n => r[i] = s[i]
  /\ n \in DOMAIN s =>
       /\ r[n].stamp = version
       /\ r[n].authored <=> s[n].authored \/ kind = "lane"
       /\ r[n].recovery <=> s[n].recovery \/ (kind = "build" /\ t.leading)
       /\ r[n].goal = s[n].goal /\ r[n].demo = s[n].demo
       /\ r[n].passed = s[n].passed /\ r[n].superseded = s[n].superseded
       /\ r[n].guessing = s[n].guessing /\ r[n].leading = s[n].leading
       /\ r[n].made = s[n].made /\ r[n].nth = s[n].nth

LEMMA TaggedRows ==
  ASSUME NEW s \in Seq(LaneRow), NEW t \in Task, NEW kind, version \in Nat
  PROVE  OnlyLastTagged(t, kind, s, Tagged(t, kind, s), Len(s))
<1> DEFINE r == Tagged(t, kind, s)
           n == Len(s)
           a == s[n].authored \/ kind = "lane"
           v == s[n].recovery \/ (kind = "build" /\ t.leading)
           e == [s[n] EXCEPT !.stamp = version, !.authored = a, !.recovery = v]
<1>1. DOMAIN r = DOMAIN s /\ \A i \in DOMAIN s : i # n => r[i] = s[i]
  BY DEF Tagged
<1>2. n \in DOMAIN s => r[n] = e
  BY DEF Tagged
<1>3. \A i \in DOMAIN s : s[i] \in LaneRow
  OBVIOUS
<1>4. t.leading \in BOOLEAN /\ a \in BOOLEAN /\ v \in BOOLEAN
  BY DEF Task
<1>5. n \in DOMAIN s => e \in LaneRow
  <2> HIDE DEF a, v, n
  <2> QED BY <1>3, <1>4 DEF LaneRow
<1>6. \A i \in DOMAIN s : r[i] \in LaneRow
  <2> HIDE DEF r, e
  <2> QED BY <1>1, <1>2, <1>3, <1>5
<1>7. r = [i \in DOMAIN s |-> r[i]]
  BY DEF Tagged
<1>8. Through(s, r)
  <2> HIDE DEF r
  <2> QED BY <1>6, <1>7, Rowwise
<1>9. n \in DOMAIN s =>
        /\ r[n].stamp = version /\ (r[n].authored <=> a) /\ (r[n].recovery <=> v)
        /\ r[n].goal = s[n].goal /\ r[n].demo = s[n].demo
        /\ r[n].passed = s[n].passed /\ r[n].superseded = s[n].superseded
        /\ r[n].guessing = s[n].guessing /\ r[n].leading = s[n].leading
        /\ r[n].made = s[n].made /\ r[n].nth = s[n].nth
  <2> SUFFICES ASSUME n \in DOMAIN s
               PROVE  /\ r[n].stamp = version /\ (r[n].authored <=> a) /\ (r[n].recovery <=> v)
                      /\ r[n].goal = s[n].goal /\ r[n].demo = s[n].demo
                      /\ r[n].passed = s[n].passed /\ r[n].superseded = s[n].superseded
                      /\ r[n].guessing = s[n].guessing /\ r[n].leading = s[n].leading
                      /\ r[n].made = s[n].made /\ r[n].nth = s[n].nth
    OBVIOUS
  <2>1. r[n] = e /\ s[n] \in LaneRow
    BY <1>2, <1>3
  <2> HIDE DEF r, n, a, v
  <2> QED BY <1>4, <2>1 DEF LaneRow
<1>10. OnlyLastTagged(t, kind, s, r, n)
  <2> HIDE DEF r, n
  <2> QED BY <1>1, <1>8, <1>9 DEF OnlyLastTagged
<1> QED BY <1>10

-----------------------------------------------------------------------------
(* Every step keeps the types. *)
Jobs(j) == j \in [kind : {"rest", "build", "lane"},
                  op : {"rest", "repair", "guesses", "stale", "cover", "run", "tag"},
                  next : Nat \ {0}, covered : SUBSET Topics, copy : Seq(LaneRow) \cup {NoLoad}]

LEMMA PassTyped ==
  ASSUME LaneTyped, NEW op \in {"repair", "guesses", "stale"},
         NEW next \in {"guesses", "stale", "cover"}, NEW result, Pass(op, result, next),
         Through(job.copy, result),
         \A i \in DOMAIN job.copy : /\ Marked(job.copy[i], result[i])
                                    /\ result[i].stamp \in {job.copy[i].stamp, version}
  PROVE  LaneTyped'
<1>1. /\ job.copy # NoLoad /\ records' \in {records, result}
      /\ job' = [job EXCEPT !.op = next, !.copy = NoLoad]
      /\ UNCHANGED <<version, builds, trouble, calm>>
  BY DEF Pass
<1>2. Jobs(job') /\ job'.copy = NoLoad
  BY <1>1 DEF LaneTyped, Jobs
<1>3. version \in Nat /\ version >= 1 /\ Versioned(job.copy)
  BY <1>1, LaneAssumption DEF LaneTyped
<1>4. ASSUME NEW i \in DOMAIN result
      PROVE  result[i].stamp \in 0..version /\ result[i].made \in 1..version
  <2>1. i \in DOMAIN job.copy
    BY DEF Through
  <2> QED BY <1>3, <2>1 DEF Versioned, Marked
<1>5. records' \in Seq(LaneRow) /\ Versioned(records)'
  BY <1>1, <1>4 DEF Through, LaneTyped, Versioned
<1>6. job'.op # "tag"
  BY <1>1 DEF LaneTyped
<1> QED BY <1>1, <1>2, <1>5, <1>6 DEF LaneTyped, Jobs

LEMMA LaneTypedStays ==
  ASSUME LaneTyped, [LaneNext]_laneVars PROVE LaneTyped'
<1>0. /\ version \in Nat /\ version >= 1 /\ records \in Seq(LaneRow) /\ Jobs(job)
      /\ Jobs(NoJob) /\ NoJob.copy = NoLoad
      /\ MaxVersion \in Nat /\ MaxBuilds \in Nat /\ MaxTrouble \in Nat
      /\ job.next + 1 \in Nat \ {0}
  BY LaneAssumption DEF LaneTyped, Jobs, NoJob
<1>1. CASE UNCHANGED laneVars
  BY <1>1 DEF laneVars, LaneTyped, Versioned, Ahead
<1>2. ASSUME NEW kind \in {"build", "lane"}, StartCommand(kind) PROVE LaneTyped'
  <2>1. /\ job' = [NoJob EXCEPT !.kind = kind,
                                !.op = IF kind = "build" THEN "repair" ELSE "cover"]
        /\ builds < MaxBuilds /\ builds' = builds + 1
        /\ UNCHANGED <<records, version, trouble, calm>>
    BY <1>2 DEF StartCommand
  <2>2. Jobs(job') /\ job'.copy = NoLoad /\ job'.op # "tag"
    BY <1>0, <2>1 DEF Jobs, NoJob
  <2>3. builds' \in 0..MaxBuilds
    BY <1>0, <2>1 DEF LaneTyped
  <2> QED BY <2>1, <2>2, <2>3 DEF LaneTyped, Jobs, Versioned
<1>3. CASE Load
  <2>1. job' = [job EXCEPT !.copy = records] /\ UNCHANGED <<records, version, builds, trouble, calm>>
    BY <1>3 DEF Load
  <2>2. Jobs(job') /\ job'.copy = records /\ (job.op = "tag" => Ahead)
        /\ job'.op = job.op /\ job'.next = job.next /\ job'.kind = job.kind
    BY <1>0, <2>1 DEF Jobs, LaneTyped
  <2> QED BY <2>1, <2>2 DEF LaneTyped, Jobs, Versioned, Ahead
<1>4. CASE Repair \/ DropGuesses \/ MarkStale
  <2>1. job.copy \in Seq(LaneRow)
    BY <1>0, <1>4 DEF Repair, DropGuesses, MarkStale, Pass, Jobs
  <2>2. CASE Repair
    <3>1. Pass("repair", Repaired(job.copy), "guesses")
      BY <2>2 DEF Repair
    <3>2. Through(job.copy, Repaired(job.copy))
          /\ \A i \in DOMAIN job.copy :
                /\ Marked(job.copy[i], Repaired(job.copy)[i])
                /\ Repaired(job.copy)[i].stamp \in {job.copy[i].stamp, version}
      BY <1>0, <2>1, RepairedRows
    <3> QED BY <3>1, <3>2, PassTyped
  <2>3. CASE DropGuesses
    <3>1. Pass("guesses", WithoutGuesses(job.copy), "stale")
      BY <2>3 DEF DropGuesses
    <3>2. Through(job.copy, WithoutGuesses(job.copy))
          /\ \A i \in DOMAIN job.copy :
                /\ Marked(job.copy[i], WithoutGuesses(job.copy)[i])
                /\ WithoutGuesses(job.copy)[i].stamp \in {job.copy[i].stamp, version}
      BY <2>1, GuesslessRows
    <3> QED BY <3>1, <3>2, PassTyped
  <2>4. CASE MarkStale
    <3>1. Pass("stale", WithoutStale(job.copy), "cover")
      BY <2>4 DEF MarkStale
    <3>2. Through(job.copy, WithoutStale(job.copy))
          /\ \A i \in DOMAIN job.copy :
                /\ Marked(job.copy[i], WithoutStale(job.copy)[i])
                /\ WithoutStale(job.copy)[i].stamp \in {job.copy[i].stamp, version}
      BY <2>1, FreshRows
    <3> QED BY <3>1, <3>2, PassTyped
  <2> QED BY <1>4, <2>2, <2>3, <2>4
<1>5. CASE Cover
  <2>1. /\ job' = [job EXCEPT !.op = "run", !.covered = Covered(job.kind, records)]
        /\ UNCHANGED <<records, version, builds, trouble, calm>>
    BY <1>5 DEF Cover
  <2>2. Covered(job.kind, records) \subseteq Topics
    <3>1. \A i \in DOMAIN records : records[i] \in LaneRow
      BY <1>0
    <3>2. \A i \in DOMAIN records : records[i].goal \in Topics
      BY <3>1 DEF LaneRow
    <3> QED BY <3>2 DEF Covered
  <2>3. Jobs(job') /\ job'.copy = job.copy /\ job'.op = "run"
    BY <1>0, <2>1, <2>2 DEF Jobs
  <2> QED BY <2>1, <2>3 DEF LaneTyped, Jobs, Versioned
<1>6. CASE SkipCovered
  <2>1. job' = [job EXCEPT !.next = @ + 1] /\ UNCHANGED <<records, version, builds, trouble, calm>>
    BY <1>6 DEF SkipCovered
  <2>2. Jobs(job') /\ job'.copy = job.copy /\ job'.op = "run"
    BY <1>0, <1>6, <2>1 DEF Jobs, SkipCovered
  <2> QED BY <2>1, <2>2 DEF LaneTyped, Jobs, Versioned
<1>7. ASSUME NEW o \in {"verified", "unproved", "failed"}, Run(o) PROVE LaneTyped'
  <2> DEFINE e == Demonstration(Due, job.next, o # "failed")
  <2>1. /\ records' = Append(records, e) /\ UNCHANGED <<version, builds, calm>>
        /\ \/ job' = [job EXCEPT !.op = "tag"] /\ trouble' = trouble
           \/ /\ Len(trouble) < MaxTrouble /\ o \in {"unproved", "failed"}
              /\ job' = [job EXCEPT !.next = @ + 1] /\ trouble' = Append(trouble, o)
    BY <1>7 DEF Run
  <2>2. e \in LaneRow /\ e.stamp = 0 /\ e.made = version
    <3>1. Due \in Task /\ job.next \in Nat /\ (o # "failed") \in BOOLEAN
      BY <1>0, <1>7, DueTyped DEF Run, Jobs
    <3> QED BY <1>0, <3>1, RunTyped DEF Demonstration
  <2>3. Jobs(job') /\ job'.copy = job.copy /\ (job'.op = "tag" => Ahead')
    BY <1>0, <1>7, <2>1 DEF Jobs, Run, Ahead
  <2>4. trouble' \in Seq(Troubles) /\ Len(trouble') <= MaxTrouble
    <3> HIDE DEF e
    <3>1. trouble \in Seq(Troubles) /\ Len(trouble) <= MaxTrouble
      BY DEF LaneTyped
    <3>2. CASE trouble' = trouble
      BY <3>1, <3>2
    <3>3. CASE Len(trouble) < MaxTrouble /\ o \in {"unproved", "failed"} /\ trouble' = Append(trouble, o)
      <4>1. o \in Troubles
        BY <3>3 DEF Troubles
      <4> QED BY <3>3, <4>1, TroubleAdded
    <3> QED BY <2>1, <3>2, <3>3
  <2> HIDE DEF e
  <2>5. records' \in Seq(LaneRow) /\ Versioned(records)'
    <3>1. records' \in Seq(LaneRow)
      BY <1>0, <2>1, <2>2, RowAdded
    <3>2. ASSUME NEW i \in DOMAIN records'
          PROVE  records'[i].stamp \in 0..version' /\ records'[i].made \in 1..version'
      <4>1. (i \in DOMAIN records /\ records'[i] = records[i]) \/ records'[i] = e
        BY <1>0, <2>1, <2>2, RowAdded
      <4> QED BY <1>0, <2>1, <2>2, <4>1 DEF LaneTyped, Versioned
    <3> QED BY <3>1, <3>2 DEF Versioned
  <2> QED BY <2>1, <2>3, <2>4, <2>5 DEF LaneTyped, Jobs, Versioned
<1>8. CASE Tag
  <2> DEFINE r == Tagged(Due, job.kind, job.copy)
             n == Len(job.copy)
  <2>1. /\ records' = r /\ job.copy # NoLoad
        /\ job' = [job EXCEPT !.op = "run", !.next = @ + 1, !.copy = NoLoad]
        /\ UNCHANGED <<version, builds, trouble, calm>>
    BY <1>8 DEF Tag
  <2>2. job.copy \in Seq(LaneRow) /\ Versioned(job.copy)
    BY <1>0, <2>1 DEF LaneTyped
  <2>3. Jobs(job') /\ job'.copy = NoLoad /\ job'.op = "run"
    BY <1>0, <2>1 DEF Jobs
  <2>4. Through(job.copy, r) /\ \A i \in DOMAIN r : r[i].stamp \in {job.copy[i].stamp, version}
                                                    /\ r[i].made = job.copy[i].made
    <3>1. Due \in Task
      BY <1>8, DueTyped DEF Tag, LaneTyped
    <3>2. /\ Through(job.copy, r) /\ \A i \in DOMAIN job.copy : i # n => r[i] = job.copy[i]
          /\ n \in DOMAIN job.copy => r[n].stamp = version /\ r[n].made = job.copy[n].made
      <4>1. OnlyLastTagged(Due, job.kind, job.copy, r, n)
        BY <1>0, <2>2, <3>1, TaggedRows
      <4> HIDE DEF r, n
      <4> QED BY <4>1 DEF OnlyLastTagged
    <3> HIDE DEF r, n
    <3> QED BY <3>2 DEF Through
  <2> HIDE DEF r
  <2>5. records' \in Seq(LaneRow) /\ Versioned(records)'
    <3>1. records' \in Seq(LaneRow) /\ DOMAIN records' = DOMAIN job.copy
      BY <2>1, <2>4 DEF Through
    <3>2. ASSUME NEW i \in DOMAIN records'
          PROVE  records'[i].stamp \in 0..version' /\ records'[i].made \in 1..version'
      <4>1. job.copy[i].stamp \in 0..version /\ job.copy[i].made \in 1..version
        BY <2>2, <3>1 DEF Versioned
      <4>2. records'[i].stamp \in {job.copy[i].stamp, version} /\ records'[i].made = job.copy[i].made
        BY <2>1, <2>4, <3>1
      <4> QED BY <1>0, <2>1, <4>1, <4>2
    <3> QED BY <3>1, <3>2 DEF Versioned
  <2> QED BY <2>1, <2>3, <2>5 DEF LaneTyped, Jobs, Versioned
<1>9. CASE End \/ CommandDies
  <2>1. /\ job' = NoJob /\ UNCHANGED <<records, version, builds, calm>>
        /\ \/ trouble' = trouble
           \/ Len(trouble) < MaxTrouble /\ trouble' = Append(trouble, "crash")
    BY <1>9 DEF End, CommandDies
  <2>2. trouble' \in Seq(Troubles) /\ Len(trouble') <= MaxTrouble
    <3>1. trouble \in Seq(Troubles) /\ Len(trouble) <= MaxTrouble
      BY DEF LaneTyped
    <3>2. "crash" \in Troubles
      BY DEF Troubles
    <3> QED BY <2>1, <3>1, <3>2, TroubleAdded
  <2> QED BY <1>0, <2>1, <2>2 DEF LaneTyped, Jobs, Versioned, NoJob
<1>10. CASE RecordSession
  <2>1. /\ records' = Append(records, SessionRow) /\ UNCHANGED <<version, job, builds, calm>>
        /\ Len(trouble) < MaxTrouble /\ trouble' = Append(trouble, "session")
    BY <1>10 DEF RecordSession
  <2>2. SessionRow \in LaneRow /\ SessionRow.stamp = 0 /\ SessionRow.made = version
    BY <1>0, SessionTyped DEF SessionRow, Demonstration
  <2>3. trouble' \in Seq(Troubles) /\ Len(trouble') <= MaxTrouble
    <3>1. "session" \in Troubles
      BY DEF Troubles
    <3> QED BY <2>1, <3>1, TroubleAdded
  <2>4. ASSUME NEW i \in DOMAIN records'
        PROVE  records'[i].stamp \in 0..version' /\ records'[i].made \in 1..version'
    <3>1. (i \in DOMAIN records /\ records'[i] = records[i]) \/ records'[i] = SessionRow
      BY <1>0, <2>1, <2>2, RowAdded
    <3> QED BY <1>0, <2>1, <2>2, <3>1 DEF LaneTyped, Versioned
  <2>5. records' \in Seq(LaneRow)
    BY <1>0, <2>1, <2>2, RowAdded
  <2> QED BY <2>1, <2>3, <2>4, <2>5 DEF LaneTyped, Versioned, Ahead
<1>11. CASE Upgrade
  <2>1. /\ version < MaxVersion /\ version' = version + 1 /\ job = NoJob
        /\ UNCHANGED <<records, job, builds, trouble, calm>>
    BY <1>11 DEF Upgrade
  <2>2. Versioned(records)' /\ job'.copy = NoLoad
    BY <1>0, <2>1 DEF LaneTyped, Versioned
  <2> QED BY <1>0, <2>1, <2>2 DEF LaneTyped, NoJob
<1> QED BY <1>1, <1>2, <1>3, <1>4, <1>5, <1>6, <1>7, <1>8, <1>9, <1>10, <1>11 DEF LaneNext

-----------------------------------------------------------------------------
(* What a build and a lane do, as long as no session is recorded meanwhile. *)
LEMMA RowsTyped ==
  ASSUME LaneTyped
  PROVE  /\ DOMAIN records = 1..Len(records) /\ Len(records) \in Nat
         /\ \A i \in DOMAIN records : records[i] \in LaneRow
BY DEF LaneTyped

LEMMA CountNext ==
  ASSUME NEW n \in Nat, NEW A \in SUBSET (1..n)
  PROVE  Cardinality(A \cup {n + 1}) = Cardinality(A) + 1
<1>1. IsFiniteSet(1..n)
  BY FS_Interval
<1>2. IsFiniteSet(A)
  BY <1>1, FS_Subset
<1>3. n + 1 \notin A
  OBVIOUS
<1> QED BY <1>2, <1>3, FS_AddElement

(* A command begins, ends or dies: the rows are as they were. *)
LEMMA StepsAside ==
  ASSUME LaneTyped, calm, CalmInv, UNCHANGED <<records, version, calm>>,
         Smooth' => Smooth /\ job.op # "tag",
         \/ trouble' = trouble
         \/ \E o \in {"crash", "unproved", "failed"} : trouble' = Append(trouble, o),
         job'.op \in {"rest", "repair", "cover"}, job'.op = "cover" => job'.kind = "lane",
         JobFits'
  PROVE  CalmInv'
<1>1. TagsAreEarned' /\ RowsFit'
  BY DEF CalmInv, TagsAreEarned, RowsFit
<1>2. Cleaned'
  BY DEF Cleaned
<1>3. SessionsKept'
  <2>1. {i \in DOMAIN trouble' : trouble'[i] = "session"}
          = {i \in DOMAIN trouble : trouble[i] = "session"}
    <3>1. CASE trouble' = trouble
      BY <3>1
    <3>2. ASSUME NEW o \in {"crash", "unproved", "failed"}, trouble' = Append(trouble, o)
          PROVE  {i \in DOMAIN trouble' : trouble'[i] = "session"}
                   = {i \in DOMAIN trouble : trouble[i] = "session"}
      <4>1. trouble \in Seq(Troubles) /\ o \in Troubles
        BY DEF LaneTyped, Troubles
      <4>2. /\ DOMAIN trouble' = DOMAIN trouble \cup {Len(trouble) + 1}
            /\ \A i \in DOMAIN trouble : trouble'[i] = trouble[i]
            /\ trouble'[Len(trouble) + 1] = o /\ o # "session"
        BY <3>2, <4>1, RowAdded
      <4> QED BY <4>2
    <3> QED BY <3>1, <3>2
  <2> QED BY <2>1 DEF CalmInv, SessionsKept
<1>4. ASSUME Smooth' PROVE DrillsOnce' /\ ScriptsOnce'
  <2>1. DrillsOnce /\ ScriptsOnce /\ job.op # "tag"
    BY <1>4 DEF CalmInv
  <2>2. DrillsOnce'
    BY <2>1 DEF DrillsOnce, Demonstrations, Pending, Later
  <2>3. ScriptsOnce'
    BY <2>1 DEF ScriptsOnce, Demonstrations, Pending, Later
  <2> QED BY <2>2, <2>3
<1> QED BY <1>1, <1>2, <1>3, <1>4 DEF CalmInv

LEMMA CommandKeeps ==
  ASSUME LaneTyped, calm, CalmInv,
         End \/ CommandDies \/ \E kind \in {"build", "lane"} : StartCommand(kind)
  PROVE  CalmInv'
<1>1. CASE End
  <2>1. /\ job' = NoJob /\ job.op = "run" /\ UNCHANGED <<records, version, builds, trouble, calm>>
    BY <1>1 DEF End
  <2>2. JobFits' /\ (Smooth' => Smooth)
    BY <2>1 DEF JobFits, NoJob, Smooth
  <2>3. job'.op = "rest"
    BY <2>1 DEF NoJob
  <2> QED BY <2>1, <2>2, <2>3, StepsAside
<1>2. CASE CommandDies
  <2>1. /\ job' = NoJob /\ trouble' = Append(trouble, "crash")
        /\ UNCHANGED <<records, version, builds, calm>>
    BY <1>2 DEF CommandDies
  <2>2. JobFits' /\ job'.op = "rest"
    BY <2>1 DEF JobFits, NoJob
  <2>3. ~Smooth'
    <3>1. trouble \in Seq(Troubles) /\ "crash" \in Troubles
      BY DEF LaneTyped, Troubles
    <3>2. Len(trouble) + 1 \in DOMAIN trouble' /\ trouble'[Len(trouble) + 1] = "crash"
      BY <2>1, <3>1, RowAdded
    <3> QED BY <3>2 DEF Smooth
  <2> QED BY <2>1, <2>2, <2>3, StepsAside
<1>3. ASSUME NEW kind \in {"build", "lane"}, StartCommand(kind) PROVE CalmInv'
  <2>1. /\ job' = [NoJob EXCEPT !.kind = kind,
                                !.op = IF kind = "build" THEN "repair" ELSE "cover"]
        /\ job = NoJob /\ UNCHANGED <<records, version, trouble, calm>>
    BY <1>3 DEF StartCommand
  <2>2. /\ job'.kind = kind /\ job'.op = IF kind = "build" THEN "repair" ELSE "cover"
        /\ job'.next = 1 /\ job'.copy = NoLoad /\ job' # NoJob /\ job.op = "rest"
    <3>1. NoJob = [kind |-> "rest", op |-> "rest", next |-> 1, covered |-> {}, copy |-> NoLoad]
      BY DEF NoJob
    <3> HIDE DEF NoJob
    <3>2. /\ job'.kind = kind /\ job'.op = IF kind = "build" THEN "repair" ELSE "cover"
          /\ job'.next = 1 /\ job'.copy = NoLoad /\ job.op = "rest"
      BY <2>1, <3>1
    <3> QED BY <3>1, <3>2
  <2>3. JobFits' /\ (Smooth' => Smooth)
    BY <2>1, <2>2 DEF JobFits, Smooth
  <2> QED BY <2>1, <2>2, <2>3, StepsAside
<1> QED BY <1>1, <1>2, <1>3

(* A command goes on without a change to the store. *)
LEMMA LoadKeeps ==
  ASSUME LaneTyped, calm, CalmInv, Load PROVE CalmInv'
<1>1. /\ job' = [job EXCEPT !.copy = records] /\ UNCHANGED <<records, version, builds, trouble, calm>>
      /\ job.op \in {"repair", "guesses", "stale", "tag"}
  BY DEF Load
<1>2. /\ job'.op = job.op /\ job'.kind = job.kind /\ job'.next = job.next
      /\ job'.covered = job.covered /\ job'.copy = records
  BY <1>1 DEF LaneTyped
<1>3. JobFits'
  <2>1. job' # NoJob
    BY <1>1, <1>2 DEF NoJob
  <2>2. Due' = Due /\ Ahead' = Ahead
    BY <1>2 DEF Due, Ahead
  <2>3. job.op = "tag" => (Demonstration(Due, job.next, TRUE))' = Demonstration(Due, job.next, TRUE)
    BY <1>1, <1>2, <2>2 DEF Demonstration
  <2>4. JobFits
    BY DEF CalmInv
  <2> HIDE DEF Load
  <2> QED BY <1>1, <1>2, <2>1, <2>3, <2>4 DEF JobFits
<1>4. TagsAreEarned' /\ RowsFit' /\ SessionsKept'
  BY <1>1 DEF CalmInv, TagsAreEarned, RowsFit, SessionsKept
<1>5. Cleaned'
  BY <1>1, <1>2 DEF CalmInv, Cleaned, NewestAuthored
<1>6. Smooth' = Smooth /\ DrillsOnce' = DrillsOnce /\ ScriptsOnce' = ScriptsOnce
  BY <1>1, <1>2 DEF Smooth, DrillsOnce, ScriptsOnce, Demonstrations, Pending, Later
<1> QED BY <1>3, <1>4, <1>5, <1>6 DEF CalmInv

LEMMA CoverKeeps ==
  ASSUME LaneTyped, calm, CalmInv, Cover PROVE CalmInv'
<1>1. /\ job' = [job EXCEPT !.op = "run", !.covered = Covered(job.kind, records)]
      /\ job.op = "cover" /\ UNCHANGED <<records, version, builds, trouble, calm>>
  BY DEF Cover
<1>2. /\ job'.op = "run" /\ job'.kind = job.kind /\ job'.next = job.next
      /\ job'.covered = Covered(job.kind, records) /\ job'.copy = job.copy
  BY <1>1 DEF LaneTyped
<1>3. JobFits'
  BY <1>1, <1>2 DEF CalmInv, JobFits, NoJob
<1>4. TagsAreEarned' /\ RowsFit' /\ SessionsKept'
  BY <1>1 DEF CalmInv, TagsAreEarned, RowsFit, SessionsKept
<1>5. Cleaned'
  BY <1>2 DEF Cleaned
<1>6. ASSUME Smooth' PROVE DrillsOnce' /\ ScriptsOnce'
  <2>1. DrillsOnce /\ ScriptsOnce
    BY <1>1, <1>6 DEF CalmInv, Smooth
  <2>2. DrillsOnce'
    <3> SUFFICES ASSUME NEW d \in DOMAIN Drilled, ~Drilled[d].guessing
                 PROVE  /\ \A i, j \in Demonstrations(Drilled[d].goal) : i = j
                        /\ \A i \in Demonstrations(Drilled[d].goal) :
                              records[i].authored /\ records[i].passed /\ ~records[i].superseded
                        /\ job.kind = "lane" => \/ Drilled[d].goal \in job'.covered
                                                \/ Demonstrations(Drilled[d].goal) = {}
      BY <1>1, <1>2 DEF DrillsOnce, Demonstrations, Pending, Later
    <3>1. /\ \A i, j \in Demonstrations(Drilled[d].goal) : i = j
          /\ \A i \in Demonstrations(Drilled[d].goal) :
                records[i].authored /\ records[i].passed /\ ~records[i].superseded
      BY <1>1, <2>1 DEF DrillsOnce, Pending
    <3>2. ASSUME job.kind = "lane", NEW i \in Demonstrations(Drilled[d].goal)
          PROVE  Drilled[d].goal \in job'.covered
      BY <1>2, <3>1, <3>2 DEF Demonstrations, Covered
    <3> QED BY <3>1, <3>2
  <2>3. ScriptsOnce'
    <3> SUFFICES ASSUME NEW d \in DOMAIN Scripted
                 PROVE  LET ds == {i \in Demonstrations(Scripted[d].goal) :
                                     records[i].made = version}
                        IN  /\ \A i, j \in Demonstrations(Scripted[d].goal) :
                                  /\ records[i].made = records[j].made
                                  /\ records[i].nth = records[j].nth
                                  => i = j
                            /\ \A i \in ds :
                                  /\ records[i].passed /\ ~records[i].superseded
                                  /\ records[i].stamp = version
                                  /\ records[i].leading => records[i].recovery
                            /\ job.kind = "build" => Scripted[d].goal \in job'.covered \/ ds = {}
      BY <1>1, <1>2 DEF ScriptsOnce, Demonstrations, Pending, Later
    <3> DEFINE ds == {i \in Demonstrations(Scripted[d].goal) : records[i].made = version}
    <3>1. /\ \A i, j \in Demonstrations(Scripted[d].goal) :
                records[i].made = records[j].made /\ records[i].nth = records[j].nth => i = j
          /\ \A i \in ds : /\ records[i].passed /\ ~records[i].superseded
                           /\ records[i].stamp = version
                           /\ records[i].leading => records[i].recovery
      BY <1>1, <2>1 DEF ScriptsOnce, Pending
    <3>2. ASSUME job.kind = "build", NEW i \in ds
          PROVE  Scripted[d].goal \in job'.covered
      BY <1>2, <3>1, <3>2 DEF Demonstrations, Covered
    <3> QED BY <3>1, <3>2
  <2> QED BY <2>2, <2>3
<1> QED BY <1>3, <1>4, <1>5, <1>6 DEF CalmInv

LEMMA SkipKeeps ==
  ASSUME LaneTyped, calm, CalmInv, SkipCovered PROVE CalmInv'
<1>1. /\ job' = [job EXCEPT !.next = @ + 1] /\ job.op = "run"
      /\ UNCHANGED <<records, version, builds, trouble, calm>>
  BY DEF SkipCovered
<1>2. /\ job'.op = "run" /\ job'.kind = job.kind /\ job'.next = job.next + 1 /\ job.next \in Nat
      /\ job'.covered = job.covered /\ job'.copy = job.copy
  BY <1>1 DEF LaneTyped
<1>3. JobFits'
  BY <1>1, <1>2 DEF CalmInv, JobFits, NoJob
<1>4. TagsAreEarned' /\ RowsFit' /\ SessionsKept'
  BY <1>1 DEF CalmInv, TagsAreEarned, RowsFit, SessionsKept
<1>5. Cleaned'
  BY <1>2 DEF Cleaned
<1>6. ASSUME Smooth' PROVE DrillsOnce' /\ ScriptsOnce'
  <2>1. DrillsOnce /\ ScriptsOnce
    BY <1>1, <1>6 DEF CalmInv, Smooth
  <2>2. \A d \in DOMAIN Drilled : d \in Nat
    BY LaneAssumption
  <2>3. \A d \in DOMAIN Scripted : d \in Nat
    BY LaneAssumption
  <2>4. \A d \in DOMAIN Drilled : Later("lane", d)' => Later("lane", d)
    BY <1>1, <1>2, <2>2 DEF Later
  <2>5. \A d \in DOMAIN Scripted : Later("build", d)' => Later("build", d)
    BY <1>1, <1>2, <2>3 DEF Later
  <2>6. \A i \in DOMAIN records : ~Pending(i)
    BY <1>1 DEF Pending
  <2>7. DrillsOnce'
    BY <1>1, <1>2, <2>1, <2>4, <2>6 DEF DrillsOnce, Demonstrations
  <2>8. ScriptsOnce'
    BY <1>1, <1>2, <2>1, <2>5, <2>6 DEF ScriptsOnce, Demonstrations
  <2> QED BY <2>7, <2>8
<1> QED BY <1>3, <1>4, <1>5, <1>6 DEF CalmInv

(* A pass over the rows: what it drops is no demonstration that counts.    *)
DrillsStay(r) ==
    \A d \in DOMAIN Drilled : \A i \in Demonstrations(Drilled[d].goal) :
        ~Drilled[d].guessing /\ records[i].authored /\ ~records[i].superseded => ~r[i].superseded
ScriptsStay(r) ==
    \A d \in DOMAIN Scripted : \A i \in Demonstrations(Scripted[d].goal) :
        /\ records[i].made = version /\ records[i].stamp = version
        /\ records[i].leading => records[i].recovery
        /\ ~records[i].superseded
        => r[i].stamp = version /\ ~r[i].superseded

LEMMA PassKeeps ==
  ASSUME LaneTyped, calm, CalmInv,
         NEW op \in {"repair", "guesses", "stale"}, NEW next \in {"guesses", "stale", "cover"},
         NEW result, Pass(op, result, next), Through(records, result),
         \A i \in DOMAIN records :
            /\ Marked(records[i], result[i])
            /\ records[i].authored \/ result[i].stamp = records[i].stamp,
         Cleaned', Smooth /\ DrillsOnce /\ ScriptsOnce => DrillsStay(result) /\ ScriptsStay(result)
  PROVE  CalmInv'
<1>1. /\ job.op = op /\ job' = [job EXCEPT !.op = next, !.copy = NoLoad]
      /\ job.copy # NoLoad /\ job.copy = records
      /\ UNCHANGED <<version, builds, trouble, calm>>
  BY DEF Pass, CalmInv, JobFits
<1>2. records' = result
  BY <1>1 DEF Pass
<1>3. /\ job'.op = next /\ job'.kind = job.kind /\ job'.next = job.next
      /\ job'.covered = job.covered /\ job'.copy = NoLoad
  BY <1>1 DEF LaneTyped
<1>4. /\ DOMAIN records' = DOMAIN records
      /\ \A i \in DOMAIN records :
            /\ Marked(records[i], records'[i])
            /\ records[i].authored \/ records'[i].stamp = records[i].stamp
  BY <1>2 DEF Through
<1>5. JobFits'
  <2>1. JobFits /\ job.kind = "build"
    BY <1>1 DEF CalmInv, JobFits
  <2>2. job' # NoJob
    BY <1>3 DEF NoJob
  <2> HIDE DEF Pass
  <2> QED BY <1>1, <1>3, <2>1, <2>2 DEF JobFits
<1>6. TagsAreEarned'
  BY <1>1, <1>4 DEF CalmInv, TagsAreEarned, Marked
<1>7. RowsFit'
  BY <1>4 DEF CalmInv, RowsFit, Marked
<1>8. SessionsKept'
  <2>1. {i \in DOMAIN records' : ~records'[i].demo} = {i \in DOMAIN records : ~records[i].demo}
    BY <1>4 DEF Marked
  <2> QED BY <1>1, <2>1 DEF CalmInv, SessionsKept
<1>9. ASSUME Smooth' PROVE DrillsOnce' /\ ScriptsOnce'
  <2>1. DrillsOnce /\ ScriptsOnce /\ DrillsStay(result) /\ ScriptsStay(result)
    BY <1>1, <1>9 DEF CalmInv, Smooth
  <2>2. \A g : Demonstrations(g)' = Demonstrations(g)
    BY <1>4 DEF Demonstrations, Marked
  <2>3. /\ \A i \in DOMAIN records : ~Pending(i) /\ ~Pending(i)'
        /\ \A d : ~Later("lane", d)' /\ ~Later("build", d)'
    BY <1>1, <1>3 DEF Pending, Later
  <2>4. \A g : Demonstrations(g) \subseteq DOMAIN records
    BY DEF Demonstrations
  <2>5. DrillsOnce'
    <3> SUFFICES ASSUME NEW d \in DOMAIN Drilled, ~Drilled[d].guessing
                 PROVE  /\ \A i, j \in Demonstrations(Drilled[d].goal) : i = j
                        /\ \A i \in Demonstrations(Drilled[d].goal) :
                              records'[i].authored /\ records'[i].passed /\ ~records'[i].superseded
      BY <2>2, <2>3 DEF DrillsOnce
    <3>1. /\ \A i, j \in Demonstrations(Drilled[d].goal) : i = j
          /\ \A i \in Demonstrations(Drilled[d].goal) :
                records[i].authored /\ records[i].passed /\ ~records[i].superseded
      BY <2>1, <2>3, <2>4 DEF DrillsOnce
    <3>2. \A i \in Demonstrations(Drilled[d].goal) : ~records'[i].superseded
      BY <1>2, <2>1, <3>1 DEF DrillsStay
    <3> QED BY <1>4, <2>4, <3>1, <3>2 DEF Marked
  <2>6. ScriptsOnce'
    <3> SUFFICES ASSUME NEW d \in DOMAIN Scripted
                 PROVE  /\ \A i, j \in Demonstrations(Scripted[d].goal) :
                              /\ records'[i].made = records'[j].made
                              /\ records'[i].nth = records'[j].nth
                              => i = j
                        /\ \A i \in Demonstrations(Scripted[d].goal) :
                              records'[i].made = version =>
                                  /\ records'[i].passed /\ ~records'[i].superseded
                                  /\ records'[i].stamp = version
                                  /\ records'[i].leading => records'[i].recovery
      BY <1>1, <2>2, <2>3 DEF ScriptsOnce
    <3>1. /\ \A i, j \in Demonstrations(Scripted[d].goal) :
                records[i].made = records[j].made /\ records[i].nth = records[j].nth => i = j
          /\ \A i \in Demonstrations(Scripted[d].goal) :
                records[i].made = version =>
                    /\ records[i].passed /\ ~records[i].superseded
                    /\ records[i].stamp = version
                    /\ records[i].leading => records[i].recovery
      BY <2>1, <2>3, <2>4 DEF ScriptsOnce
    <3>2. \A i \in Demonstrations(Scripted[d].goal) :
              records[i].made = version => records'[i].stamp = version /\ ~records'[i].superseded
      BY <1>2, <2>1, <3>1 DEF ScriptsStay
    <3>3. \A i \in Demonstrations(Scripted[d].goal) : Marked(records[i], records'[i])
      BY <1>4, <2>4
    <3> QED BY <3>1, <3>2, <3>3 DEF Marked
  <2> QED BY <2>5, <2>6
<1> QED BY <1>5, <1>6, <1>7, <1>8, <1>9 DEF CalmInv

LEMMA RepairKeeps ==
  ASSUME LaneTyped, calm, CalmInv, Repair PROVE CalmInv'
<1> DEFINE r == Repaired(records)
<1>1. /\ Pass("repair", r, "guesses") /\ records' = r
      /\ version' = version /\ job' = [job EXCEPT !.op = "guesses", !.copy = NoLoad]
      /\ DOMAIN records = 1..Len(records) /\ version \in Nat /\ records \in Seq(LaneRow)
  <2>1. job.copy = records
    BY DEF Repair, Pass, CalmInv, JobFits
  <2> QED BY <2>1 DEF Repair, Pass, LaneTyped
<1>2. /\ Through(records, r)
      /\ \A i \in DOMAIN records :
            /\ Marked(records[i], r[i])
            /\ ~records[i].authored => r[i] = records[i]
            /\ records[i].authored =>
                  /\ r[i].stamp = version
                  /\ r[i].superseded <=> \E j \in (i + 1)..Len(records) :
                        records[j].authored /\ records[j].goal = records[i].goal
  BY <1>1, RepairedRows
<1> HIDE DEF r
<1>3. Cleaned'
  <2>1. job'.op = "guesses" /\ DOMAIN records' = DOMAIN records /\ Len(records') = Len(records)
    BY <1>1, <1>2 DEF LaneTyped, Through
  <2>2. ASSUME NEW i \in DOMAIN records' PROVE NewestAuthored(i)'
    <3>1. ASSUME records'[i].authored, ~records'[i].superseded, NEW j \in (i + 1)..Len(records'),
                 records'[j].authored, records'[j].goal = records'[i].goal
          PROVE  FALSE
      <4>1. j \in DOMAIN records
        BY <1>1, <2>1
      <4> QED BY <1>1, <1>2, <2>1, <3>1, <4>1 DEF Marked
    <3>2. records'[i].authored => records'[i].stamp = version'
      BY <1>1, <1>2, <2>1 DEF Marked
    <3> QED BY <3>1, <3>2 DEF NewestAuthored
  <2> QED BY <2>1, <2>2 DEF Cleaned
<1>4. ASSUME Smooth, DrillsOnce, ScriptsOnce PROVE DrillsStay(r) /\ ScriptsStay(r)
  <2>1. \A i \in DOMAIN records : records[i].authored => records[i].demo
    BY DEF CalmInv, TagsAreEarned
  <2>2. DrillsStay(r)
    <3> SUFFICES ASSUME NEW d \in DOMAIN Drilled, NEW i \in Demonstrations(Drilled[d].goal),
                        ~Drilled[d].guessing, records[i].authored, r[i].superseded
                 PROVE  FALSE
      BY DEF DrillsStay
    <3>1. i \in DOMAIN records /\ records[i].goal = Drilled[d].goal
      BY DEF Demonstrations
    <3>2. PICK j \in (i + 1)..Len(records) : records[j].authored /\ records[j].goal = records[i].goal
      BY <1>2, <3>1
    <3>3. j \in DOMAIN records /\ j # i
      BY <1>1, <3>1
    <3>4. j \in Demonstrations(Drilled[d].goal)
      BY <2>1, <3>1, <3>2, <3>3 DEF Demonstrations
    <3> QED BY <1>4, <3>3, <3>4 DEF DrillsOnce
  <2>3. ScriptsStay(r)
    BY <1>2 DEF ScriptsStay, CalmInv, RowsFit, Demonstrations
  <2> QED BY <2>2, <2>3
<1> QED BY <1>1, <1>2, <1>3, <1>4, PassKeeps

LEMMA DropKeeps ==
  ASSUME LaneTyped, calm, CalmInv, DropGuesses PROVE CalmInv'
<1> DEFINE r == WithoutGuesses(records)
<1>1. /\ Pass("guesses", r, "stale") /\ records' = r
      /\ version' = version /\ job' = [job EXCEPT !.op = "stale", !.copy = NoLoad]
      /\ job.op = "guesses" /\ job.kind = "build"
      /\ DOMAIN records = 1..Len(records) /\ records \in Seq(LaneRow)
  <2>1. job.copy = records /\ job.kind = "build" /\ job.op = "guesses"
    BY DEF DropGuesses, Pass, CalmInv, JobFits
  <2> QED BY <2>1 DEF DropGuesses, Pass, LaneTyped
<1>2. /\ Through(records, r)
      /\ \A i \in DOMAIN records :
            /\ Marked(records[i], r[i]) /\ r[i].stamp = records[i].stamp
            /\ r[i].superseded <=> records[i].superseded
                                   \/ (records[i].authored /\ records[i].guessing)
  BY <1>1, GuesslessRows
<1> HIDE DEF r
<1>3. Cleaned'
  <2>1. /\ job'.op = "stale" /\ DOMAIN records' = DOMAIN records
        /\ Len(records') = Len(records)
    BY <1>1, <1>2 DEF LaneTyped, Through
  <2>2. ASSUME NEW i \in DOMAIN records'
        PROVE  /\ NewestAuthored(i)'
               /\ records'[i].authored /\ records'[i].guessing => records'[i].superseded
    <3>1. NewestAuthored(i)
      BY <1>1, <2>1 DEF CalmInv, Cleaned
    <3>2. \A j \in (i + 1)..Len(records) : j \in DOMAIN records
      BY <1>1, <2>1
    <3>3. NewestAuthored(i)'
      BY <1>1, <1>2, <2>1, <3>1, <3>2 DEF NewestAuthored, Marked
    <3> QED BY <1>1, <1>2, <2>1, <3>3 DEF Marked
  <2> QED BY <2>1, <2>2 DEF Cleaned
<1>4. DrillsStay(r) /\ ScriptsStay(r)
  <2>1. DrillsStay(r)
    BY <1>2 DEF DrillsStay, CalmInv, RowsFit, Demonstrations
  <2>2. ScriptsStay(r)
    BY <1>2 DEF ScriptsStay, CalmInv, RowsFit, Demonstrations
  <2> QED BY <2>1, <2>2
<1> QED BY <1>1, <1>2, <1>3, <1>4, PassKeeps

LEMMA MarkKeeps ==
  ASSUME LaneTyped, calm, CalmInv, MarkStale PROVE CalmInv'
<1> DEFINE r == WithoutStale(records)
<1>1. /\ Pass("stale", r, "cover") /\ records' = r
      /\ version' = version /\ job' = [job EXCEPT !.op = "cover", !.copy = NoLoad]
      /\ job.op = "stale" /\ job.kind = "build"
      /\ DOMAIN records = 1..Len(records) /\ records \in Seq(LaneRow)
  <2>1. job.copy = records /\ job.kind = "build" /\ job.op = "stale"
    BY DEF MarkStale, Pass, CalmInv, JobFits
  <2> QED BY <2>1 DEF MarkStale, Pass, LaneTyped
<1>2. /\ Through(records, r)
      /\ \A i \in DOMAIN records :
            /\ Marked(records[i], r[i]) /\ r[i].stamp = records[i].stamp
            /\ r[i].superseded <=> records[i].superseded \/ Stale(records[i])
  BY <1>1, FreshRows
<1> HIDE DEF r
<1>3. Cleaned'
  <2>1. /\ job'.op = "cover" /\ DOMAIN records' = DOMAIN records
        /\ Len(records') = Len(records)
    BY <1>1, <1>2 DEF LaneTyped, Through
  <2>2. ASSUME NEW i \in DOMAIN records'
        PROVE  /\ NewestAuthored(i)'
               /\ records'[i].authored /\ records'[i].guessing => records'[i].superseded
               /\ records'[i].demo /\ records'[i].stamp # version' => records'[i].superseded
    <3>1. NewestAuthored(i) /\ (records[i].authored /\ records[i].guessing => records[i].superseded)
      BY <1>1, <2>1 DEF CalmInv, Cleaned
    <3>2. \A j \in (i + 1)..Len(records) : j \in DOMAIN records
      BY <1>1, <2>1
    <3>3. NewestAuthored(i)'
      BY <1>1, <1>2, <2>1, <3>1, <3>2 DEF NewestAuthored, Marked
    <3>4. records'[i].authored /\ records'[i].guessing => records'[i].superseded
      BY <1>1, <1>2, <2>1, <3>1 DEF Marked
    <3> QED BY <1>1, <1>2, <2>1, <3>3, <3>4 DEF Marked, Stale
  <2> QED BY <2>1, <2>2 DEF Cleaned
<1>4. DrillsStay(r) /\ ScriptsStay(r)
  <2>1. \A i \in DOMAIN records : records[i].authored => records[i].stamp = version
    BY <1>1 DEF CalmInv, Cleaned, NewestAuthored
  <2>2. DrillsStay(r)
    <3> SUFFICES ASSUME NEW d \in DOMAIN Drilled, NEW i \in Demonstrations(Drilled[d].goal),
                        records[i].authored, ~records[i].superseded
                 PROVE  ~r[i].superseded
      BY DEF DrillsStay
    <3>1. i \in DOMAIN records /\ records[i].demo /\ records[i].goal = Drilled[d].goal
      BY DEF Demonstrations
    <3>2. ~records[i].leading
      BY <3>1 DEF CalmInv, RowsFit
    <3> QED BY <1>2, <2>1, <3>1, <3>2 DEF Stale
  <2>3. ScriptsStay(r)
    BY <1>2 DEF ScriptsStay, Demonstrations, Stale
  <2> QED BY <2>2, <2>3
<1> QED BY <1>1, <1>2, <1>3, <1>4, PassKeeps

(* Another record at the end. *)
LEMMA SessionKeeps ==
  ASSUME LaneTyped, calm, CalmInv, RecordSession PROVE CalmInv'
<1> DEFINE n == Len(records)
<1>1. /\ job = NoJob /\ records' = Append(records, SessionRow)
      /\ trouble' = Append(trouble, "session") /\ UNCHANGED <<version, job, builds, calm>>
  BY DEF RecordSession
<1>2. /\ records \in Seq(LaneRow) /\ SessionRow \in LaneRow /\ ~SessionRow.demo
      /\ ~SessionRow.authored /\ SessionRow.stamp = 0
      /\ job.op = "rest" /\ trouble \in Seq(Troubles) /\ "session" \in Troubles
      /\ job.copy = NoLoad
  <2>1. version \in Nat
    BY LaneAssumption DEF LaneTyped
  <2>2. ~SessionRow.demo /\ ~SessionRow.authored /\ SessionRow.stamp = 0
    BY DEF SessionRow, Demonstration
  <2>3. job.op = "rest" /\ job.copy = NoLoad
    BY <1>1 DEF NoJob
  <2> QED BY <2>1, <2>2, <2>3, SessionTyped DEF LaneTyped, Troubles
<1>3. /\ DOMAIN records' = DOMAIN records \cup {n + 1} /\ n \in Nat /\ n + 1 \notin DOMAIN records
      /\ \A i \in DOMAIN records : records'[i] = records[i]
      /\ records'[n + 1] = SessionRow
  BY <1>1, <1>2, RowAdded
<1>4. JobFits'
  <2>1. JobFits
    BY DEF CalmInv
  <2> QED BY <1>1, <1>2, <2>1 DEF JobFits
<1>5. TagsAreEarned'
  BY <1>1, <1>2, <1>3 DEF CalmInv, TagsAreEarned
<1>6. RowsFit'
  BY <1>2, <1>3 DEF CalmInv, RowsFit
<1>7. Cleaned'
  BY <1>1 DEF Cleaned, NoJob
<1>8. SessionsKept'
  <2> DEFINE A == {i \in DOMAIN records : ~records[i].demo}
             B == {i \in DOMAIN trouble : trouble[i] = "session"}
  <2>1. {i \in DOMAIN records' : ~records'[i].demo} = A \cup {n + 1}
    BY <1>2, <1>3
  <2>2. /\ DOMAIN trouble' = DOMAIN trouble \cup {Len(trouble) + 1} /\ Len(trouble) \in Nat
        /\ \A i \in DOMAIN trouble : trouble'[i] = trouble[i]
        /\ trouble'[Len(trouble) + 1] = "session"
    BY <1>1, <1>2, RowAdded
  <2>3. {i \in DOMAIN trouble' : trouble'[i] = "session"} = B \cup {Len(trouble) + 1}
    BY <2>2
  <2>4. A \in SUBSET (1..n) /\ B \in SUBSET (1..Len(trouble))
    BY <1>2
  <2>5. Cardinality(A \cup {n + 1}) = Cardinality(A) + 1
    <3> HIDE DEF A, n
    <3> QED BY <1>3, <2>4, CountNext
  <2>6. Cardinality(B \cup {Len(trouble) + 1}) = Cardinality(B) + 1
    <3> HIDE DEF B
    <3> QED BY <2>2, <2>4, CountNext
  <2>7. Cardinality(A) = Cardinality(B)
    BY DEF CalmInv, SessionsKept
  <2> QED BY <2>1, <2>3, <2>5, <2>6, <2>7 DEF SessionsKept
<1>9. ASSUME Smooth' PROVE DrillsOnce' /\ ScriptsOnce'
  <2>1. Smooth
    <3>1. \A i \in DOMAIN trouble : i \in DOMAIN trouble' /\ trouble'[i] = trouble[i]
      BY <1>1, <1>2, RowAdded
    <3> QED BY <1>9, <3>1 DEF Smooth
  <2>2. DrillsOnce /\ ScriptsOnce
    BY <2>1 DEF CalmInv
  <2>3. \A g : Demonstrations(g)' = Demonstrations(g)
    BY <1>2, <1>3 DEF Demonstrations
  <2>4. \A g : Demonstrations(g) \subseteq DOMAIN records
    BY DEF Demonstrations
  <2>5. /\ \A i : ~Pending(i) /\ ~Pending(i)'
        /\ \A d : ~Later("lane", d)' /\ ~Later("build", d)'
    BY <1>1, <1>2 DEF Pending, Later
  <2>6. DrillsOnce'
    <3> SUFFICES ASSUME NEW d \in DOMAIN Drilled, ~Drilled[d].guessing
                 PROVE  /\ \A i, j \in Demonstrations(Drilled[d].goal) : i = j
                        /\ \A i \in Demonstrations(Drilled[d].goal) :
                              records'[i].authored /\ records'[i].passed /\ ~records'[i].superseded
      BY <2>3, <2>5 DEF DrillsOnce
    <3> QED BY <1>3, <2>2, <2>4, <2>5 DEF DrillsOnce
  <2>7. ScriptsOnce'
    <3> SUFFICES ASSUME NEW d \in DOMAIN Scripted
                 PROVE  /\ \A i, j \in Demonstrations(Scripted[d].goal) :
                              /\ records'[i].made = records'[j].made
                              /\ records'[i].nth = records'[j].nth
                              => i = j
                        /\ \A i \in Demonstrations(Scripted[d].goal) :
                              records'[i].made = version =>
                                  /\ records'[i].passed /\ ~records'[i].superseded
                                  /\ records'[i].stamp = version
                                  /\ records'[i].leading => records'[i].recovery
      BY <1>1, <2>3, <2>5 DEF ScriptsOnce
    <3> QED BY <1>3, <2>2, <2>4, <2>5 DEF ScriptsOnce
  <2> QED BY <2>6, <2>7
<1> QED BY <1>4, <1>5, <1>6, <1>7, <1>8, <1>9 DEF CalmInv

(* With a new version no demonstration is current, and none has been made. *)
LEMMA UpgradeKeeps ==
  ASSUME LaneTyped, calm, CalmInv, Upgrade PROVE CalmInv'
<1>1. /\ job = NoJob /\ version' = version + 1 /\ version \in Nat
      /\ UNCHANGED <<records, job, builds, trouble, calm>>
  BY LaneAssumption DEF Upgrade, LaneTyped
<1>2. job.op = "rest" /\ job.kind = "rest"
  BY <1>1 DEF NoJob
<1>3. JobFits'
  <2>1. JobFits
    BY DEF CalmInv
  <2> QED BY <1>1, <1>2, <2>1 DEF JobFits
<1>4. TagsAreEarned' /\ RowsFit' /\ SessionsKept' /\ Cleaned'
  BY <1>1, <1>2 DEF CalmInv, TagsAreEarned, RowsFit, SessionsKept, Cleaned
<1>5. ASSUME Smooth' PROVE DrillsOnce' /\ ScriptsOnce'
  <2>1. DrillsOnce /\ ScriptsOnce
    BY <1>1, <1>5 DEF CalmInv, Smooth
  <2>2. DrillsOnce'
    BY <1>1, <2>1 DEF DrillsOnce, Demonstrations, Pending, Later
  <2>3. \A i \in DOMAIN records : records[i].made # version'
    BY <1>1 DEF LaneTyped, Versioned
  <2>4. ScriptsOnce'
    BY <1>1, <1>2, <2>1, <2>3 DEF ScriptsOnce, Demonstrations, Pending, Later
  <2> QED BY <2>2, <2>4
<1> QED BY <1>3, <1>4, <1>5 DEF CalmInv

(* A run: what was not covered had no demonstration before. *)
LEMMA RunKeeps ==
  ASSUME LaneTyped, calm, CalmInv, NEW o \in {"verified", "unproved", "failed"}, Run(o)
  PROVE  CalmInv'
<1> DEFINE n == Len(records)
           e == Demonstration(Due, job.next, o # "failed")
<1>1. /\ job.op = "run" /\ Ahead /\ Due.goal \notin job.covered
      /\ records' = Append(records, e) /\ UNCHANGED <<version, builds, calm>>
      /\ \/ o = "verified" /\ job' = [job EXCEPT !.op = "tag"] /\ trouble' = trouble
         \/ /\ o \in {"unproved", "failed"} /\ job' = [job EXCEPT !.next = @ + 1]
            /\ trouble' = Append(trouble, o)
  BY DEF Run
<1>2. /\ records \in Seq(LaneRow) /\ e \in LaneRow /\ Due \in Task /\ job.next \in Nat
      /\ e.goal = Due.goal /\ e.demo /\ (e.passed <=> o # "failed") /\ ~e.authored
      /\ e.stamp = 0 /\ ~e.superseded /\ e.guessing = Due.guessing /\ e.leading = Due.leading
      /\ ~e.recovery /\ e.made = version /\ e.nth = job.next
  <2>1. version \in Nat /\ job.next \in Nat /\ Due \in Task /\ (o # "failed") \in BOOLEAN
    BY <1>1, LaneAssumption, DueTyped DEF LaneTyped
  <2>2. e \in LaneRow
    BY <2>1, RunTyped
  <2> QED BY <2>1, <2>2 DEF LaneTyped, Demonstration
<1>3. /\ job.kind \in {"build", "lane"} /\ job.copy = NoLoad
      /\ job'.kind = job.kind /\ job'.copy = NoLoad /\ job'.covered = job.covered
      /\ o = "verified" => job'.op = "tag" /\ job'.next = job.next
      /\ o # "verified" => job'.op = "run" /\ job'.next = job.next + 1
  BY <1>1 DEF CalmInv, JobFits, LaneTyped
<1>4. job.kind = "lane" => job.next \in DOMAIN Drilled /\ Due = Drilled[job.next]
  BY <1>1 DEF Ahead, Due, Lane
<1>5. job.kind = "build" => job.next \in DOMAIN Scripted /\ Due = Scripted[job.next]
  BY <1>1 DEF Ahead, Due, Lane
<1>6. o = "verified" => e = (Demonstration(Due, job.next, TRUE))'
  <2>1. o = "verified" => Due' = Due /\ version' = version /\ job'.next = job.next
    BY <1>1, <1>3 DEF Due
  <2> QED BY <2>1 DEF Demonstration
<1>7. /\ DOMAIN records' = DOMAIN records \cup {n + 1} /\ n \in Nat /\ n + 1 \notin DOMAIN records
      /\ Len(records') = n + 1 /\ \A i \in DOMAIN records : records'[i] = records[i]
      /\ records'[n + 1] = e
  <2> HIDE DEF e
  <2> QED BY <1>1, <1>2, RowAdded
<1> HIDE DEF e, n
<1>8. JobFits'
  <2>1. job' # NoJob
    BY <1>3 DEF NoJob
  <2>2. /\ job'.op \in {"tag", "run"} /\ job'.kind \in {"build", "lane"} /\ job'.copy = NoLoad
        /\ job'.op = "tag" => o = "verified"
    BY <1>3
  <2>3. job'.op = "tag" => /\ Len(records') > 0
                          /\ records'[Len(records')] = (Demonstration(Due, job.next, TRUE))'
    <3>1. Len(records') > 0 /\ records'[Len(records')] = e
      BY <1>7
    <3> QED BY <1>6, <2>2, <3>1
  <2> QED BY <2>1, <2>2, <2>3 DEF JobFits
<1>9. TagsAreEarned'
  BY <1>1, <1>2, <1>7 DEF CalmInv, TagsAreEarned
<1>10. RowsFit'
  <2>1. ASSUME NEW d \in DOMAIN Drilled, e.goal = Drilled[d].goal
        PROVE  e.guessing = Drilled[d].guessing /\ ~e.leading
    <3>1. job.kind = "lane"
      <4>1. Due.goal = Drilled[d].goal
        BY <1>2, <2>1
      <4>2. SUFFICES ASSUME job.kind = "build" PROVE FALSE
        BY <1>3
      <4>3. Scripted[job.next].goal = Drilled[d].goal /\ job.next \in DOMAIN Scripted
        BY <1>5, <4>1, <4>2
      <4> QED BY <4>3, LaneAssumption
    <3>2. d = job.next
      <4>1. Drilled[job.next].goal = Drilled[d].goal /\ job.next \in DOMAIN Drilled
        BY <1>2, <1>4, <2>1, <3>1
      <4> QED BY <4>1, LaneAssumption
    <3>3. ~Drilled[d].leading
      BY LaneAssumption
    <3> QED BY <1>2, <1>4, <3>1, <3>2, <3>3
  <2> QED BY <1>2, <1>7, <2>1 DEF CalmInv, RowsFit
<1>11. Cleaned'
  BY <1>3 DEF Cleaned
<1>12. SessionsKept'
  <2>1. {i \in DOMAIN records' : ~records'[i].demo} = {i \in DOMAIN records : ~records[i].demo}
    BY <1>2, <1>7
  <2>2. {i \in DOMAIN trouble' : trouble'[i] = "session"}
          = {i \in DOMAIN trouble : trouble[i] = "session"}
    <3>1. CASE trouble' = trouble
      BY <3>1
    <3>2. CASE o \in {"unproved", "failed"} /\ trouble' = Append(trouble, o)
      <4>1. trouble \in Seq(Troubles) /\ o \in Troubles
        BY <3>2 DEF LaneTyped, Troubles
      <4>2. /\ DOMAIN trouble' = DOMAIN trouble \cup {Len(trouble) + 1}
            /\ \A i \in DOMAIN trouble : trouble'[i] = trouble[i]
            /\ trouble'[Len(trouble) + 1] = o /\ o # "session"
        BY <3>2, <4>1, RowAdded
      <4> QED BY <4>2
    <3> QED BY <1>1, <3>1, <3>2
  <2> QED BY <1>1, <2>1, <2>2 DEF CalmInv, SessionsKept
<1>13. ASSUME Smooth' PROVE o = "verified" /\ Smooth /\ DrillsOnce /\ ScriptsOnce
  <2>1. trouble' = trouble /\ o = "verified"
    <3> SUFFICES ASSUME o \in {"unproved", "failed"}, trouble' = Append(trouble, o) PROVE FALSE
      BY <1>1
    <3>1. trouble \in Seq(Troubles) /\ o \in Troubles
      BY DEF LaneTyped, Troubles
    <3>2. Len(trouble) + 1 \in DOMAIN trouble' /\ trouble'[Len(trouble) + 1] = o /\ o # "session"
      BY <3>1, RowAdded
    <3> QED BY <1>13, <3>2 DEF Smooth
  <2>2. Smooth
    BY <1>13, <2>1 DEF Smooth
  <2> QED BY <2>1, <2>2 DEF CalmInv
<1>14. /\ \A i \in DOMAIN records : ~Pending(i)
       /\ \A g : Demonstrations(g)' = Demonstrations(g)
                                       \cup (IF g = Due.goal THEN {n + 1} ELSE {})
       /\ \A g : Demonstrations(g) \subseteq DOMAIN records
  BY <1>1, <1>2, <1>7 DEF Pending, Demonstrations
<1>15. ASSUME Smooth' PROVE DrillsOnce'
  <2>1. o = "verified" /\ DrillsOnce
    BY <1>13, <1>15
  <2> SUFFICES ASSUME NEW d \in DOMAIN Drilled, ~Drilled[d].guessing
               PROVE  LET ds == Demonstrations(Drilled[d].goal)'
                      IN  /\ \A i, j \in ds : i = j
                          /\ \A i \in ds : \/ i = n + 1
                                           \/ /\ records'[i].authored /\ records'[i].passed
                                              /\ ~records'[i].superseded
                          /\ job.kind = "lane" /\ job.next < d =>
                                Drilled[d].goal \in job.covered \/ ds = {}
    BY <1>3, <1>7, <2>1 DEF DrillsOnce, Pending, Later
  <2> DEFINE ds == Demonstrations(Drilled[d].goal)
  <2>2. /\ \A i, j \in ds : i = j
        /\ \A i \in ds : records[i].authored /\ records[i].passed /\ ~records[i].superseded
        /\ job.kind = "lane" /\ job.next <= d => Drilled[d].goal \in job.covered \/ ds = {}
    BY <1>1, <1>14, <2>1 DEF DrillsOnce, Later
  <2>3. CASE Due.goal = Drilled[d].goal
    <3>1. job.kind = "lane" /\ d = job.next
      <4>1. job.kind = "lane"
        BY <1>3, <1>5, <2>3, LaneAssumption
      <4> QED BY <1>4, <2>3, <4>1, LaneAssumption
    <3>2. ds = {}
      BY <1>1, <1>2, <2>2, <2>3, <3>1
    <3>3. ds' = {n + 1} /\ ~(job.next < d)
      BY <1>2, <1>14, <2>3, <3>1, <3>2
    <3> QED BY <3>3
  <2>4. CASE Due.goal # Drilled[d].goal
    <3>1. ds' = ds /\ ds \subseteq DOMAIN records
      BY <1>14, <2>4
    <3>2. d \in Nat
      BY LaneAssumption
    <3> HIDE DEF ds
    <3>3. \A i \in ds : records'[i] = records[i]
      BY <1>7, <3>1
    <3>4. job.next < d => job.next <= d
      BY <1>2, <3>2
    <3> QED BY <2>2, <3>1, <3>3, <3>4 DEF ds
  <2> QED BY <2>3, <2>4
<1>16. ASSUME Smooth' PROVE ScriptsOnce'
  <2>1. o = "verified" /\ ScriptsOnce
    BY <1>13, <1>16
  <2> SUFFICES ASSUME NEW d \in DOMAIN Scripted
               PROVE  LET ds == Demonstrations(Scripted[d].goal)'
                      IN  /\ \A i, j \in ds : /\ records'[i].made = records'[j].made
                                              /\ records'[i].nth = records'[j].nth
                                              => i = j
                          /\ \A i \in ds : records'[i].made = version =>
                                \/ i = n + 1
                                \/ /\ records'[i].passed /\ ~records'[i].superseded
                                   /\ records'[i].stamp = version
                                   /\ records'[i].leading => records'[i].recovery
                          /\ job.kind = "build" /\ job.next < d =>
                                \/ Scripted[d].goal \in job.covered
                                \/ \A i \in ds : records'[i].made = version => records'[i].nth # d
    BY <1>1, <1>3, <1>7, <2>1 DEF ScriptsOnce, Pending, Later
  <2> DEFINE ds == Demonstrations(Scripted[d].goal)
  <2>2. /\ \A i, j \in ds :
              records[i].made = records[j].made /\ records[i].nth = records[j].nth => i = j
        /\ \A i \in ds : records[i].made = version =>
              /\ records[i].passed /\ ~records[i].superseded /\ records[i].stamp = version
              /\ records[i].leading => records[i].recovery
        /\ job.kind = "build" /\ job.next <= d =>
              \/ Scripted[d].goal \in job.covered
              \/ \A i \in ds : records[i].made = version => records[i].nth # d
    BY <1>1, <1>14, <2>1 DEF ScriptsOnce, Later
  <2>3. d \in Nat /\ ds \subseteq DOMAIN records /\ \A i \in ds : records'[i] = records[i]
    BY <1>7, <1>14, LaneAssumption
  <2>4. CASE Due.goal = Scripted[d].goal
    <3>1. job.kind = "build"
      BY <1>3, <1>4, <2>4, LaneAssumption
    <3>2. Later("build", job.next) /\ Scripted[job.next].goal = Scripted[d].goal
      BY <1>1, <1>2, <1>5, <2>4, <3>1 DEF Later
    <3>3. \A i \in ds : records[i].made = version => records[i].nth # job.next
      BY <1>1, <1>5, <2>1, <2>4, <3>1, <3>2 DEF ScriptsOnce
    <3>4. ds' = ds \cup {n + 1}
      BY <1>14, <2>4
    <3> HIDE DEF ds
    <3>5. job.next < d => job.next <= d /\ job.next # d
      BY <1>2, <2>3
    <3> QED BY <1>1, <1>2, <1>7, <2>2, <2>3, <2>4, <3>3, <3>4, <3>5 DEF ds
  <2>5. CASE Due.goal # Scripted[d].goal
    <3>1. ds' = ds
      BY <1>14, <2>5
    <3> HIDE DEF ds
    <3>2. job.next < d => job.next <= d
      BY <1>2, <2>3
    <3> QED BY <2>2, <2>3, <3>1, <3>2 DEF ds
  <2> QED BY <2>4, <2>5
<1> QED BY <1>8, <1>9, <1>10, <1>11, <1>12, <1>15, <1>16 DEF CalmInv

(* The tags go to the row of the run that earned them. *)
LEMMA TagKeeps ==
  ASSUME LaneTyped, calm, CalmInv, Tag PROVE CalmInv'
<1> DEFINE n == Len(records)
           r == Tagged(Due, job.kind, records)
<1>1. /\ job.op = "tag" /\ job.copy = records /\ records' = r
      /\ job' = [job EXCEPT !.op = "run", !.next = @ + 1, !.copy = NoLoad]
      /\ UNCHANGED <<version, builds, trouble, calm>>
  BY DEF Tag, CalmInv, JobFits
<1>2. /\ job.kind \in {"build", "lane"} /\ Ahead /\ n \in DOMAIN records
      /\ records[n] = Demonstration(Due, job.next, TRUE)
      /\ records \in Seq(LaneRow) /\ version \in Nat /\ version > 0 /\ job.next \in Nat
      /\ Due \in Task
  <2>1. Ahead /\ job.kind \in {"build", "lane"} /\ job.next \in Nat
    BY <1>1 DEF CalmInv, JobFits, LaneTyped
  <2>2. records \in Seq(LaneRow) /\ version \in Nat /\ version > 0
    BY LaneAssumption DEF LaneTyped
  <2>3. Len(records) > 0 /\ records[Len(records)] = Demonstration(Due, job.next, TRUE)
    BY <1>1 DEF CalmInv, JobFits
  <2>4. n \in DOMAIN records
    BY <2>2, <2>3
  <2> QED BY <2>1, <2>2, <2>3, <2>4, DueTyped
<1>3. /\ job'.op = "run" /\ job'.kind = job.kind /\ job'.next = job.next + 1
      /\ job'.covered = job.covered /\ job'.copy = NoLoad
  BY <1>1 DEF LaneTyped
<1>4. job.kind = "lane" => job.next \in DOMAIN Drilled /\ Due = Drilled[job.next]
  BY <1>2 DEF Ahead, Due, Lane
<1>5. job.kind = "build" => job.next \in DOMAIN Scripted /\ Due = Scripted[job.next]
  BY <1>2 DEF Ahead, Due, Lane
<1>6. /\ Through(records, r)
      /\ \A i \in DOMAIN records : i # n => r[i] = records[i]
      /\ r[n].stamp = version
      /\ r[n].authored <=> records[n].authored \/ job.kind = "lane"
      /\ r[n].recovery <=> records[n].recovery \/ (job.kind = "build" /\ Due.leading)
      /\ r[n].goal = records[n].goal /\ r[n].demo = records[n].demo
      /\ r[n].passed = records[n].passed /\ r[n].superseded = records[n].superseded
      /\ r[n].guessing = records[n].guessing /\ r[n].leading = records[n].leading
      /\ r[n].made = records[n].made /\ r[n].nth = records[n].nth
  <2>1. OnlyLastTagged(Due, job.kind, records, r, n)
    BY <1>2, TaggedRows
  <2> HIDE DEF r, n
  <2> QED BY <1>2, <2>1 DEF OnlyLastTagged
<1>7. /\ records[n].goal = Due.goal /\ records[n].demo /\ records[n].passed
      /\ ~records[n].authored /\ ~records[n].superseded /\ records[n].leading = Due.leading
      /\ records[n].guessing = Due.guessing
  BY <1>2 DEF Demonstration
<1> HIDE DEF r
<1>8. /\ DOMAIN records' = DOMAIN records
      /\ \A i \in DOMAIN records : i # n => records'[i] = records[i]
  BY <1>1, <1>6 DEF Through
<1>9. JobFits'
  <2>1. job' # NoJob
    BY <1>3 DEF NoJob
  <2> QED BY <1>2, <1>3, <2>1 DEF JobFits
<1> HIDE DEF n
<1>10. TagsAreEarned'
  <2>1. records'[n].demo /\ records'[n].passed
    BY <1>1, <1>6, <1>7
  <2>2. \A i \in DOMAIN records :
           records[i].authored \/ records[i].stamp > 0 => records[i].demo /\ records[i].passed
    BY DEF CalmInv, TagsAreEarned
  <2> QED BY <1>8, <2>1, <2>2 DEF TagsAreEarned
<1>11. RowsFit'
  <2>1. ASSUME NEW d \in DOMAIN Drilled, Due.goal = Drilled[d].goal
        PROVE  /\ Due.guessing = Drilled[d].guessing /\ ~Due.leading
               /\ job.kind = "lane"
    <3>1. job.kind = "lane"
      BY <1>2, <1>5, <2>1, LaneAssumption
    <3>2. d = job.next
      BY <1>4, <2>1, <3>1, LaneAssumption
    <3> QED BY <1>4, <3>1, <3>2, LaneAssumption
  <2>2. ASSUME NEW d \in DOMAIN Scripted, Due.goal = Scripted[d].goal PROVE job.kind = "build"
    BY <1>2, <1>4, <2>2, LaneAssumption
  <2>3. ASSUME NEW i \in DOMAIN records, records'[i].demo
        PROVE  /\ \A d \in DOMAIN Drilled : records'[i].goal = Drilled[d].goal =>
                    /\ records'[i].guessing = Drilled[d].guessing /\ ~records'[i].leading
                    /\ records'[i].stamp > 0 => records'[i].authored
               /\ \A d \in DOMAIN Scripted :
                    records'[i].goal = Scripted[d].goal => ~records'[i].authored
    <3>1. CASE i = n
      BY <1>1, <1>6, <1>7, <2>1, <2>2, <3>1
    <3>2. CASE i # n
      BY <1>8, <2>3, <3>2 DEF CalmInv, RowsFit
    <3> QED BY <3>1, <3>2
  <2> QED BY <1>8, <2>3 DEF RowsFit
<1>12. Cleaned'
  BY <1>3 DEF Cleaned
<1>13. \A i \in DOMAIN records : /\ records'[i].demo = records[i].demo
                                 /\ records'[i].goal = records[i].goal
                                 /\ records'[i].made = records[i].made
                                 /\ records'[i].nth = records[i].nth
                                 /\ records'[i].leading = records[i].leading
  BY <1>1, <1>6, <1>8
<1>14. SessionsKept'
  <2>1. {i \in DOMAIN records' : ~records'[i].demo} = {i \in DOMAIN records : ~records[i].demo}
    BY <1>8, <1>13
  <2> QED BY <1>1, <2>1 DEF CalmInv, SessionsKept
<1>15. /\ \A g : Demonstrations(g)' = Demonstrations(g) /\ Demonstrations(g) \subseteq DOMAIN records
       /\ \A i : Pending(i) <=> i = n
       /\ \A i : ~Pending(i)'
  BY <1>1, <1>3, <1>8, <1>13 DEF Demonstrations, Pending, n
<1>16. ASSUME Smooth' PROVE DrillsOnce' /\ ScriptsOnce'
  <2>1. DrillsOnce /\ ScriptsOnce
    BY <1>1, <1>16 DEF CalmInv, Smooth
  <2>2. \A d \in Nat : /\ Later("lane", d)' => Later("lane", d)
                       /\ Later("build", d)' => Later("build", d)
    BY <1>1, <1>2, <1>3 DEF Later
  <2>3. DrillsOnce'
    <3> SUFFICES ASSUME NEW d \in DOMAIN Drilled, ~Drilled[d].guessing
                 PROVE  LET ds == Demonstrations(Drilled[d].goal)
                        IN  /\ \A i, j \in ds : i = j
                            /\ \A i \in ds : /\ records'[i].authored /\ records'[i].passed
                                             /\ ~records'[i].superseded
                            /\ Later("lane", d)' => Drilled[d].goal \in job.covered \/ ds = {}
      BY <1>3, <1>15 DEF DrillsOnce
    <3> DEFINE ds == Demonstrations(Drilled[d].goal)
    <3>1. /\ \A i, j \in ds : i = j
          /\ \A i \in ds : i # n => /\ records[i].authored /\ records[i].passed
                                    /\ ~records[i].superseded
          /\ Later("lane", d) => Drilled[d].goal \in job.covered \/ ds = {}
      BY <1>15, <2>1 DEF DrillsOnce
    <3>2. ASSUME n \in ds PROVE job.kind = "lane"
      <4>1. Due.goal = Drilled[d].goal
        BY <1>7, <3>2 DEF Demonstrations
      <4> QED BY <1>2, <1>5, <4>1, LaneAssumption
    <3>3. d \in Nat
      BY LaneAssumption
    <3>4. \A i \in ds : records'[i].authored /\ records'[i].passed /\ ~records'[i].superseded
      <4>1. n \in ds => /\ records'[n].authored /\ records'[n].passed
                         /\ ~records'[n].superseded
        BY <1>1, <1>6, <1>7, <3>2
      <4>2. ds \subseteq DOMAIN records
        BY <1>15
      <4> HIDE DEF ds
      <4> QED BY <1>8, <3>1, <4>1, <4>2
    <3> QED BY <2>2, <3>1, <3>3, <3>4
  <2>4. ScriptsOnce'
    <3> SUFFICES ASSUME NEW d \in DOMAIN Scripted
                 PROVE  LET ds == Demonstrations(Scripted[d].goal)
                        IN  /\ \A i, j \in ds : /\ records[i].made = records[j].made
                                                /\ records[i].nth = records[j].nth
                                                => i = j
                            /\ \A i \in ds : records[i].made = version =>
                                 /\ records'[i].passed /\ ~records'[i].superseded
                                 /\ records'[i].stamp = version
                                 /\ records'[i].leading => records'[i].recovery
                            /\ Later("build", d)' =>
                                 \/ Scripted[d].goal \in job.covered
                                 \/ \A i \in ds : records[i].made = version => records[i].nth # d
      BY <1>1, <1>3, <1>13, <1>15 DEF ScriptsOnce
    <3> DEFINE ds == Demonstrations(Scripted[d].goal)
    <3>1. /\ \A i, j \in ds :
                records[i].made = records[j].made /\ records[i].nth = records[j].nth => i = j
          /\ \A i \in ds : i # n /\ records[i].made = version =>
                /\ records[i].passed /\ ~records[i].superseded /\ records[i].stamp = version
                /\ records[i].leading => records[i].recovery
          /\ Later("build", d) => \/ Scripted[d].goal \in job.covered
                                  \/ \A i \in ds : records[i].made = version => records[i].nth # d
      BY <1>15, <2>1 DEF ScriptsOnce
    <3>2. ASSUME n \in ds PROVE job.kind = "build"
      <4>1. Due.goal = Scripted[d].goal
        BY <1>7, <3>2 DEF Demonstrations
      <4> QED BY <1>2, <1>4, <4>1, LaneAssumption
    <3>3. d \in Nat
      BY LaneAssumption
    <3>4. \A i \in ds : records[i].made = version =>
              /\ records'[i].passed /\ ~records'[i].superseded /\ records'[i].stamp = version
              /\ records'[i].leading => records'[i].recovery
      <4> TAKE i \in ds
      <4>1. CASE i = n
        BY <1>1, <1>6, <1>7, <3>2, <4>1
      <4>2. CASE i # n
        BY <1>8, <1>15, <3>1, <4>2
      <4> QED BY <4>1, <4>2
    <3> QED BY <2>2, <3>1, <3>3, <3>4
  <2> QED BY <2>3, <2>4
<1> QED BY <1>9, <1>10, <1>11, <1>12, <1>14, <1>16 DEF CalmInv

(* LaneInv is inductive. *)
LEMMA LaneStepKeeps ==
  ASSUME LaneInv, [LaneNext]_laneVars PROVE LaneInv'
<1>1. LaneTyped'
  BY LaneTypedStays DEF LaneInv
<1>2. calm' = calm
  BY DEF LaneNext, laneVars, StartCommand, Load, Repair, DropGuesses, MarkStale, Pass, Cover,
         SkipCovered, Run, Tag, End, CommandDies, RecordSession, Upgrade
<1>3. ASSUME calm, LaneTyped, CalmInv PROVE CalmInv'
  <2>1. CASE UNCHANGED laneVars
    <3>1. /\ records' = records /\ version' = version /\ job' = job /\ trouble' = trouble
          /\ calm' = calm
      BY <2>1 DEF laneVars
    <3>2. Due' = Due
      BY <3>1 DEF Due
    <3>3. JobFits' = JobFits
      BY <3>1, <3>2 DEF JobFits, Demonstration
    <3>4. /\ TagsAreEarned' = TagsAreEarned /\ RowsFit' = RowsFit /\ Cleaned' = Cleaned
          /\ SessionsKept' = SessionsKept /\ Smooth' = Smooth
      BY <3>1 DEF TagsAreEarned, RowsFit, Cleaned, NewestAuthored, SessionsKept, Smooth
    <3>5. DrillsOnce' = DrillsOnce /\ ScriptsOnce' = ScriptsOnce
      BY <3>1 DEF DrillsOnce, ScriptsOnce, Demonstrations, Pending, Later
    <3> QED BY <1>3, <3>3, <3>4, <3>5 DEF CalmInv
  <2>2. CASE LaneNext
    BY <1>3, <2>2, CommandKeeps, LoadKeeps, RepairKeeps, DropKeeps, MarkKeeps, CoverKeeps,
       SkipKeeps, RunKeeps, TagKeeps, SessionKeeps, UpgradeKeeps DEF LaneNext
  <2> QED BY <2>1, <2>2
<1> QED BY <1>1, <1>2, <1>3 DEF LaneInv

LEMMA LaneInvSound == LaneInv => LaneIsSound
<1> SUFFICES ASSUME LaneInv PROVE LaneIsSound
  OBVIOUS
<1>1. TagsAreEarned /\ SessionsKept
  BY DEF LaneInv, CalmInv, TagsAreEarned, SessionsKept
<1>2. TaughtOnce
  <2> SUFFICES ASSUME calm, job.kind = "build", job.op = "cover", NEW i \in Current
               PROVE  /\ records[i].stamp = version
                      /\ records[i].goal \in {Drilled[d].goal : d \in DOMAIN Drilled} =>
                            /\ ~records[i].guessing
                            /\ \A j \in Current : records[j].goal = records[i].goal => j = i
    BY DEF TaughtOnce
  <2>1. RowsFit /\ Cleaned /\ TagsAreEarned /\ LaneTyped
    BY DEF LaneInv, CalmInv
  <2>2. ASSUME NEW j \in Current
        PROVE  /\ j \in DOMAIN records /\ records[j].demo /\ ~records[j].superseded
               /\ records[j].stamp = version /\ NewestAuthored(j)
               /\ ~(records[j].authored /\ records[j].guessing)
    BY <2>1 DEF Current, Cleaned
  <2>3. ASSUME NEW d \in DOMAIN Drilled, NEW j \in Current, records[j].goal = Drilled[d].goal
        PROVE  records[j].authored
    <3>1. version > 0
      BY <2>1, LaneAssumption DEF LaneTyped
    <3> QED BY <2>1, <2>2, <2>3, <3>1 DEF RowsFit
  <2>4. ASSUME NEW d \in DOMAIN Drilled, records[i].goal = Drilled[d].goal,
               NEW j \in Current, records[j].goal = records[i].goal
        PROVE  j = i
    <3>1. records[i].authored /\ records[j].authored
      BY <2>3, <2>4
    <3>2. i \in 1..Len(records) /\ j \in 1..Len(records) /\ Len(records) \in Nat
      BY <2>1, <2>2, RowsTyped
    <3>3. ~(j \in (i + 1)..Len(records)) /\ ~(i \in (j + 1)..Len(records))
      BY <2>2, <2>4, <3>1 DEF NewestAuthored
    <3> QED BY <3>2, <3>3
  <2> QED BY <2>2, <2>3, <2>4
<1>3. LaneIsIdempotent
  <2> SUFFICES ASSUME calm, Smooth PROVE LaneIsIdempotent
    BY DEF LaneIsIdempotent, Smooth
  <2> QED BY DEF LaneInv, CalmInv, DrillsOnce, ScriptsOnce, LaneIsIdempotent
<1> QED BY <1>1, <1>2, <1>3 DEF LaneIsSound

(* What the lanes leave in the store: only verified runs are tagged, a       *)
(* cleaned-up store teaches each drill by one row of the current format, no  *)
(* run is repeated unless something went wrong, and no session is lost, for  *)
(* any drills and scripts, any number of commands, crashes and failed runs   *)
(* (ep1.build_corpus, build_agent_corpus).                                   *)
THEOREM LanesStaySound == LaneSpec => []LaneIsSound
BY LaneInitHolds, LaneStepKeeps, LaneInvSound, PTL DEF LaneSpec

=============================================================================
