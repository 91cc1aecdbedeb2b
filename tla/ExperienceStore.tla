--------------------------- MODULE ExperienceStore --------------------------
(***************************************************************************)
(* experience.jsonl: what finished sessions and confirmed claims teach,    *)
(* one row per normalized goal (agent/experience.py).  record() holds the  *)
(* record lock from its load to its save; curate() of session_learning.py  *)
(* loads and saves without it.  Both save through one temporary name.      *)
(***************************************************************************)
EXTENDS Integers, Sequences

CONSTANTS Goals,     \* the normalized goals the model knows
          Noise,     \* of these, greetings and resume requests
          Recorders, \* threads that record what they learnt
          Cleaners,  \* processes that run curate()
          Sessions,  \* finished sessions: [state, attempts, style]
          Claimed,   \* outcomes a model may claim
          Starts,    \* what the file may hold at the start: all of it learnt
          NoRow, NoFile,
          MaxRecords, \* bound of the model: calls of record()...
          MaxShared   \* ...and the same where curate() may overlap them

ASSUME StoreAssumption ==
    /\ Noise \subseteq Goals /\ Recorders \cap Cleaners = {} /\ {MaxRecords, MaxShared} \subseteq Nat
    /\ \A s \in Sessions :
          /\ s.state \in {"COMPLETED", "FAILED", "CANCELLED"}
          /\ s.attempts \in Seq(BOOLEAN)
          \* the loop completes a session at the first verification that passes
          /\ \A i \in DOMAIN s.attempts :
                s.attempts[i] <=> s.state = "COMPLETED" /\ i = Len(s.attempts)

VARIABLES store, \* store[g]: the row of goal g, or NoRow
          temp,  \* the file under the temporary name, or NoFile
          hand,  \* hand[p]: what process p is about to save
          lock,  \* who holds the record lock, or NoRow
          told,  \* goals whose record() has returned
          calls, \* calls of record() so far
          apart  \* curate() never overlaps a record()

storeVars == <<store, temp, hand, lock, told, calls, apart>>

Outcomes == {"success", "failed", "recovered", "human_corrected", "partial"}
Styles == {"real", "thrash", "flagged", "demo"}

Rows == [outcome : Outcomes, proof : BOOLEAN,
         steps : {"proved", "unproved", "none"}, style : Styles]

Free == [at |-> "idle", rows |-> [g \in Goals |-> NoRow], goal |-> NoRow]

StoreInit == /\ store \in Starts
             /\ temp = NoFile
             /\ hand = [p \in Recorders \cup Cleaners |-> Free]
             /\ lock = NoRow /\ told = {} /\ calls = 0
             /\ apart \in BOOLEAN

-----------------------------------------------------------------------------
(* classify_outcome: mechanical, from what the session observed. *)
Outcome(s) == IF s.state = "FAILED" THEN "failed"
              ELSE IF s.state = "CANCELLED" \/ s.attempts = <<>> THEN "partial"
              ELSE IF Head(s.attempts) THEN "success" ELSE "recovered"

(* session_to_experience: the steps are those of this very session. *)
Lesson(s) ==
    [outcome |-> Outcome(s),
     proof   |-> TRUE \in {s.attempts[i] : i \in DOMAIN s.attempts},
     steps   |-> IF s.state = "COMPLETED" /\ s.attempts # <<>> THEN "proved"
                                                               ELSE "unproved",
     style   |-> s.style]

(* experience_record: an outcome a model claims and a human lets through. *)
Claim(outcome) == [outcome |-> outcome, proof |-> FALSE, steps |-> "none",
                   style |-> "real"]

(* A known goal is reinforced: the outcome is the latest one, while steps  *)
(* and verification stay those of the first session.                       *)
Reinforced(row, new) == [row EXCEPT !.outcome = new.outcome]

(* Rows the store may start with, whatever sessions they come from: the     *)
(* recorded pass and the steps are of the same session.                     *)
ASSUME RowsAssumption ==
    /\ NoRow \notin Rows \cup Recorders
    /\ Claimed \subseteq Outcomes
    /\ \A s \in Sessions : s.style \in Styles
    /\ \A rows \in Starts :
          /\ rows \in [Goals -> Rows \cup {NoRow}]
          /\ \A g \in Goals : rows[g] # NoRow => (rows[g].proof <=> rows[g].steps = "proved")

Learnt(g, new) ==
    [store EXCEPT ![g] = IF @ = NoRow THEN new ELSE Reinforced(@, new)]

Resting(group) == \A p \in group : hand[p].at = "idle"

(* Fault: record() computes what it saves before it has the lock. *)
LockFreeNever == TRUE

LockFree == lock = NoRow

(* record(), up to the save: lock, load, reinforce or append. *)
RecordLesson(p, g, new) ==
    /\ hand[p].at = "idle" /\ LockFree
    /\ calls < IF apart THEN MaxRecords ELSE MaxShared
    /\ apart => Resting(Cleaners)
    /\ lock' = p
    /\ hand' = [hand EXCEPT ![p] = [at |-> "write", rows |-> Learnt(g, new), goal |-> g]]
    /\ calls' = calls + 1
    /\ UNCHANGED <<store, temp, told, apart>>

(* curate(), up to the save: greetings and resume requests are dropped. *)
Clean(p) ==
    /\ hand[p].at = "idle"
    /\ apart => Resting(Recorders)
    /\ hand' = [hand EXCEPT ![p] =
                   [at |-> "write", goal |-> NoRow,
                    rows |-> [g \in Goals |-> IF g \in Noise THEN NoRow ELSE store[g]]]]
    /\ UNCHANGED <<store, temp, lock, told, calls, apart>>

(* save: the temporary file is written... *)
WriteTemp(p) ==
    /\ hand[p].at = "write"
    /\ temp' = hand[p].rows
    /\ hand' = [hand EXCEPT ![p].at = "replace"]
    /\ UNCHANGED <<store, lock, told, calls, apart>>

(* ...and renamed over the store; whoever comes second finds none, and     *)
(* its save raises.  record() returns and gives the lock back.             *)
Replace(p) ==
    /\ hand[p].at = "replace"
    /\ hand' = [hand EXCEPT ![p] = Free]
    /\ lock' = IF lock = p THEN NoRow ELSE lock
    /\ \/ /\ temp # NoFile
          /\ store' = temp /\ temp' = NoFile
          /\ told' = IF p \in Recorders THEN told \cup {hand[p].goal} ELSE told
       \/ /\ temp = NoFile
          /\ UNCHANGED <<store, temp, told>>
    /\ UNCHANGED <<calls, apart>>

Learn(p) == \E g \in Goals : \/ \E s \in Sessions : RecordLesson(p, g, Lesson(s))
                             \/ \E o \in Claimed : RecordLesson(p, g, Claim(o))

StoreNext == \/ \E p \in Recorders : Learn(p)
             \/ \E p \in Cleaners : Clean(p)
             \/ \E p \in Recorders \cup Cleaners : WriteTemp(p) \/ Replace(p)

-----------------------------------------------------------------------------
StoreFiles == [Goals -> Rows \cup {NoRow}]

StoreTypeOK ==
    /\ store \in StoreFiles /\ temp \in StoreFiles \cup {NoFile}
    /\ \A p \in DOMAIN hand : /\ hand[p].at \in {"idle", "write", "replace"}
                              /\ hand[p].rows \in StoreFiles
    /\ lock \in Recorders \cup {NoRow} /\ told \subseteq Goals
    /\ calls \in Nat /\ apart \in BOOLEAN

(* A lesson whose record() has returned stays in the store until curate()  *)
(* takes it for noise, however many threads record, as long as curate()    *)
(* keeps apart from them (ExperienceStore.record, session_learning.curate). *)
LessonsKept == apart => \A g \in told \ Noise : store[g] # NoRow
=============================================================================
