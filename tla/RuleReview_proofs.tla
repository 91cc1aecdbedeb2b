-------------------------- MODULE RuleReview_proofs --------------------------
(***************************************************************************)
(* For any number of detectors and any candidate shapes, and however they  *)
(* overlap with a review session and its crashes: a shape is queued once   *)
(* and rejected once.  Where they do not overlap an id names one candidate, *)
(* and none leaves the queue undecided.                                    *)
(***************************************************************************)
EXTENDS RuleReview, TLAPS, WellFoundedInduction

(* Whatever a process has read and may write back lists a shape once. *)
CopiesDistinct == /\ \A d \in Detectors : /\ Distinct(scan[d].found)
                                          /\ Distinct(scan[d].file)
                  /\ Distinct(session.candidates)
                  /\ Distinct(session.pending)

(* While a session asks, what it has refused was not rejected before, and  *)
(* what it still asks about has been neither rejected nor refused.         *)
AsksWhatIsOpen ==
    session.at \in {"asking", "installing"} =>
        /\ \A s \in Shapes : /\ session.refused[s] <= 1
                             /\ session.refused[s] > 0 => rejected[s] = 0
        /\ \A c \in session.pending : /\ rejected[c.shape] = 0
                                      /\ session.refused[c.shape] = 0

IInv == TypeOK /\ QueuedOnce /\ CopiesDistinct /\ RejectedOnce /\ AsksWhatIsOpen

-----------------------------------------------------------------------------
(* The initial state, with three empty files, satisfies the invariant. *)
LEMMA InitIInv == Init => IInv
  BY DEF Init, IInv, TypeOK, QueuedOnce, CopiesDistinct, RejectedOnce,
         AsksWhatIsOpen, Distinct, NoScan, NoSession, None, Entry

(* A part of a list without twins has none either. *)
LEMMA DistinctPart ==
  ASSUME NEW S, NEW T \in SUBSET S, Distinct(S) PROVE Distinct(T)
  BY DEF Distinct

(* The detectors (detect.py) keep the invariant: they number each shape    *)
(* once and add only shapes they did not read in the queue.                *)
LEMMA DetectKeeps ==
  ASSUME IInv, NEW d \in Detectors, Detect(d) PROVE IInv'
<1> USE DEF IInv, TypeOK
<1>1. CASE Scan(d)
  <2>1. PICK ids \in [evidence -> NextIds(queue)] :
           /\ \A s, r \in evidence : s # r => ids[s] # ids[r]
           /\ scan' = [scan EXCEPT
                 ![d] = [at |-> "scanned", file |-> {},
                         found |-> {[id |-> ids[s], shape |-> s] : s \in evidence}]]
    BY <1>1 DEF Scan
  <2> DEFINE F == {[id |-> ids[s], shape |-> s] : s \in evidence}
  <2>2. \A s \in evidence : ids[s] \in Nat \ {0}
    <3>1. NextIds(queue) \subseteq 1..MaxId
      BY <1>1 DEF Scan
    <3> QED BY <2>1, <3>1, ReviewAssumption
  <2>3. F \subseteq Entry
    BY <2>2 DEF Entry
  <2>4. Distinct(F)
    BY DEF Distinct
  <2>5. UNCHANGED <<evidence, queue, rejected, pack, session, alone>>
    BY <1>1 DEF Scan
  <2>6. scan' = [scan EXCEPT ![d] = [at |-> "scanned", file |-> {}, found |-> F]]
    BY <2>1
  <2> HIDE DEF F
  <2>7. TypeOK'
    BY <2>3, <2>5, <2>6
  <2>8. CopiesDistinct'
    BY <2>4, <2>5, <2>6 DEF CopiesDistinct, Distinct
  <2> QED
    BY <2>5, <2>7, <2>8 DEF QueuedOnce, RejectedOnce, AsksWhatIsOpen
<1>2. CASE Compare(d)
  <2>1. UNCHANGED <<evidence, queue, rejected, pack, session, alone>>
    BY <1>2 DEF Compare
  <2>2. Fresh(scan[d].found) \subseteq Entry
    BY DEF Fresh
  <2>3. Distinct(queue \cup Fresh(scan[d].found))
    BY DEF CopiesDistinct, QueuedOnce, Distinct, Fresh, ShapesIn
  <2>4. TypeOK'
    BY <1>2, <2>1, <2>2 DEF Compare, NoScan
  <2>5. CopiesDistinct'
    BY <1>2, <2>1, <2>3 DEF Compare, NoScan, CopiesDistinct, Distinct
  <2> QED
    BY <2>1, <2>4, <2>5 DEF QueuedOnce, RejectedOnce, AsksWhatIsOpen
<1>3. CASE SaveProposed(d)
  <2>1. UNCHANGED <<evidence, rejected, pack, session, alone>>
    BY <1>3 DEF SaveProposed
  <2>2. TypeOK'
    BY <1>3, <2>1 DEF SaveProposed, NoScan
  <2>3. CopiesDistinct' /\ QueuedOnce'
    BY <1>3, <2>1 DEF SaveProposed, NoScan, CopiesDistinct, QueuedOnce, Distinct
  <2> QED
    BY <2>1, <2>2, <2>3 DEF RejectedOnce, AsksWhatIsOpen
<1> QED
  BY <1>1, <1>2, <1>3 DEF Detect

(* Opening a session keeps the invariant: it asks only about shapes that   *)
(* the rejection memory does not list (filter_unrejected).                 *)
LEMMA OpenKeeps ==
  ASSUME IInv, NEW part \in SUBSET Pending, Open(part) PROVE IInv'
<1> USE DEF IInv, TypeOK
<1>1. UNCHANGED <<evidence, queue, rejected, pack, scan, alone>>
  BY DEF Open
<1>2. part \subseteq queue
  BY DEF Pending
<1>3. session' = [NoSession EXCEPT !.at = "asking", !.candidates = queue,
                                   !.pending = part]
  BY DEF Open
<1>4. TypeOK'
  BY <1>1, <1>2, <1>3 DEF NoSession, None
<1>5. CopiesDistinct' /\ QueuedOnce'
  BY <1>1, <1>2, <1>3, DistinctPart DEF NoSession, CopiesDistinct, QueuedOnce
<1>6. AsksWhatIsOpen'
  <2>1. session'.refused = None /\ session'.pending = part
    BY <1>3 DEF NoSession
  <2>2. \A s \in Shapes : session'.refused[s] = 0
    BY <2>1 DEF None
  <2>3. \A c \in part : c.shape \in Shapes /\ rejected[c.shape] = 0
    BY DEF Pending, Entry
  <2> QED
    BY <1>1, <2>1, <2>2, <2>3 DEF AsksWhatIsOpen
<1> QED
  BY <1>1, <1>4, <1>5, <1>6 DEF RejectedOnce

(* An answer keeps the invariant: a candidate that is refused is no longer *)
(* asked about, and no other candidate has its shape.                      *)
LEMMA AnswerKeeps ==
  ASSUME IInv, NEW c \in session.pending, Answer(c) PROVE IInv'
<1> USE DEF IInv, TypeOK
<1>0. c \in Entry /\ c.shape \in Shapes /\ c.id \in Nat
  BY DEF Entry
<1>1. CASE BeginInstall(c)
  <2>1. UNCHANGED <<evidence, queue, rejected, scan, alone>> /\ pack' = "torn"
    BY <1>1 DEF BeginInstall
  <2>2. session' = [session EXCEPT !.at = "installing", !.asked = {c}]
    BY <1>1 DEF BeginInstall
  <2>3. TypeOK'
    BY <2>1, <2>2
  <2> QED
    BY <1>1, <2>1, <2>2, <2>3
       DEF BeginInstall, Asks, QueuedOnce, CopiesDistinct, RejectedOnce, AsksWhatIsOpen
<1>2. CASE EndInstall(c)
  <2>1. UNCHANGED <<evidence, queue, rejected, scan, alone>> /\ pack' = "loads"
    BY <1>2 DEF EndInstall
  <2>2. session' = [session EXCEPT !.at = "asking", !.asked = {},
                        !.decided = @ \cup {c.id}, !.pending = @ \ {c},
                        !.installed = @ \cup {c.shape}]
    BY <1>2 DEF EndInstall, Decided
  <2>3. TypeOK'
    BY <1>0, <2>1, <2>2
  <2>4. CopiesDistinct'
    BY <2>1, <2>2 DEF CopiesDistinct, Distinct
  <2>5. AsksWhatIsOpen'
    <3>1. session.at = "installing"
      BY <1>2 DEF EndInstall
    <3>2. session'.refused = session.refused
      BY <2>2
    <3>3. session'.pending = session.pending \ {c}
      BY <2>2
    <3> QED BY <2>1, <3>1, <3>2, <3>3 DEF AsksWhatIsOpen
  <2> QED
    BY <2>1, <2>3, <2>4, <2>5 DEF QueuedOnce, RejectedOnce
<1>3. CASE Skip(c)
  <2>1. UNCHANGED <<evidence, queue, rejected, pack, scan, alone>>
    BY <1>3 DEF Skip
  <2>2. session' = [session EXCEPT !.pending = @ \ {c}] /\ session.at = "asking"
    BY <1>3 DEF Skip, Asks
  <2>3. TypeOK'
    BY <2>1, <2>2
  <2>4. CopiesDistinct'
    BY <2>1, <2>2 DEF CopiesDistinct, Distinct
  <2> QED
    BY <2>1, <2>2, <2>3, <2>4 DEF QueuedOnce, RejectedOnce, AsksWhatIsOpen
<1>4. CASE Reject(c)
  <2>1. UNCHANGED <<evidence, queue, rejected, pack, scan, alone>>
    BY <1>4 DEF Reject
  <2> DEFINE more == [session.refused EXCEPT ![c.shape] = @ + 1]
  <2>2. /\ session' = [session EXCEPT !.decided = @ \cup {c.id}, !.pending = @ \ {c},
                           !.refused = more]
        /\ session.at = "asking"
    BY <1>4 DEF Reject, Asks, Decided
  <2>m. more \in [Shapes -> Nat]
    BY <1>0
  <2>6. \A s \in Shapes : more[s] = IF s = c.shape THEN session.refused[s] + 1
                                    ELSE session.refused[s]
    BY <1>0
  <2> HIDE DEF more
  <2>3. TypeOK'
    BY <1>0, <2>1, <2>2, <2>m
  <2>4. CopiesDistinct'
    BY <2>1, <2>2 DEF CopiesDistinct, Distinct
  <2>5. \A e \in session'.pending : e.shape # c.shape
    BY <2>2 DEF CopiesDistinct, Distinct
  <2>7. AsksWhatIsOpen'
    <3>0. session'.refused = more
      BY <2>2
    <3>1. \A s \in Shapes : /\ session'.refused[s] <= 1
                            /\ session'.refused[s] > 0 => rejected[s] = 0
      BY <1>0, <2>2, <2>6, <3>0 DEF AsksWhatIsOpen
    <3>2. \A e \in session'.pending : /\ rejected[e.shape] = 0
                                      /\ session'.refused[e.shape] = 0
      <4> SUFFICES ASSUME NEW e \in session'.pending
                   PROVE  rejected[e.shape] = 0 /\ session'.refused[e.shape] = 0
        OBVIOUS
      <4>1. e \in session.pending /\ e.shape \in Shapes
        BY <2>2 DEF Entry
      <4> QED BY <2>2, <2>5, <2>6, <3>0, <4>1 DEF AsksWhatIsOpen
    <3> QED BY <2>1, <3>1, <3>2 DEF AsksWhatIsOpen
  <2> QED
    BY <2>1, <2>3, <2>4, <2>7 DEF QueuedOnce, RejectedOnce
<1> QED
  BY <1>1, <1>2, <1>3, <1>4 DEF Answer

(* The end of a session keeps the invariant: at most one rejection of a    *)
(* shape is added, to a memory that did not have it.                       *)
LEMMA EndKeeps ==
  ASSUME IInv, SaveRejected \/ ClearDecided \/ Crash PROVE IInv'
<1> USE DEF IInv, TypeOK
<1>1. CASE SaveRejected
  <2>1. UNCHANGED <<evidence, queue, pack, scan, alone>>
    BY <1>1 DEF SaveRejected
  <2>2. /\ session.at = "asking"
        /\ rejected' = [s \in Shapes |-> rejected[s] + session.refused[s]]
        /\ session' = [session EXCEPT !.at = "clearing", !.pending = {}]
        /\ session.asked = {}
    BY <1>1 DEF SaveRejected
  <2>3. TypeOK'
    <3>1. rejected' \in [Shapes -> Nat]
      BY <2>2
    <3>2. /\ session'.asked = {} /\ session'.at = "clearing" /\ session'.pending = {}
          /\ session' \in [at : {"idle", "asking", "installing", "clearing"},
                            candidates : SUBSET Entry, pending : SUBSET Entry,
                            asked : SUBSET Entry, decided : SUBSET Nat,
                            installed : SUBSET Shapes, refused : [Shapes -> Nat]]
      BY <2>2
    <3> QED BY <2>1, <3>1, <3>2
  <2>4. RejectedOnce'
    <3> SUFFICES ASSUME NEW s \in Shapes PROVE rejected'[s] <= 1
      BY DEF RejectedOnce
    <3>1. rejected'[s] = rejected[s] + session.refused[s]
      BY <2>2
    <3>2. rejected[s] \in Nat /\ session.refused[s] \in Nat
      OBVIOUS
    <3>3. rejected[s] <= 1 /\ session.refused[s] <= 1
          /\ (session.refused[s] > 0 => rejected[s] = 0)
      BY <2>2 DEF RejectedOnce, AsksWhatIsOpen
    <3> QED BY <3>1, <3>2, <3>3
  <2> QED
    BY <2>1, <2>2, <2>3, <2>4 DEF QueuedOnce, CopiesDistinct, AsksWhatIsOpen, Distinct
<1>2. CASE ClearDecided
  <2>1. UNCHANGED <<evidence, rejected, pack, scan, alone>> /\ session' = NoSession
    BY <1>2 DEF ClearDecided
  <2>2. queue' \subseteq queue \/ queue' \subseteq session.candidates
    BY <1>2 DEF ClearDecided
  <2>3. TypeOK'
    BY <2>1, <2>2 DEF NoSession, None
  <2>4. QueuedOnce' /\ CopiesDistinct'
    BY <2>1, <2>2, DistinctPart DEF QueuedOnce, CopiesDistinct, NoSession, Distinct
  <2> QED
    BY <2>1, <2>3, <2>4 DEF RejectedOnce, AsksWhatIsOpen, NoSession
<1>3. CASE Crash
  <2>1. UNCHANGED <<evidence, queue, rejected, pack, scan, alone>> /\ session' = NoSession
    BY <1>3 DEF Crash
  <2> QED
    BY <2>1 DEF NoSession, None, QueuedOnce, CopiesDistinct, RejectedOnce,
                AsksWhatIsOpen, Distinct
<1> QED
  BY <1>1, <1>2, <1>3

(* IInv is inductive. *)
LEMMA StepKeeps == IInv /\ [Next]_vars => IInv'
<1> SUFFICES ASSUME IInv, [Next]_vars PROVE IInv'
  OBVIOUS
<1>1. ASSUME NEW e \in SUBSET Shapes, CasesChange(e) PROVE IInv'
  BY <1>1 DEF CasesChange, IInv, TypeOK, QueuedOnce, CopiesDistinct, RejectedOnce,
              AsksWhatIsOpen
<1>2. CASE UNCHANGED vars
  BY <1>2 DEF vars, IInv, TypeOK, QueuedOnce, CopiesDistinct, RejectedOnce,
              AsksWhatIsOpen
<1> QED
  BY <1>1, <1>2, DetectKeeps, OpenKeeps, AnswerKeeps, EndKeeps DEF Next

(* IInv holds in every reachable state of the review queue. *)
LEMMA Invariant == Spec => []IInv
  BY InitIInv, StepKeeps, PTL DEF Spec

-----------------------------------------------------------------------------
(* Every variable keeps its type, and an install is in progress exactly    *)
(* while a candidate is asked about and the pack is open for writing.      *)
THEOREM TypeCorrect == Spec => []TypeOK
<1>1. IInv => TypeOK
  BY DEF IInv
<1> QED
  BY <1>1, Invariant, PTL

(* Each shape is queued once, however any number of qa detect processes    *)
(* overlap with each other and with a session (detect.run_detection).      *)
THEOREM QueuesOnce == Spec => []QueuedOnce
<1>1. IInv => QueuedOnce
  BY DEF IInv
<1> QED
  BY <1>1, Invariant, PTL

(* Each shape is rejected at most once in the memory, for any crashes and  *)
(* overlaps (adjudicate.run_session): the parents are not asked again.     *)
THEOREM RejectsOnce == Spec => []RejectedOnce
<1>1. IInv => RejectedOnce
  BY DEF IInv
<1> QED
  BY <1>1, Invariant, PTL

(* What the parents are asked about: both of the above, as the run has it. *)
THEOREM ShapesOnce == Spec => []ShapesListedOnce
<1>1. IInv => ShapesListedOnce
  BY DEF IInv, ShapesListedOnce
<1> QED
  BY <1>1, Invariant, PTL

-----------------------------------------------------------------------------
(* Without overlap: who works works alone on what is in the queue.         *)
Bounded(entries) == \A e \in entries : e.id <= MaxId
UniqueIds(entries) == \A c, e \in entries : c.id = e.id => c = e

IdsBounded == /\ Bounded(queue) /\ Bounded(session.candidates)
              /\ \A d \in Detectors : Bounded(scan[d].found) /\ Bounded(scan[d].file)

OneWorker == /\ \A d, e \in Detectors : scan[d].at # "idle" /\ scan[e].at # "idle" => d = e
             /\ session.at # "idle" => \A d \in Detectors : scan[d].at = "idle"

(* What was scanned comes behind the queue; what will be written holds it. *)
ScansAreFresh ==
    \A d \in Detectors :
        /\ scan[d].at = "scanned" => /\ UniqueIds(scan[d].found)
                                     /\ \A c \in scan[d].found, e \in queue : e.id < c.id
        /\ scan[d].at = "writing" => UniqueIds(scan[d].file) /\ queue \subseteq scan[d].file

(* What a session has decided is installed, or refused and then rejected.  *)
SessionIsFresh ==
    session.at # "idle" =>
        /\ session.candidates = queue /\ session.pending \subseteq queue
        /\ \A c \in queue : c.id \in session.decided =>
              \/ c.shape \in session.installed
              \/ IF session.at = "clearing" THEN rejected[c.shape] > 0
                                            ELSE session.refused[c.shape] > 0

Alone == alone => OneWorker /\ UniqueIds(queue) /\ ScansAreFresh /\ SessionIsFresh

AInv == IInv /\ IdsBounded /\ Alone

(* A bounded set of numbers that is not empty has a largest one.           *)
LEMMA Largest ==
  ASSUME NEW S \in SUBSET Nat, S # {}, NEW B \in Nat, \A n \in S : n <= B
  PROVE  \E m \in S : \A n \in S : n <= m
<1> DEFINE R == OpToRel(<, Nat)
<1> DEFINE T == {u \in Nat : \A n \in S : n <= u}
<1>1. \A x, y \in Nat : y < x => <<y, x>> \in R
  BY DEF OpToRel
<1>2. IsWellFoundedOn(R, Nat)
  BY NatLessThanWellFounded
<1>3. T \subseteq Nat /\ T # {}
  <2>1. B \in T
    OBVIOUS
  <2> QED BY <2>1
<1>4. \A u \in Nat : u \in T <=> \A n \in S : n <= u
  OBVIOUS
<1> HIDE DEF R, T
<1>5. PICK x \in T : \A y \in T : ~(<<y, x>> \in R)
  BY <1>2, <1>3, WFMin
<1>6. x \in Nat /\ \A y \in T : ~(y < x)
  BY <1>1, <1>3, <1>5
<1>7. x \in S
  <2> SUFFICES ASSUME x \notin S PROVE FALSE
    OBVIOUS
  <2>1. \A n \in S : n < x
    BY <1>4, <1>5, <1>6
  <2>2. x # 0
    <3>1. PICK n \in S : n \in Nat
      OBVIOUS
    <3>2. n < x
      BY <2>1
    <3> QED BY <1>6, <3>1, <3>2
  <2>3. x - 1 \in Nat
    BY <1>6, <2>2
  <2>4. \A n \in S : n <= x - 1
    BY <1>6, <2>1
  <2>5. x - 1 \in T
    BY <1>4, <2>3, <2>4
  <2> QED BY <1>6, <2>5
<1>8. \A n \in S : n <= x
  BY <1>4, <1>5, <1>6
<1> QED BY <1>7, <1>8

(* Ids are numbered behind the largest one (detect_candidates).            *)
LEMMA NextIdsAbove ==
  ASSUME NEW entries \in SUBSET Entry, Bounded(entries)
  PROVE  \A n \in NextIds(entries), e \in entries : e.id < n
<1> DEFINE S == {0} \cup {e.id : e \in entries}
<1>1. S \in SUBSET Nat /\ S # {} /\ \A n \in S : n <= MaxId
  BY ReviewAssumption DEF Entry, Bounded
<1>2. \E m \in S : \A n \in S : n <= m
  <2> HIDE DEF S
  <2> QED BY <1>1, Largest, ReviewAssumption
<1>3. \E m \in S : \A e \in entries : e.id <= m
  BY <1>2
<1> DEFINE largest == CHOOSE m \in S : \A e \in entries : e.id <= m
<1>4. largest \in Nat /\ \A e \in entries : e.id <= largest
  <2> HIDE DEF S
  <2> QED BY <1>1, <1>3
<1>5. NextIds(entries) = {largest + n : n \in 1..Cardinality(evidence)}
  BY DEF NextIds
<1>6. \A e \in entries : e.id \in Nat
  BY DEF Entry
<1> HIDE DEF largest
<1> QED BY <1>4, <1>5, <1>6

(* The three empty files, and nobody at work.                              *)
LEMMA InitAInv == Init => AInv
  BY InitIInv DEF Init, AInv, IdsBounded, Bounded, Alone, OneWorker, UniqueIds,
                  ScansAreFresh, SessionIsFresh, NoScan, NoSession

(* The ids of whatever is read or written stay below the model's bound.    *)
LEMMA BoundKeeps == AInv /\ [Next]_vars => IdsBounded'
<1> SUFFICES ASSUME AInv, [Next]_vars PROVE IdsBounded'
  OBVIOUS
<1> USE DEF AInv, IInv, TypeOK, IdsBounded, Bounded
<1>1. ASSUME NEW d \in Detectors, Scan(d) PROVE IdsBounded'
  <2>1. PICK ids \in [evidence -> NextIds(queue)] :
           scan' = [scan EXCEPT
                 ![d] = [at |-> "scanned", file |-> {},
                         found |-> {[id |-> ids[s], shape |-> s] : s \in evidence}]]
    BY <1>1 DEF Scan
  <2> DEFINE F == {[id |-> ids[s], shape |-> s] : s \in evidence}
  <2>2. \A e \in F : e.id <= MaxId
    <3>1. NextIds(queue) \subseteq 1..MaxId
      BY <1>1 DEF Scan
    <3> QED BY <2>1, <3>1, ReviewAssumption
  <2>3. scan' = [scan EXCEPT ![d] = [at |-> "scanned", file |-> {}, found |-> F]]
    BY <2>1
  <2>4. UNCHANGED <<queue, session>>
    BY <1>1 DEF Scan
  <2> HIDE DEF F
  <2> QED BY <2>2, <2>3, <2>4
<1>2. ASSUME NEW d \in Detectors, Compare(d) PROVE IdsBounded'
  BY <1>2 DEF Compare, Fresh, NoScan
<1>3. ASSUME NEW d \in Detectors, SaveProposed(d) PROVE IdsBounded'
  BY <1>3 DEF SaveProposed, NoScan
<1>4. ASSUME NEW part \in SUBSET Pending, Open(part) PROVE IdsBounded'
  BY <1>4 DEF Open, NoSession
<1>5. ASSUME NEW c \in session.pending, Answer(c) PROVE IdsBounded'
  <2>1. UNCHANGED <<queue, scan>> /\ session'.candidates = session.candidates
    BY <1>5 DEF Answer, BeginInstall, EndInstall, Skip, Reject, Decided
  <2> QED BY <2>1
<1>6. CASE SaveRejected
  BY <1>6 DEF SaveRejected
<1>7. CASE ClearDecided
  BY <1>7 DEF ClearDecided, NoSession
<1>8. CASE Crash
  BY <1>8 DEF Crash, NoSession
<1>9. CASE UNCHANGED vars \/ \E e \in SUBSET Shapes : CasesChange(e)
  BY <1>9 DEF vars, CasesChange
<1> QED
  BY <1>1, <1>2, <1>3, <1>4, <1>5, <1>6, <1>7, <1>8, <1>9 DEF Next, Detect

(* A detector that works alone numbers behind the queue it adds to.        *)
LEMMA DetectAlone ==
  ASSUME AInv, alone, NEW d \in Detectors, Detect(d), OneWorker PROVE Alone'
<1> USE DEF AInv, IInv, TypeOK, Alone
<1>0. UNCHANGED <<session, alone>>
  BY DEF Detect, Scan, Compare, SaveProposed
<1>1. CASE Scan(d)
  <2>1. PICK ids \in [evidence -> NextIds(queue)] :
           /\ \A s, r \in evidence : s # r => ids[s] # ids[r]
           /\ scan' = [scan EXCEPT
                 ![d] = [at |-> "scanned", file |-> {},
                         found |-> {[id |-> ids[s], shape |-> s] : s \in evidence}]]
    BY <1>1 DEF Scan
  <2> DEFINE F == {[id |-> ids[s], shape |-> s] : s \in evidence}
  <2>2. UniqueIds(F)
    BY <2>1 DEF UniqueIds
  <2>3. \A c \in F, e \in queue : e.id < c.id
    <3>1. \A n \in NextIds(queue), e \in queue : e.id < n
      BY NextIdsAbove DEF IdsBounded
    <3>2. \A c \in F : c.id \in NextIds(queue)
      BY <2>1
    <3> QED BY <3>1, <3>2
  <2>4. scan' = [scan EXCEPT ![d] = [at |-> "scanned", file |-> {}, found |-> F]]
    BY <2>1
  <2>5. queue' = queue /\ Idle
    BY <1>1 DEF Scan, MayStart
  <2> HIDE DEF F
  <2>6. OneWorker' /\ SessionIsFresh'
    BY <1>0, <2>4, <2>5 DEF OneWorker, Idle, SessionIsFresh
  <2>7. ScansAreFresh' /\ UniqueIds(queue')
    BY <2>2, <2>3, <2>4, <2>5 DEF ScansAreFresh, Idle
  <2> QED BY <2>6, <2>7
<1>2. CASE Compare(d)
  <2>1. /\ scan[d].at = "scanned" /\ UNCHANGED queue
        /\ scan' = [scan EXCEPT
             ![d] = IF Fresh(scan[d].found) = {} THEN NoScan
                    ELSE [at |-> "writing", found |-> {},
                          file |-> queue \cup Fresh(scan[d].found)]]
    BY <1>2 DEF Compare
  <2>2. \A e \in Detectors : e # d => scan[e].at = "idle"
    BY <2>1 DEF OneWorker
  <2>3. session.at = "idle"
    BY <2>1 DEF OneWorker
  <2>4. UniqueIds(queue \cup Fresh(scan[d].found))
    <3>1. UniqueIds(queue) /\ UniqueIds(scan[d].found)
      BY <2>1 DEF ScansAreFresh
    <3>2. \A c \in scan[d].found, e \in queue : e.id < c.id
      BY <2>1 DEF ScansAreFresh
    <3>3. \A c \in scan[d].found : c.id \in Nat
      BY DEF Entry
    <3>4. Fresh(scan[d].found) \subseteq scan[d].found
      BY DEF Fresh
    <3> QED BY <3>1, <3>2, <3>3, <3>4 DEF UniqueIds
  <2>5. OneWorker' /\ SessionIsFresh'
    BY <1>0, <2>1, <2>2, <2>3 DEF OneWorker, SessionIsFresh, NoScan
  <2>6. ScansAreFresh' /\ UniqueIds(queue')
    BY <2>1, <2>2, <2>4 DEF ScansAreFresh, NoScan
  <2> QED BY <2>5, <2>6
<1>3. CASE SaveProposed(d)
  <2>1. /\ scan[d].at = "writing" /\ queue' = scan[d].file
        /\ scan' = [scan EXCEPT ![d] = NoScan]
    BY <1>3 DEF SaveProposed
  <2>2. \A e \in Detectors : scan'[e].at = "idle"
    BY <2>1 DEF OneWorker, NoScan
  <2>3. session.at = "idle"
    BY <2>1 DEF OneWorker
  <2>4. UniqueIds(queue')
    BY <2>1 DEF ScansAreFresh
  <2> QED
    BY <1>0, <2>2, <2>3, <2>4 DEF OneWorker, ScansAreFresh, SessionIsFresh
<1> QED
  BY <1>1, <1>2, <1>3 DEF Detect

(* A session that works alone decides what the queue has, under its id.    *)
LEMMA AnswerAlone ==
  ASSUME AInv, alone, NEW c \in session.pending, Answer(c), OneWorker PROVE Alone'
<1> USE DEF AInv, IInv, TypeOK, Alone
<1>0. UNCHANGED <<queue, rejected, scan, alone>> /\ c \in Entry
  BY DEF Answer, BeginInstall, EndInstall, Skip, Reject
<1>1. session.at \in {"asking", "installing"} /\ session'.at \in {"asking", "installing"}
  BY DEF Answer, BeginInstall, EndInstall, Skip, Reject, Asks, Decided
<1>2. OneWorker' /\ ScansAreFresh' /\ UniqueIds(queue')
  BY <1>0, <1>1 DEF OneWorker, ScansAreFresh
<1>3. session'.candidates = session.candidates /\ session'.pending \subseteq session.pending
  <2>1. CASE BeginInstall(c) \/ Skip(c)
    BY <2>1 DEF BeginInstall, Skip
  <2>2. CASE EndInstall(c)
    BY <2>2 DEF EndInstall, Decided
  <2>3. CASE Reject(c)
    BY <2>3 DEF Reject, Decided
  <2> QED BY <2>1, <2>2, <2>3 DEF Answer
<1>4. c \in queue /\ \A e \in queue : e.id = c.id => e = c
  BY <1>1 DEF SessionIsFresh, UniqueIds
<1>5. ASSUME NEW e \in queue, e.id \in session'.decided
      PROVE  e.shape \in session'.installed \/ session'.refused[e.shape] > 0
  <2> e \in Entry /\ e.shape \in Shapes /\ c.shape \in Shapes
    BY <1>0 DEF Entry
  <2>1. e.id \in session.decided =>
           e.shape \in session.installed \/ session.refused[e.shape] > 0
    BY <1>1 DEF SessionIsFresh
  <2>2. CASE BeginInstall(c) \/ Skip(c)
    <3>1. /\ session'.decided = session.decided /\ session'.refused = session.refused
          /\ session'.installed = session.installed
      BY <2>2 DEF BeginInstall, Skip
    <3> QED BY <1>5, <2>1, <3>1
  <2>3. CASE EndInstall(c)
    <3>1. /\ session'.decided = session.decided \cup {c.id}
          /\ session'.installed = session.installed \cup {c.shape}
          /\ session'.refused = session.refused
      BY <2>3 DEF EndInstall, Decided
    <3> QED BY <1>4, <1>5, <2>1, <3>1
  <2>4. CASE Reject(c)
    <3>1. /\ session'.decided = session.decided \cup {c.id}
          /\ session'.installed = session.installed
          /\ session'.refused = [session.refused EXCEPT ![c.shape] = @ + 1]
      BY <2>4 DEF Reject, Decided
    <3>2. session'.refused[c.shape] = session.refused[c.shape] + 1
          /\ (e.shape # c.shape => session'.refused[e.shape] = session.refused[e.shape])
      BY <3>1
    <3>3. session.refused[c.shape] \in Nat
      OBVIOUS
    <3>4. e.id = c.id => session'.refused[e.shape] > 0
      BY <1>4, <3>2, <3>3
    <3>5. e.id # c.id => e.id \in session.decided
      BY <1>5, <3>1
    <3>6. session.refused[e.shape] > 0 => session'.refused[e.shape] > 0
      BY <3>2, <3>3
    <3> QED BY <2>1, <3>1, <3>4, <3>5, <3>6
  <2> QED BY <2>2, <2>3, <2>4 DEF Answer
<1>6. SessionIsFresh'
  BY <1>0, <1>1, <1>3, <1>5 DEF SessionIsFresh
<1> QED BY <1>2, <1>6

(* A session that works alone ends with the queue it began with, less what *)
(* it decided.                                                             *)
LEMMA EndAlone ==
  ASSUME AInv, alone, SaveRejected \/ ClearDecided \/ Crash, OneWorker PROVE Alone'
<1> USE DEF AInv, IInv, TypeOK, Alone
<1>1. CASE SaveRejected
  <2>1. /\ UNCHANGED <<queue, scan, alone>> /\ session.at = "asking"
        /\ rejected' = [s \in Shapes |-> rejected[s] + session.refused[s]]
        /\ session' = [session EXCEPT !.at = "clearing", !.pending = {}]
    BY <1>1 DEF SaveRejected
  <2>2. OneWorker' /\ ScansAreFresh' /\ UniqueIds(queue')
    BY <2>1 DEF OneWorker, ScansAreFresh
  <2>3. ASSUME NEW e \in queue, e.id \in session.decided, e.shape \notin session.installed
        PROVE  rejected'[e.shape] > 0
    <3>1. e.shape \in Shapes
      BY DEF Entry
    <3>2. session.refused[e.shape] > 0
      BY <2>1, <2>3 DEF SessionIsFresh
    <3>3. rejected[e.shape] \in Nat /\ session.refused[e.shape] \in Nat
      BY <3>1
    <3>4. rejected'[e.shape] = rejected[e.shape] + session.refused[e.shape]
      BY <2>1, <3>1
    <3> QED BY <3>2, <3>3, <3>4
  <2>4. /\ session'.at = "clearing" /\ session'.candidates = session.candidates
        /\ session'.pending = {} /\ session'.decided = session.decided
        /\ session'.installed = session.installed
    BY <2>1
  <2>5. SessionIsFresh'
    BY <2>1, <2>3, <2>4 DEF SessionIsFresh
  <2> QED BY <2>2, <2>5
<1>2. CASE ClearDecided \/ Crash
  <2>1. /\ UNCHANGED <<scan, alone>> /\ session' = NoSession /\ session.at # "idle"
        /\ queue' \subseteq queue \/ queue' \subseteq session.candidates
    BY <1>2 DEF ClearDecided, Crash
  <2>2. queue' \subseteq queue
    BY <2>1 DEF SessionIsFresh
  <2>3. \A d \in Detectors : scan[d].at = "idle"
    BY <2>1 DEF OneWorker
  <2>4. UniqueIds(queue')
    BY <2>2 DEF UniqueIds
  <2>5. session'.at = "idle"
    BY <2>1 DEF NoSession
  <2> QED
    BY <2>1, <2>3, <2>4, <2>5 DEF OneWorker, ScansAreFresh, SessionIsFresh
<1> QED BY <1>1, <1>2

(* AInv is inductive. *)
LEMMA StepAlone == AInv /\ [Next]_vars => AInv'
<1> SUFFICES ASSUME AInv, [Next]_vars PROVE AInv'
  OBVIOUS
<1>1. IInv' /\ IdsBounded'
  BY StepKeeps, BoundKeeps DEF AInv
<1>2. alone' = alone
  BY DEF Next, vars, CasesChange, Detect, Scan, Compare, SaveProposed, Open, Answer,
         BeginInstall, EndInstall, Skip, Reject, SaveRejected, ClearDecided, Crash
<1>3. ASSUME alone PROVE Alone'
  <2>0. OneWorker /\ UniqueIds(queue) /\ ScansAreFresh /\ SessionIsFresh
    BY <1>3 DEF AInv, Alone
  <2>1. ASSUME NEW part \in SUBSET Pending, Open(part) PROVE Alone'
    <3>1. /\ Idle /\ UNCHANGED <<queue, rejected, scan, alone>>
          /\ session' = [NoSession EXCEPT !.at = "asking", !.candidates = queue,
                                          !.pending = part]
      BY <1>3, <2>1 DEF Open, MayStart
    <3>2. /\ session'.at = "asking" /\ session'.candidates = queue
          /\ session'.pending \subseteq queue /\ session'.decided = {}
      BY <3>1 DEF NoSession, Pending
    <3> QED
      BY <2>0, <3>1, <3>2 DEF Alone, Idle, OneWorker, ScansAreFresh, SessionIsFresh
  <2>2. CASE UNCHANGED vars \/ \E e \in SUBSET Shapes : CasesChange(e)
    <3>1. UNCHANGED <<queue, rejected, scan, session, alone>>
      BY <2>2 DEF vars, CasesChange
    <3> QED
      BY <2>0, <3>1 DEF Alone, OneWorker, UniqueIds, ScansAreFresh, SessionIsFresh
  <2> QED
    BY <1>3, <2>0, <2>1, <2>2, DetectAlone, AnswerAlone, EndAlone DEF Next
<1> QED
  BY <1>1, <1>2, <1>3 DEF AInv, Alone

(* AInv holds in every reachable state of the review queue. *)
LEMMA AloneInvariant == Spec => []AInv
  BY InitAInv, StepAlone, PTL DEF Spec

(* Without overlap an id names one queued candidate: what a session takes  *)
(* off the queue by id is what it decided (adjudicate.run_session).        *)
THEOREM IdsNameOne == Spec => []IdsNameOneCandidate
<1>1. AInv => IdsNameOneCandidate
  BY DEF AInv, Alone, UniqueIds, IdsNameOneCandidate
<1> QED
  BY <1>1, AloneInvariant, PTL

(* Without overlap a candidate leaves the queue only when its rule is      *)
(* installed or its rejection is on disk, wherever a session is killed.    *)
THEOREM DecidedBeforeLeaving == Spec => LeavesOnlyDecided
<1>1. AInv /\ [Next]_vars =>
        [alone => \A s \in ShapesIn(queue) \ ShapesIn(queue') :
                      s \in session.installed \/ rejected[s] > 0]_queue
  <2> SUFFICES ASSUME AInv, [Next]_vars, queue' # queue, alone,
                      NEW s \in ShapesIn(queue) \ ShapesIn(queue')
               PROVE  s \in session.installed \/ rejected[s] > 0
    OBVIOUS
  <2> USE DEF AInv, Alone
  <2>1. (\E d \in Detectors : SaveProposed(d)) \/ ClearDecided
    BY DEF Next, vars, CasesChange, Detect, Scan, Compare, Open, Answer,
           BeginInstall, EndInstall, Skip, Reject, SaveRejected, Crash
  <2>2. PICK c \in queue : c.shape = s /\ c \notin queue'
    BY DEF ShapesIn
  <2>3. ASSUME NEW d \in Detectors, SaveProposed(d) PROVE FALSE
    BY <2>2, <2>3 DEF SaveProposed, ScansAreFresh
  <2>4. CASE ClearDecided
    <3>1. /\ session.at = "clearing"
          /\ queue' = {e \in session.candidates : e.id \notin session.decided}
      BY <2>4 DEF ClearDecided
    <3>2. session.candidates = queue
      BY <3>1 DEF SessionIsFresh
    <3>3. c.id \in session.decided
      BY <2>2, <3>1, <3>2
    <3> QED BY <2>2, <3>1, <3>3 DEF SessionIsFresh
  <2> QED BY <2>1, <2>3, <2>4
<1> QED
  BY <1>1, AloneInvariant, PTL DEF Spec, LeavesOnlyDecided
=============================================================================
