-------------------------- MODULE RecordLock_proofs --------------------------
(***************************************************************************)
(* Proofs about record_lock() and CaseStore.record(), for any number of    *)
(* writers, signatures and calls.  The lock is sound where an open lock    *)
(* file cannot be unlinked (Windows), whatever crashes or stalls, and      *)
(* where no lock ever ages (no crash, no stall); the model checker shows   *)
(* that it is not sound anywhere else.                                     *)
(***************************************************************************)
EXTENDS RecordLock, TLAPS, FiniteSetTheorems, WellFoundedInduction

(* No lock file can get 30 s old. *)
Calm == ~Crashes /\ ~Stalls

(* The writer with the lock file open is its creator, and has read the file *)
(* as it is; without crashes and stalls nobody ever reclaims a lock.         *)
HolderCreated == \A w \in Writers : pc[w] \in HasOpen => lock = w
LocalIsCurrent == \A w \in Writers : pc[w] = "save" => local[w] = rows
NeverReclaimed == Calm => /\ ~aged
                          /\ \A w \in Writers : /\ pc[w] \notin {"reclaim", "dead"}
                                                /\ pc[w] = "unlink" => lock = w

IInv == TypeOK /\ HolderCreated /\ LocalIsCurrent /\ NeverReclaimed

(* A row list that load() accepts is still accepted after one record(). *)
LEMMA RecordedLoads ==
  ASSUME NEW rws, Loads(rws), NEW s \in Signatures, NEW w \in Writers
  PROVE  Loads(Recorded(rws, s, w))
<1> DEFINE new == Recorded(rws, s, w)
<1>a. /\ rws \in Seq(Row)
      /\ \A i, j \in 1..Len(rws) : i < j => rws[i].id < rws[j].id
  BY DEF Loads
<1>b. \A r \in Row : r.id \in Nat \ {0}
  BY DEF Row
<1>0. /\ Len(rws) \in Nat
      /\ \A i \in 1..Len(rws) : rws[i] \in Row /\ rws[i].id \in Nat \ {0}
  BY <1>a, <1>b
<1>1. CASE Known(rws, s)
  <2>1. new = [i \in 1..Len(rws) |->
                 IF IsFirst(rws, i, s) THEN Bumped(rws[i], w) ELSE rws[i]]
    BY <1>1 DEF Recorded
  <2>2. \A r \in Row : Bumped(r, w) \in Row /\ Bumped(r, w).id = r.id
    BY DEF Bumped, Row
  <2>3. \A i \in 1..Len(rws) : new[i] \in Row /\ new[i].id = rws[i].id
    BY <1>0, <1>a, <2>1, <2>2
  <2>4. new \in Seq(Row) /\ Len(new) = Len(rws)
    BY <1>0, <1>a, <2>1, <2>3
  <2> QED
    BY <1>0, <1>a, <2>3, <2>4 DEF Loads
<1>2. CASE ~Known(rws, s)
  <2> DEFINE row == NewRow(rws, s, w)
  <2>1. new = Append(rws, row)
    BY <1>2 DEF Recorded
  <2>2. NextId(rws) \in Nat \ {0}
    BY <1>0, <1>a DEF NextId
  <2>3. row \in Row /\ row.id = NextId(rws)
    BY <2>2 DEF NewRow, Row
  <2>4. \A i \in 1..Len(rws) : rws[i].id < NextId(rws)
    BY <1>0, <1>a DEF NextId
  <2> HIDE DEF row
  <2>5. /\ new \in Seq(Row)
        /\ Len(new) = Len(rws) + 1
        /\ \A i \in 1..Len(rws) : new[i] = rws[i]
        /\ new[Len(rws) + 1] = row
    BY <1>0, <1>a, <2>1, <2>3
  <2>6. \A i, j \in 1..Len(new) : i < j => new[i].id < new[j].id
    BY <1>0, <1>a, <2>3, <2>4, <2>5
  <2> QED
    BY <2>5, <2>6 DEF Loads
<1> QED
  BY <1>1, <1>2

(* The strengthened invariant holds before the first record(). *)
LEMMA InitIInv == Init => IInv
<1> SUFFICES ASSUME Init PROVE IInv
  OBVIOUS
<1>1. Loads(<<>>) /\ <<>> \in Seq(Row)
  BY DEF Loads
<1>2. TypeOK
  BY <1>1 DEF Init, TypeOK, Steps
<1> QED
  BY <1>2 DEF Init, IInv, HolderCreated, LocalIsCurrent, NeverReclaimed, HasOpen

(* Every step keeps every variable in its type and the file loadable. *)
LEMMA TypeStep == TypeOK /\ [Next]_vars => TypeOK'
<1> SUFFICES ASSUME TypeOK, [Next]_vars PROVE TypeOK'
  OBVIOUS
<1> USE DEF TypeOK, Goto, Steps, Waits, HasOpen
<1>1. CASE Age
  BY <1>1 DEF Age
<1>2. ASSUME NEW w \in Writers, NEW s \in Signatures, Call(w, s)
      PROVE  TypeOK'
  BY <1>2, MaxCallsAssumption DEF Call
<1>3. ASSUME NEW w \in Writers, Wait(w)
      PROVE  TypeOK'
  <2>1. CASE Create(w)
    BY <2>1 DEF Create
  <2>2. CASE Refused(w)
    BY <2>2 DEF Refused
  <2>3. CASE SeesStale(w)
    BY <2>3 DEF SeesStale
  <2>4. CASE Sleep(w)
    BY <2>4 DEF Sleep
  <2>5. CASE GiveUp(w)
    BY <2>5 DEF GiveUp
  <2>6. CASE Reclaim(w)
    BY <2>6 DEF Reclaim, RemoveLock, Deletable
  <2> QED
    BY <1>3, <2>1, <2>2, <2>3, <2>4, <2>5, <2>6 DEF Wait
<1>4. ASSUME NEW w \in Writers, Hold(w)
      PROVE  TypeOK'
  <2>1. CASE Load(w)
    <3>1. rows \in Seq(Row)
      BY DEF Loads
    <3>2. local' \in [Writers -> Seq(Row)]
      BY <2>1, <3>1 DEF Load
    <3>3. \A v \in Writers : Loads(local'[v])
      BY <2>1 DEF Load
    <3> QED
      BY <2>1, <3>2, <3>3 DEF Load
  <2>2. CASE Save(w)
    <3>1. Loads(rows')
      BY <2>2, RecordedLoads DEF Save
    <3> QED
      BY <2>2, <3>1 DEF Save
  <2>3. CASE BodyFails(w)
    BY <2>3 DEF BodyFails
  <2>4. CASE Close(w)
    BY <2>4 DEF Close
  <2>5. CASE Release(w)
    BY <2>5 DEF Release, RemoveLock, Deletable
  <2> QED
    BY <1>4, <2>1, <2>2, <2>3, <2>4, <2>5 DEF Hold
<1>5. ASSUME NEW w \in Writers, PatienceEnds(w)
      PROVE  TypeOK'
  BY <1>5 DEF PatienceEnds
<1>6. ASSUME NEW w \in Writers, Crash(w)
      PROVE  TypeOK'
  BY <1>6 DEF Crash
<1>7. CASE UNCHANGED vars
  BY <1>7 DEF vars
<1> QED
  BY <1>1, <1>2, <1>3, <1>4, <1>5, <1>6, <1>7 DEF Next

(* Removing a lock file leaves the lock of a writer that is entitled to it. *)
LEMMA RemoveLockSafe ==
  ASSUME IInv, RemoveLock,
         Windows \/ Calm,
         NEW w \in Writers, pc[w] \in {"reclaim", "unlink"},
         NEW v \in Writers, v # w, pc[v] \in HasOpen
  PROVE  lock' = v
BY DEF IInv, HolderCreated, NeverReclaimed, RemoveLock, Deletable, HasOpen

(* The lock is held by its creator, its copy of the file is current, and in *)
(* calm weather no lock is reclaimed: every step keeps that.                *)
LEMMA LockStep ==
  ASSUME Windows \/ Calm, IInv, [Next]_vars
  PROVE  (HolderCreated /\ LocalIsCurrent /\ NeverReclaimed)'
<1> USE DEF IInv, TypeOK, HolderCreated, LocalIsCurrent, NeverReclaimed,
            Goto, Steps, Waits, HasOpen
<1> DEFINE Goal == (HolderCreated /\ LocalIsCurrent /\ NeverReclaimed)'
<1>0. NoOne \notin Writers
  BY NoOneAssumption
<1>1. CASE Age
  BY <1>0, <1>1 DEF Age, Calm
<1>2. ASSUME NEW w \in Writers, NEW s \in Signatures, Call(w, s)
      PROVE  Goal
  BY <1>2 DEF Call
<1>3. ASSUME NEW w \in Writers, Wait(w)
      PROVE  Goal
  <2>1. CASE Create(w)
    BY <1>0, <2>1 DEF Create
  <2>2. CASE Refused(w)
    BY <2>2 DEF Refused
  <2>3. CASE SeesStale(w)
    BY <2>3 DEF SeesStale
  <2>4. CASE Sleep(w)
    BY <2>4 DEF Sleep
  <2>5. CASE GiveUp(w)
    BY <2>5 DEF GiveUp
  <2>6. CASE Reclaim(w)
    <3>1. ~Calm
      BY <2>6 DEF Reclaim
    <3>2. \A v \in Writers : pc[v] \in HasOpen => lock' = v
      BY <2>6, RemoveLockSafe DEF Reclaim
    <3> QED
      BY <2>6, <3>1, <3>2 DEF Reclaim
  <2> QED
    BY <1>3, <2>1, <2>2, <2>3, <2>4, <2>5, <2>6 DEF Wait
<1>4. ASSUME NEW w \in Writers, Hold(w)
      PROVE  Goal
  <2>1. CASE Load(w)
    <3>1. local'[w] = rows' /\ \A v \in Writers \ {w} : pc'[v] = pc[v]
      BY <2>1 DEF Load
    <3>2. \A v \in Writers \ {w} : pc[v] # "save"
      BY <2>1 DEF Load
    <3> QED
      BY <2>1, <3>1, <3>2 DEF Load
  <2>2. CASE Save(w)
    BY <2>2 DEF Save
  <2>3. CASE BodyFails(w)
    BY <2>3 DEF BodyFails
  <2>4. CASE Close(w)
    BY <2>4 DEF Close
  <2>5. CASE Release(w)
    <3>1. \A v \in Writers : v # w /\ pc[v] \in HasOpen => lock' = v
      BY <2>5, RemoveLockSafe DEF Release
    <3>2. HolderCreated' /\ LocalIsCurrent'
      BY <2>5, <3>1 DEF Release
    <3>3. ASSUME Calm PROVE NeverReclaimed'
      <4>1. ~aged' /\ \A v \in Writers : pc'[v] \notin {"reclaim", "dead"}
        BY <2>5, <3>3 DEF Release, RemoveLock
      <4>2. \A v \in Writers : pc'[v] = "unlink" => v = w
        BY <2>5, <3>3 DEF Release
      <4> QED
        BY <2>5, <4>1, <4>2 DEF Release
    <3> QED
      BY <3>2, <3>3
  <2> QED
    BY <1>4, <2>1, <2>2, <2>3, <2>4, <2>5 DEF Hold
<1>5. ASSUME NEW w \in Writers, PatienceEnds(w)
      PROVE  Goal
  BY <1>5 DEF PatienceEnds
<1>6. ASSUME NEW w \in Writers, Crash(w)
      PROVE  Goal
  BY <1>6 DEF Crash, Calm
<1>7. CASE UNCHANGED vars
  BY <1>7 DEF vars
<1> QED
  BY <1>1, <1>2, <1>3, <1>4, <1>5, <1>6, <1>7 DEF Next

-----------------------------------------------------------------------------
(* Whatever crashes, stalls or is reclaimed, the case file stays one that *)
(* load() accepts and every variable keeps its type.                      *)
THEOREM TypeCorrect == Spec => []TypeOK
<1>1. Init => TypeOK
  BY InitIInv DEF IInv
<1> QED
  BY <1>1, TypeStep, PTL DEF Spec

(* The strengthened invariant: where open lock files cannot be unlinked, or *)
(* no lock ages, the lock stays with its creator.                           *)
LEMMA Invariance ==
  ASSUME Windows \/ Calm
  PROVE  Spec => []IInv
<1>1. IInv /\ [Next]_vars => IInv'
  BY TypeStep, LockStep DEF IInv
<1> QED
  BY InitIInv, <1>1, PTL DEF Spec

(* record_lock() is mutual exclusion where open lock files cannot be *)
(* unlinked, or where no holder crashes or stalls.                   *)
THEOREM LockExcludes ==
  ASSUME Windows \/ Calm
  PROVE  Spec => []MutualExclusion
<1>1. IInv => MutualExclusion
  BY DEF IInv, HolderCreated, MutualExclusion
<1> QED
  BY <1>1, Invariance, PTL

(* Under the same condition record() is atomic: the concurrent store *)
(* implements the store whose record() is a single step.             *)
THEOREM RecordsSerialize ==
  ASSUME Windows \/ Calm
  PROVE  Spec => Serialized
<1>1. Init => CaseLog!Init
  BY DEF Init, CaseLog!Init
<1>2. IInv /\ [Next]_vars => [CaseLog!Next]_rows
  <2> SUFFICES ASSUME IInv, [Next]_vars PROVE [CaseLog!Next]_rows
    OBVIOUS
  <2>1. ASSUME NEW w \in Writers, Save(w) PROVE CaseLog!Next
    <3>1. sig[w] \in Signatures /\ local[w] = rows
      BY <2>1 DEF IInv, TypeOK, LocalIsCurrent, Save, Goto
    <3>2. CaseLog!Recorded(rows, sig[w], w) = Recorded(rows, sig[w], w)
      BY DEF Recorded, Known, IsFirst, Bumped, NewRow, NextId,
             CaseLog!Recorded, CaseLog!Known, CaseLog!IsFirst, CaseLog!Bumped,
             CaseLog!NewRow, CaseLog!NextId
    <3>3. CaseLog!Record(w, sig[w])
      BY <2>1, <3>1, <3>2 DEF Save, CaseLog!Record
    <3> QED
      BY <3>1, <3>3 DEF CaseLog!Next
  <2>2. ASSUME NEW w \in Writers, Hold(w), ~Save(w) PROVE rows' = rows
    BY <2>2 DEF Hold, Load, BodyFails, Close, Release
  <2>3. ASSUME NEW w \in Writers, Wait(w) PROVE rows' = rows
    BY <2>3 DEF Wait, Create, Refused, SeesStale, Sleep, GiveUp, Reclaim
  <2> QED
    BY <2>1, <2>2, <2>3 DEF Next, Age, Call, PatienceEnds, Crash, vars
<1> QED
  BY <1>1, <1>2, Invariance, PTL DEF Spec, Serialized, CaseLog!Spec

-----------------------------------------------------------------------------
(* A signature that is known has a first row, and only one.                *)
LEMMA FirstRow ==
  ASSUME NEW rws, Loads(rws), NEW s, Known(rws, s)
  PROVE  \E i \in 1..Len(rws) : IsFirst(rws, i, s)
<1> DEFINE R == OpToRel(<, Nat)
           T == {i \in 1..Len(rws) : rws[i].signature = s}
<1>0. Len(rws) \in Nat
  BY DEF Loads
<1>1. \A x, y \in Nat : y < x => <<y, x>> \in R
  BY DEF OpToRel
<1>2. IsWellFoundedOn(R, Nat)
  BY NatLessThanWellFounded
<1>3. T \subseteq Nat /\ T # {}
  BY <1>0 DEF Known
<1> HIDE DEF R
<1>4. PICK x \in T : \A y \in T : ~(<<y, x>> \in R)
  <2> HIDE DEF T
  <2> QED BY <1>2, <1>3, WFMin
<1>5. \A y \in T : ~(y < x)
  BY <1>1, <1>3, <1>4
<1>6. \A j \in 1..(x - 1) : j \in 1..Len(rws) /\ j < x
  BY <1>0
<1> QED
  BY <1>5, <1>6 DEF IsFirst

LEMMA SeenIs ==
  ASSUME NEW rws, Loads(rws), NEW s, NEW i \in 1..Len(rws), IsFirst(rws, i, s)
  PROVE  TimesSeen(rws, s) = rws[i].times_seen
<1>1. Known(rws, s)
  BY DEF Known, IsFirst
<1>2. Len(rws) \in Nat
  BY DEF Loads
<1>3. \A j \in 1..Len(rws) : IsFirst(rws, j, s) => j = i
  BY <1>2 DEF IsFirst
<1> QED
  BY <1>1, <1>3 DEF TimesSeen

LEMMA SeenType ==
  ASSUME NEW rws, Loads(rws), NEW s
  PROVE  TimesSeen(rws, s) \in Nat
<1>1. CASE Known(rws, s)
  <2>1. PICK i \in 1..Len(rws) : IsFirst(rws, i, s)
    BY <1>1, FirstRow
  <2>2. rws[i] \in Row
    BY DEF Loads
  <2> QED BY <2>1, <2>2, SeenIs DEF Row
<1>2. CASE ~Known(rws, s)
  BY <1>2 DEF TimesSeen
<1> QED BY <1>1, <1>2

(* record() adds one sighting, to the signature it records (store.record). *)
LEMMA SeenOnce ==
  ASSUME NEW rws, Loads(rws), NEW s \in Signatures, NEW w \in Writers,
         NEW t \in Signatures
  PROVE  TimesSeen(Recorded(rws, s, w), t) =
             IF t = s THEN TimesSeen(rws, t) + 1 ELSE TimesSeen(rws, t)
<1> DEFINE new == Recorded(rws, s, w)
<1> SUFFICES TimesSeen(new, t) = IF t = s THEN TimesSeen(rws, t) + 1 ELSE TimesSeen(rws, t)
  OBVIOUS
<1>0. Loads(new)
  BY RecordedLoads
<1>a. rws \in Seq(Row) /\ Len(rws) \in Nat /\ \A i \in 1..Len(rws) : rws[i] \in Row
  BY DEF Loads
<1>1. CASE Known(rws, s)
  <2>1. new = [i \in 1..Len(rws) |->
                 IF IsFirst(rws, i, s) THEN Bumped(rws[i], w) ELSE rws[i]]
    BY <1>1 DEF Recorded
  <2>2. /\ Len(new) = Len(rws)
        /\ \A i \in 1..Len(rws) :
              /\ new[i].signature = rws[i].signature
              /\ new[i].times_seen = IF IsFirst(rws, i, s) THEN rws[i].times_seen + 1
                                                           ELSE rws[i].times_seen
    <3>1. Len(new) = Len(rws)
      BY <1>0, <1>a, <2>1 DEF Loads
    <3> QED BY <2>1, <3>1 DEF Bumped
  <2> HIDE DEF new
  <2>3. CASE Known(rws, t)
    <3>1. PICK i \in 1..Len(rws) : IsFirst(rws, i, t)
      BY <2>3, FirstRow DEF Loads
    <3>2. IsFirst(new, i, t)
      BY <1>a, <2>2, <3>1 DEF IsFirst
    <3>3. TimesSeen(rws, t) = rws[i].times_seen /\ TimesSeen(new, t) = new[i].times_seen
      BY <1>0, <2>2, <3>1, <3>2, SeenIs
    <3>4. IsFirst(rws, i, s) <=> t = s
      BY <3>1 DEF IsFirst
    <3> QED BY <2>2, <3>3, <3>4
  <2>4. CASE ~Known(rws, t)
    <3>1. ~Known(new, t) /\ t # s
      BY <1>1, <2>2, <2>4 DEF Known
    <3> QED BY <2>4, <3>1 DEF TimesSeen
  <2> QED BY <2>3, <2>4
<1>2. CASE ~Known(rws, s)
  <2> DEFINE n == Len(rws) + 1
  <2>1. new = Append(rws, NewRow(rws, s, w))
    BY <1>2 DEF Recorded
  <2>2. /\ Len(new) = n /\ \A i \in 1..Len(rws) : new[i] = rws[i]
        /\ new[n] = NewRow(rws, s, w)
    BY <1>0, <1>a, <2>1 DEF Loads
  <2>3. new[n].signature = s /\ new[n].times_seen = 1
    BY <2>2 DEF NewRow
  <2> HIDE DEF new
  <2>4. CASE t = s
    <3>1. IsFirst(new, n, t)
      BY <1>2, <1>a, <2>2, <2>3, <2>4 DEF IsFirst, Known
    <3>2. n \in 1..Len(new)
      BY <1>a, <2>2
    <3>3. TimesSeen(new, t) = 1
      BY <1>0, <2>3, <3>1, <3>2, SeenIs
    <3> QED BY <1>2, <2>4, <3>3 DEF TimesSeen
  <2>5. CASE t # s /\ Known(rws, t)
    <3>1. PICK i \in 1..Len(rws) : IsFirst(rws, i, t)
      BY <2>5, FirstRow
    <3>2. IsFirst(new, i, t) /\ i \in 1..Len(new)
      BY <1>a, <2>2, <3>1 DEF IsFirst
    <3>3. TimesSeen(rws, t) = rws[i].times_seen /\ TimesSeen(new, t) = new[i].times_seen
      BY <1>0, <3>1, <3>2, SeenIs
    <3> QED BY <2>2, <2>5, <3>3
  <2>6. CASE t # s /\ ~Known(rws, t)
    <3>1. ~Known(new, t)
      BY <1>a, <2>2, <2>3, <2>6 DEF Known
    <3> QED BY <2>6, <3>1 DEF TimesSeen
  <2> QED BY <2>4, <2>5, <2>6
<1> QED BY <1>1, <1>2

(* The writers whose row is in the file and whose record() has not         *)
(* returned: what was acknowledged and what they will acknowledge is seen. *)
Saved(s) == {w \in Writers : /\ pc[w] \in {"close", "unlink"}
                             /\ outcome[w] = "ok" /\ sig[w] = s}

SeenCovers == \A s \in Signatures :
    acked[s] + Cardinality(Saved(s)) <= TimesSeen(rows, s)

(* A step that neither saves nor releases acknowledges nothing.            *)
LEMMA CoversStays ==
  ASSUME IsFiniteSet(Writers), TypeOK, SeenCovers, UNCHANGED <<rows, acked>>,
         \A w \in Writers :
            /\ pc'[w] \in {"close", "unlink"} => pc[w] \in {"close", "unlink"} \/ outcome'[w] # "ok"
            /\ pc[w] \in {"close", "unlink"} => outcome'[w] = outcome[w] /\ sig'[w] = sig[w]
  PROVE  SeenCovers'
<1> SUFFICES ASSUME NEW s \in Signatures
             PROVE  acked'[s] + Cardinality(Saved(s)') <= TimesSeen(rows', s)
  BY DEF SeenCovers
<1>1. Saved(s)' \subseteq Saved(s)
  BY DEF Saved
<1>2. IsFiniteSet(Saved(s))
  BY FS_Subset DEF Saved
<1>3. /\ Cardinality(Saved(s)') <= Cardinality(Saved(s))
      /\ Cardinality(Saved(s)) \in Nat /\ Cardinality(Saved(s)') \in Nat
  BY <1>1, <1>2, FS_Subset, FS_CardinalityType
<1>4. acked[s] \in Nat /\ TimesSeen(rows, s) \in Nat
  BY SeenType DEF TypeOK
<1>5. acked[s] + Cardinality(Saved(s)) <= TimesSeen(rows, s)
  BY DEF SeenCovers
<1> QED BY <1>3, <1>4, <1>5

LEMMA CoversSave ==
  ASSUME IsFiniteSet(Writers), IInv, SeenCovers, NEW w \in Writers, Save(w)
  PROVE  SeenCovers'
<1> SUFFICES ASSUME NEW s \in Signatures
             PROVE  acked'[s] + Cardinality(Saved(s)') <= TimesSeen(rows', s)
  BY DEF SeenCovers
<1> USE DEF IInv, TypeOK
<1>1. /\ pc[w] = "save" /\ pc' = [pc EXCEPT ![w] = "close"]
      /\ rows' = Recorded(local[w], sig[w], w)
      /\ outcome' = [outcome EXCEPT ![w] = "ok"]
      /\ UNCHANGED <<sig, acked>>
  BY DEF Save, Goto
<1>2. local[w] = rows /\ sig[w] \in Signatures /\ Loads(rows)
  BY <1>1 DEF LocalIsCurrent
<1>3. TimesSeen(rows', s) = IF s = sig[w] THEN TimesSeen(rows, s) + 1
                                          ELSE TimesSeen(rows, s)
  BY <1>1, <1>2, SeenOnce
<1>4. w \notin Saved(s)
  BY <1>1 DEF Saved
<1>5. Saved(s)' = IF s = sig[w] THEN Saved(s) \cup {w} ELSE Saved(s)
  BY <1>1 DEF Saved
<1>6. IsFiniteSet(Saved(s))
  BY FS_Subset DEF Saved
<1>7. Cardinality(Saved(s)') = IF s = sig[w] THEN Cardinality(Saved(s)) + 1
                                             ELSE Cardinality(Saved(s))
  BY <1>4, <1>5, <1>6, FS_AddElement
<1>8. /\ Cardinality(Saved(s)) \in Nat /\ acked[s] \in Nat /\ TimesSeen(rows, s) \in Nat
      /\ acked[s] + Cardinality(Saved(s)) <= TimesSeen(rows, s)
  BY <1>6, FS_CardinalityType, SeenType DEF SeenCovers
<1> QED BY <1>1, <1>3, <1>7, <1>8

LEMMA CoversRelease ==
  ASSUME IsFiniteSet(Writers), TypeOK, SeenCovers, NEW w \in Writers, Release(w)
  PROVE  SeenCovers'
<1> SUFFICES ASSUME NEW s \in Signatures
             PROVE  acked'[s] + Cardinality(Saved(s)') <= TimesSeen(rows', s)
  BY DEF SeenCovers
<1> USE DEF TypeOK
<1>1. /\ pc[w] = "unlink" /\ pc' = [pc EXCEPT ![w] = "idle"]
      /\ acked' = IF outcome[w] = "ok" THEN [acked EXCEPT ![sig[w]] = @ + 1] ELSE acked
      /\ UNCHANGED <<rows, sig, outcome>>
  BY DEF Release, Goto
<1>2. Saved(s)' = Saved(s) \ {w}
  BY <1>1 DEF Saved
<1>3. w \in Saved(s) <=> outcome[w] = "ok" /\ sig[w] = s
  BY <1>1 DEF Saved
<1>4. IsFiniteSet(Saved(s))
  BY FS_Subset DEF Saved
<1>5. Cardinality(Saved(s)') = IF w \in Saved(s) THEN Cardinality(Saved(s)) - 1
                                                 ELSE Cardinality(Saved(s))
  BY <1>2, <1>4, FS_RemoveElement
<1>6. acked'[s] = IF w \in Saved(s) THEN acked[s] + 1 ELSE acked[s]
  BY <1>1, <1>3
<1>7. /\ Cardinality(Saved(s)) \in Nat /\ acked[s] \in Nat /\ TimesSeen(rows, s) \in Nat
      /\ acked[s] + Cardinality(Saved(s)) <= TimesSeen(rows, s)
  BY <1>4, FS_CardinalityType, SeenType DEF SeenCovers
<1> QED BY <1>1, <1>5, <1>6, <1>7

LEMMA CoversStep ==
  ASSUME IsFiniteSet(Writers), IInv, SeenCovers, [Next]_vars
  PROVE  SeenCovers'
<1> USE DEF IInv, TypeOK, Goto
<1>1. ASSUME NEW w \in Writers, Hold(w) PROVE SeenCovers'
  <2>1. CASE Load(w)
    BY <2>1, CoversStays DEF Load
  <2>2. CASE BodyFails(w)
    BY <2>2, CoversStays DEF BodyFails
  <2>3. CASE Close(w)
    BY <2>3, CoversStays DEF Close
  <2> QED BY <1>1, <2>1, <2>2, <2>3, CoversSave, CoversRelease DEF Hold
<1>2. ASSUME NEW w \in Writers, Wait(w) PROVE SeenCovers'
  <2>1. UNCHANGED <<rows, acked, sig>>
    BY <1>2 DEF Wait, Create, Refused, SeesStale, Sleep, GiveUp, Reclaim
  <2>2. /\ pc[w] \in Waits /\ pc'[w] \notin {"close", "unlink"}
        /\ \A v \in Writers : v # w => pc'[v] = pc[v] /\ outcome'[v] = outcome[v]
    BY <1>2 DEF Wait, Create, Refused, SeesStale, Sleep, GiveUp, Reclaim, Waits
  <2> QED BY <2>1, <2>2, CoversStays DEF Waits
<1>3. ASSUME NEW w \in Writers, NEW s \in Signatures, Call(w, s) PROVE SeenCovers'
  BY <1>3, CoversStays DEF Call
<1>4. ASSUME NEW w \in Writers, Crash(w) PROVE SeenCovers'
  BY <1>4, CoversStays DEF Crash
<1>5. CASE UNCHANGED vars \/ Age \/ \E w \in Writers : PatienceEnds(w)
  BY <1>5, CoversStays DEF vars, Age, PatienceEnds
<1> QED
  BY <1>1, <1>2, <1>3, <1>4, <1>5 DEF Next

(* Under the same condition no record() that returned its row is lost, for *)
(* any finite number of writers: a later caller, a crash or a reclaimed    *)
(* lock never takes an acknowledged sighting out of the file.              *)
THEOREM NoneIsLost ==
  ASSUME Windows \/ Calm, IsFiniteSet(Writers)
  PROVE  Spec => []NoRecordLost
<1>1. Init => SeenCovers
  <2> SUFFICES ASSUME Init, NEW s \in Signatures
               PROVE  acked[s] + Cardinality(Saved(s)) <= TimesSeen(rows, s)
    BY DEF SeenCovers
  <2>1. Saved(s) = {} /\ acked[s] = 0
    BY DEF Init, Saved
  <2>2. TimesSeen(rows, s) = 0
    BY DEF Init, TimesSeen, Known
  <2> QED BY <2>1, <2>2, FS_EmptySet
<1>2. IInv /\ SeenCovers /\ [Next]_vars => SeenCovers'
  BY CoversStep
<1>3. IInv /\ SeenCovers => NoRecordLost
  <2> SUFFICES ASSUME IInv, SeenCovers, NEW s \in Signatures
               PROVE  acked[s] <= TimesSeen(rows, s)
    BY DEF NoRecordLost
  <2>1. IsFiniteSet(Saved(s))
    BY FS_Subset DEF Saved
  <2>2. acked[s] \in Nat /\ Cardinality(Saved(s)) \in Nat /\ TimesSeen(rows, s) \in Nat
    BY <2>1, FS_CardinalityType, SeenType DEF IInv, TypeOK
  <2>3. acked[s] + Cardinality(Saved(s)) <= TimesSeen(rows, s)
    BY DEF SeenCovers
  <2> QED BY <2>2, <2>3
<1> QED
  BY <1>1, <1>2, <1>3, Invariance, PTL DEF Spec
=============================================================================
