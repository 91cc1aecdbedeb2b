---------------------------- MODULE TeacherLoop -----------------------------
(***************************************************************************)
(* Everything that writes cases.jsonl.  record() is one atomic step (what  *)
(* RecordLock shows of its lock).  The teachers' tools load the file,      *)
(* change it in memory and replace it, without the lock: qa school         *)
(* (skills/school.py) for as long as a person takes to answer, qa merge    *)
(* (skills/merge.py) and qa import (transport.py) at once.                 *)
(***************************************************************************)
EXTENDS CaseRows, SequencesExt, FiniteSetsExt

CONSTANTS Unknown,   \* confirmed_by of a case nobody has reviewed
          Teachers,  \* processes that run school, merge or import
          Files,     \* the files qa import may be given, as load() reads them
          MaxTotal,       \* bound of the model: occurrences the base may count...
          MaxSharedTotal  \* ...and the same where writers overlap

ASSUME TeacherAssumption == /\ Unknown \in Writers
                            /\ MaxTotal \in Nat /\ MaxSharedTotal \in Nat
                            /\ \A file \in Files : Loads(file)

VARIABLES rows,   \* cases.jsonl
          work,   \* work[t]: what teacher t holds in memory
          owed,   \* occurrences the base has taken in (one writer at a time)
          typed,  \* signatures a school session typed in although it knew them
          solo    \* the single-writer assumption of docs/spec.md

teacherVars == <<rows, work, owed, typed, solo>>

Holding(at, cases, pending, touched, owes) ==
    [at |-> at, cases |-> cases, pending |-> pending, touched |-> touched, owes |-> owes]

NoWork == Holding("idle", <<>>, {}, FALSE, 0)

MayWork == solo => \A t \in Teachers : work[t].at = "idle"
Owes(n) == IF solo THEN n ELSE 0
Room == IF solo THEN MaxTotal ELSE MaxSharedTotal

(* The occurrences a list of cases counts. *)
Total(cases) == FoldLeft(LAMBDA sum, row : sum + row.times_seen, 0, cases)

TeacherInit == /\ rows = <<>>
               /\ work = [t \in Teachers |-> NoWork]
               /\ owed = 0 /\ typed = {}
               /\ solo \in BOOLEAN

-----------------------------------------------------------------------------
(* Fault: a record() without a name clears the reviewer. *)
RecordedByForgets(s, w) == Recorded(rows, s, w)

(* CaseStore.record: without by, a known case keeps its reviewer. *)
RecordedBy(s, w) ==
    IF w = Unknown
    THEN [i \in DOMAIN Recorded(rows, s, w) |->
             IF i \in DOMAIN rows
             THEN [Recorded(rows, s, w)[i] EXCEPT !.by = rows[i].by]
             ELSE Recorded(rows, s, w)[i]]
    ELSE Recorded(rows, s, w)

(* qa record, an escalated answer, or the failure of a wrapped command. *)
Record(s, w) ==
    /\ MayWork /\ Total(rows) < Room
    /\ rows' = RecordedBy(s, w)
    /\ owed' = Owes(owed + 1)
    /\ UNCHANGED <<work, typed, solo>>

-----------------------------------------------------------------------------
(* qa school *)

(* get_pending_cases: the positions of the cases nobody has reviewed. *)
Unreviewed == {i \in DOMAIN rows : rows[i].by = Unknown}

FirstOf(positions, n) ==
    {i \in positions : Cardinality({j \in positions : j <= i}) <= n}

(* run_session up to its loop, with or without a limit of n cases. *)
OpenSchool(t, n) ==
    /\ work[t].at = "idle" /\ MayWork
    /\ n \in 1..Cardinality(Unreviewed)
    /\ work' = [work EXCEPT ![t] =
                   Holding("asking", rows, FirstOf(Unreviewed, n), FALSE, owed)]
    /\ UNCHANGED <<rows, owed, typed, solo>>

Asking(t) == work[t].at = "asking" /\ work[t].pending # {}

(* The case the session shows, and those it shows after it. *)
Shown(t) == Min(work[t].pending)
Rest(t)  == work[t].pending \ {Shown(t)}

(* An answer that changes the cases in memory. *)
Answered(t, cases, owes) ==
    work' = [work EXCEPT ![t] = Holding("asking", cases, Rest(t), TRUE, owes)]

(* Confirm, or correct with a diagnosis: the case gets a reviewer. *)
Review(t, w) ==
    /\ Asking(t) /\ w # Unknown
    /\ Answered(t, [work[t].cases EXCEPT ![Shown(t)].by = w], work[t].owes)
    /\ UNCHANGED <<rows, owed, typed, solo>>

(* New case: appended under the typed signature, known or not. *)
TypeCase(t, s, w) ==
    /\ Asking(t) /\ w # Unknown
    /\ Total(work[t].cases) < Room
    /\ Answered(t, Append(work[t].cases, NewRow(work[t].cases, s, w)), Owes(work[t].owes + 1))
    /\ typed' = IF Known(work[t].cases, s) THEN typed \cup {s} ELSE typed
    /\ UNCHANGED <<rows, owed, solo>>

(* Skip, an unknown choice, an empty diagnosis or incomplete fields. *)
SkipCase(t) ==
    /\ Asking(t)
    /\ work' = [work EXCEPT ![t].pending = Rest(t)]
    /\ UNCHANGED <<rows, owed, typed, solo>>

(* Quit, end of input, or the last answer: save if anything was decided. *)
EndSchool(t) ==
    /\ work[t].at = "asking"
    /\ work' = [work EXCEPT ![t] = IF @.touched THEN Holding("saving", @.cases, {}, TRUE, @.owes)
                                   ELSE NoWork]
    /\ UNCHANGED <<rows, owed, typed, solo>>

-----------------------------------------------------------------------------
(* qa merge and qa import compute what they save right after they load it. *)

Ready(t, cases, owes) ==
    /\ work[t].at = "idle" /\ MayWork
    /\ Total(cases) <= Room
    /\ work' = [work EXCEPT ![t] = Holding("saving", cases, {}, TRUE, owes)]
    /\ UNCHANGED <<rows, owed, typed, solo>>

(* Fault: the occurrences of the removed row are forgotten. *)
MergedForgets(into, from) == RemoveAt(rows, from)

Merged(into, from) ==
    RemoveAt([rows EXCEPT ![into].times_seen = @ + rows[from].times_seen], from)

(* merge of one existing case into another; --into and --from are ids. *)
Merge(t, into, from) ==
    /\ into # from
    /\ Ready(t, Merged(into, from), owed)

TwiceIn(cases, s) == \E i, j \in DOMAIN cases :
    i # j /\ cases[i].signature = s /\ cases[j].signature = s

(* _split_offenders: a signature on two lines of the file. *)
HasTwins(file) == \E s \in Signatures : TwiceIn(file, s)

(* import without --merge: nothing live may share a signature with the     *)
(* file, which then becomes the base.                                      *)
ImportReplace(t, file) ==
    /\ ~HasTwins(file)
    /\ \A s \in Signatures : ~(Known(file, s) /\ Known(rows, s))
    /\ Ready(t, file, Total(file))

(* The count of an imported case goes to its live twin. *)
CountedIn(cases, row) ==
    [i \in DOMAIN cases |->
        IF IsFirst(cases, i, row.signature)
        THEN [cases[i] EXCEPT !.times_seen = @ + row.times_seen]
        ELSE cases[i]]

(* One imported case: counted in if it is known, else appended with a new id. *)
Folded(cases, row) ==
    IF Known(cases, row.signature)
    THEN CountedIn(cases, row)
    ELSE Append(cases, [row EXCEPT !.id = NextId(cases)])

(* The base with the cases of a file, one after the other. *)
MergedWith(file) == FoldLeft(Folded, rows, file)

(* import --merge: refused when a live twin is ambiguous. *)
ImportMerge(t, file) ==
    /\ ~HasTwins(file)
    /\ \A s \in Signatures : ~(Known(file, s) /\ TwiceIn(rows, s))
    /\ Ready(t, MergedWith(file), owed + Total(file))

-----------------------------------------------------------------------------
(* CaseStore.save: the file becomes what the teacher holds. *)
Save(t) ==
    /\ work[t].at = "saving"
    /\ rows' = work[t].cases
    /\ owed' = Owes(work[t].owes)
    /\ work' = [work EXCEPT ![t] = NoWork]
    /\ UNCHANGED <<typed, solo>>

(* The tool is killed before it saves. *)
Killed(t) ==
    /\ work[t].at # "idle"
    /\ work' = [work EXCEPT ![t] = NoWork]
    /\ UNCHANGED <<rows, owed, typed, solo>>

School(t) == \/ \E n \in 1..Len(rows) : OpenSchool(t, n)
             \/ \E w \in Writers : Review(t, w)
             \/ \E w \in Writers, s \in Signatures : TypeCase(t, s, w)
             \/ SkipCase(t)
             \/ EndSchool(t)

Teach(t) == \/ School(t)
            \/ \E into, from \in DOMAIN rows : Merge(t, into, from)
            \/ \E file \in Files : ImportReplace(t, file) \/ ImportMerge(t, file)
            \/ Save(t)
            \/ Killed(t)

TeacherNext == \/ \E s \in Signatures, w \in Writers : Record(s, w)
               \/ \E t \in Teachers : Teach(t)

TeacherSpec == TeacherInit /\ [][TeacherNext]_teacherVars

-----------------------------------------------------------------------------
(* Whatever overlaps, the file stays one that load() accepts: were one id  *)
(* out of order, every later command on the base would stop (store.load).  *)
TeacherTypeOK ==
    /\ Loads(rows)
    /\ \A t \in Teachers :
          /\ work[t].at \in {"idle", "asking", "saving"}
          /\ Loads(work[t].cases)
          /\ work[t].pending \subseteq DOMAIN work[t].cases
          /\ work[t].touched \in BOOLEAN /\ work[t].owes \in Nat
    /\ owed \in Nat /\ typed \subseteq Signatures /\ solo \in BOOLEAN

(* With one writer at a time no occurrence is lost or counted twice: merge *)
(* and import --merge carry times_seen over (merge.py, transport.py).      *)
CountsConserved == solo => Total(rows) = owed

(* Two rows under one signature, which lookup calls ambiguous, only come   *)
(* from a school session that typed in a signature it already knew; no     *)
(* record, merge or import makes them, however the writers overlap.        *)
TwinsAreTyped == \A s \in Signatures : TwiceIn(rows, s) => s \in typed

(* The case base counts what happened and stays unambiguous. *)
CasesConserved == CountsConserved /\ TwinsAreTyped

(* A reviewed case is never pending again: a record() without a name keeps *)
(* the reviewer (CaseStore.record, school.get_pending_cases).              *)
ReviewedStaysReviewed ==
    [][solo => \A i \in DOMAIN rows, j \in DOMAIN rows' :
           /\ rows[i].id = rows'[j].id
           /\ rows[i].signature = rows'[j].signature
           /\ rows[i].by # Unknown
           => rows'[j].by # Unknown]_rows
=============================================================================
