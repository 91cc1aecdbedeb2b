------------------------------ MODULE CaseRows ------------------------------
(***************************************************************************)
(* The rows of cases.jsonl (store.py) and what one record() does to them.  *)
(* A row keeps the fields the store's behaviour depends on; the excerpt,   *)
(* the diagnosis and confirmed_by are one value, the recorder of the row.  *)
(***************************************************************************)
EXTENDS Integers, Sequences

CONSTANTS Writers,    \* threads and processes that call CaseStore.record
          Signatures  \* failure signatures, the key of a row

Row == [id : Nat \ {0}, signature : Signatures, times_seen : Nat \ {0},
        by : Writers]

(* What CaseStore.load accepts: every row valid, the ids strictly increasing. *)
(* Any other file makes load() raise, and with it every later record().       *)
Loads(rows) == /\ rows \in Seq(Row)
               /\ \A i, j \in 1..Len(rows) : i < j => rows[i].id < rows[j].id

(* Row i is the first one recorded under this signature. *)
IsFirst(rows, i, s) == /\ rows[i].signature = s
                       /\ \A j \in 1..(i - 1) : rows[j].signature # s

Known(rows, s) == \E i \in 1..Len(rows) : rows[i].signature = s

(* Fault: the id of the last row is not incremented. *)
NextIdRepeats(rows) == IF rows = <<>> THEN 1 ELSE rows[Len(rows)].id

NextId(rows) == IF rows = <<>> THEN 1 ELSE rows[Len(rows)].id + 1

Bumped(row, w) == [id |-> row.id, signature |-> row.signature,
                   times_seen |-> row.times_seen + 1, by |-> w]

NewRow(rows, s, w) == [id |-> NextId(rows), signature |-> s,
                       times_seen |-> 1, by |-> w]

(* CaseStore.record: bump the first row with this signature, or append one. *)
Recorded(rows, s, w) ==
    IF Known(rows, s)
    THEN [i \in 1..Len(rows) |->
              IF IsFirst(rows, i, s) THEN Bumped(rows[i], w) ELSE rows[i]]
    ELSE Append(rows, NewRow(rows, s, w))

(* How often a signature was seen, as the file has it. *)
TimesSeen(rows, s) ==
    IF Known(rows, s)
    THEN rows[CHOOSE i \in 1..Len(rows) : IsFirst(rows, i, s)].times_seen
    ELSE 0
=============================================================================
