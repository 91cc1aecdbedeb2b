------------------------------- MODULE CaseLog -------------------------------
(***************************************************************************)
(* What the case store promises its callers: record() is one atomic step   *)
(* on the file, "concurrent writers serialize instead of silently losing   *)
(* each other's rows" (store.py, CaseStore.record).                        *)
(***************************************************************************)
EXTENDS CaseRows

VARIABLE rows

Init == rows = <<>>

Record(w, s) == rows' = Recorded(rows, s, w)

Next == \E w \in Writers, s \in Signatures : Record(w, s)

Spec == Init /\ [][Next]_rows
=============================================================================
