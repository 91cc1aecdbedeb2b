----------------------------- MODULE MCToolGate -----------------------------
(* Instances of ToolGate for TLC: one tool for each way through the policy.  *)
EXTENDS ToolGate

CONSTANTS c1, c2

Kind(level, confirm, rule) == [level |-> level, confirm |-> confirm, rule |-> rule,
                               unplaced |-> FALSE]

Read   == Kind("READ_ONLY", FALSE, "none")
Delete == Kind("DESTRUCTIVE", FALSE, "none")
Look   == Kind("EXTERNAL", FALSE, "none")
Commit == Kind("SAFE_WRITE", TRUE, "ALLOW")
Run    == [Kind("EXECUTION", TRUE, "none") EXCEPT !.unplaced = TRUE]

AllWays == {Read, Delete, Look, Commit, Run}
Asked   == {Look, Commit}
TwoClicks == {c1, c2}
OneClick  == {c1}
=============================================================================
