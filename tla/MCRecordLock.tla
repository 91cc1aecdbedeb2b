---------------------------- MODULE MCRecordLock ----------------------------
(***************************************************************************)
(* Instances of RecordLock for TLC: three writers, a holder that may die   *)
(* and two waiters that may both reclaim its lock.                         *)
(***************************************************************************)
EXTENDS RecordLock

CONSTANTS w1, w2, w3, s1, s2

ThreeWriters == {w1, w2, w3}
TwoSignatures == {s1, s2}
OneSignature  == {s1}
=============================================================================
