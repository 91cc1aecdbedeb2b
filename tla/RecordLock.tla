----------------------------- MODULE RecordLock -----------------------------
(***************************************************************************)
(* CaseStore.record() under record_lock(): store.py.  Writers are threads  *)
(* or processes that share cases.jsonl and its sidecar lock file.  The     *)
(* lock is held by whoever created the file with O_CREAT|O_EXCL; it has no *)
(* owner check, so whoever unlinks it frees it.                            *)
(*                                                                         *)
(* Time is abstracted to two facts: a lock file has "aged" (30 s or more   *)
(* since its mtime) and a waiter is "late" (its 10 s of patience ended).   *)
(***************************************************************************)
EXTENDS CaseRows

CONSTANTS NoOne,      \* the lock file does not exist
          MaxCalls,   \* bound: record() calls made by each writer
          Windows,    \* an open file cannot be unlinked, a create may be
                      \* refused although the name was just freed
          Crashes,    \* a writer may die while it holds the lock
          Stalls      \* a live holder may keep the lock for 30 s or more

ASSUME NoOneAssumption == NoOne \notin Writers
ASSUME FlagsAssumption == Windows \in BOOLEAN /\ Crashes \in BOOLEAN /\ Stalls \in BOOLEAN
ASSUME MaxCallsAssumption == MaxCalls \in Nat

VARIABLES rows,    \* cases.jsonl
          lock,    \* the creator of the lock file, or NoOne
          aged,    \* the lock file is 30 s old or older
          pc,      \* the step of record() each writer is at
          sig,     \* the signature it records
          local,   \* the rows it loaded
          late,    \* its deadline has passed
          outcome, \* how its record() ends: "ok", "error", "locked"
          calls,   \* record() calls it has made
          acked    \* record() calls that returned a row, by signature

vars == <<rows, lock, aged, pc, sig, local, late, outcome, calls, acked>>

Waits   == {"open", "stat", "reclaim"}
HasOpen == {"load", "save", "close"}     \* fd is open
Steps   == {"idle", "unlink", "dead"} \cup Waits \cup HasOpen

Init == /\ rows = <<>>
        /\ lock = NoOne
        /\ aged = FALSE
        /\ pc = [w \in Writers |-> "idle"]
        /\ sig \in [Writers -> Signatures]
        /\ local = [w \in Writers |-> <<>>]
        /\ late = [w \in Writers |-> FALSE]
        /\ outcome = [w \in Writers |-> "ok"]
        /\ calls = [w \in Writers |-> 0]
        /\ acked = [s \in Signatures |-> 0]

Goto(w, from, to) == /\ pc[w] = from
                     /\ pc' = [pc EXCEPT ![w] = to]

(* Fault: the lock file is closed too early to protect itself. *)
DeletableAlways == TRUE

(* The lock file can be unlinked: on Windows not while its creator has it open. *)
Deletable == ~(Windows /\ lock \in Writers /\ pc[lock] \in HasOpen)

(* lock_path.unlink(), errors swallowed. *)
RemoveLock == /\ lock' = IF Deletable THEN NoOne ELSE lock
              /\ aged' = (aged /\ ~Deletable)

Call(w, s) == /\ Goto(w, "idle", "open")
              /\ calls[w] < MaxCalls
              /\ calls' = [calls EXCEPT ![w] = @ + 1]
              /\ sig' = [sig EXCEPT ![w] = s]
              /\ late' = [late EXCEPT ![w] = FALSE]
              /\ UNCHANGED <<rows, lock, aged, local, outcome, acked>>

(* os.open(O_CREAT | O_EXCL) succeeds. *)
Create(w) == /\ Goto(w, "open", "load")
             /\ lock = NoOne
             /\ lock' = w
             /\ aged' = FALSE
             /\ UNCHANGED <<rows, sig, local, late, outcome, calls, acked>>

(* Fault: the patience starts again with every refusal. *)
RefusedRestartsDeadline(w) ==
    /\ Goto(w, "open", "stat")
    /\ lock # NoOne
    /\ late' = [late EXCEPT ![w] = FALSE]
    /\ UNCHANGED <<rows, lock, aged, sig, local, outcome, calls, acked>>

(* os.open raises FileExistsError, or PermissionError on Windows. *)
Refused(w) == /\ Goto(w, "open", "stat")
              /\ lock # NoOne \/ Windows
              /\ UNCHANGED <<rows, lock, aged, sig, local, late, outcome, calls, acked>>

(* stat(): the lock has aged, so it is reclaimed without a look at the deadline. *)
SeesStale(w) == /\ Goto(w, "stat", "reclaim")
                /\ lock # NoOne /\ aged
                /\ UNCHANGED <<rows, lock, aged, sig, local, late, outcome, calls, acked>>

(* stat(): the lock is fresh or gone; sleep and try again. *)
Sleep(w) == /\ Goto(w, "stat", "open")
            /\ ~(lock # NoOne /\ aged)
            /\ ~late[w]
            /\ UNCHANGED <<rows, lock, aged, sig, local, late, outcome, calls, acked>>

(* The same with the deadline passed: StoreLockedError. *)
GiveUp(w) == /\ Goto(w, "stat", "idle")
             /\ ~(lock # NoOne /\ aged)
             /\ late[w]
             /\ outcome' = [outcome EXCEPT ![w] = "locked"]
             /\ UNCHANGED <<rows, lock, aged, sig, local, late, calls, acked>>

(* Unlink the lock seen stale: by now it may be another, fresh one. *)
Reclaim(w) == /\ Goto(w, "reclaim", "open")
              /\ RemoveLock
              /\ UNCHANGED <<rows, sig, local, late, outcome, calls, acked>>

(* Fault: the rows of an earlier call are used again. *)
LoadCached(w) == /\ Goto(w, "load", "save")
                 /\ UNCHANGED <<rows, lock, aged, sig, local, late, outcome, calls, acked>>

Load(w) == /\ Goto(w, "load", "save")
           /\ local' = [local EXCEPT ![w] = rows]
           /\ UNCHANGED <<rows, lock, aged, sig, late, outcome, calls, acked>>

(* save(): temp copy and os.replace, one atomic change of the file. *)
Save(w) == /\ Goto(w, "save", "close")
           /\ rows' = Recorded(local[w], sig[w], w)
           /\ outcome' = [outcome EXCEPT ![w] = "ok"]
           /\ UNCHANGED <<lock, aged, sig, local, late, calls, acked>>

(* load() or save() raises (an OSError): the file stays, the lock is released. *)
BodyFails(w) == /\ pc[w] \in {"load", "save"}
                /\ pc' = [pc EXCEPT ![w] = "close"]
                /\ outcome' = [outcome EXCEPT ![w] = "error"]
                /\ UNCHANGED <<rows, lock, aged, sig, local, late, calls, acked>>

Close(w) == /\ Goto(w, "close", "unlink")
            /\ UNCHANGED <<rows, lock, aged, sig, local, late, outcome, calls, acked>>

(* The finally clause unlinks the lock whoever owns it; record() returns or raises. *)
Release(w) == /\ Goto(w, "unlink", "idle")
              /\ RemoveLock
              /\ acked' = IF outcome[w] = "ok"
                          THEN [acked EXCEPT ![sig[w]] = @ + 1] ELSE acked
              /\ UNCHANGED <<rows, sig, local, late, outcome, calls>>

(* The writer's process dies; its lock file stays behind. *)
Crash(w) == /\ Crashes
            /\ pc[w] \in HasOpen \cup {"unlink"}
            /\ pc' = [pc EXCEPT ![w] = "dead"]
            /\ UNCHANGED <<rows, lock, aged, sig, local, late, outcome, calls, acked>>

(* 30 s pass since the lock was created. *)
Age == /\ lock # NoOne /\ ~aged
       /\ Stalls \/ pc[lock] = "dead"
       /\ aged' = TRUE
       /\ UNCHANGED <<rows, lock, pc, sig, local, late, outcome, calls, acked>>

(* 10 s pass since the writer began to wait. *)
PatienceEnds(w) == /\ pc[w] \in Waits /\ ~late[w]
                   /\ late' = [late EXCEPT ![w] = TRUE]
                   /\ UNCHANGED <<rows, lock, aged, pc, sig, local, outcome, calls, acked>>

Wait(w) == Create(w) \/ Refused(w) \/ SeesStale(w) \/ Sleep(w) \/ GiveUp(w) \/ Reclaim(w)

Hold(w) == Load(w) \/ Save(w) \/ BodyFails(w) \/ Close(w) \/ Release(w)

Next == \/ Age
        \/ \E w \in Writers : \/ \E s \in Signatures : Call(w, s)
                              \/ Wait(w) \/ Hold(w) \/ PatienceEnds(w) \/ Crash(w)

Spec == Init /\ [][Next]_vars

(* A waiter is scheduled and its clock runs; a holder may take no step at all. *)
FairSpec == Spec /\ \A w \in Writers : WF_vars(Wait(w)) /\ WF_vars(PatienceEnds(w))

-----------------------------------------------------------------------------
(* Every variable has its type, and the file is always one that load() takes, *)
(* so that no sequence of record() calls can wedge the store (store.py load). *)
TypeOK == /\ Loads(rows)
          /\ lock \in Writers \cup {NoOne}
          /\ aged \in BOOLEAN
          /\ pc \in [Writers -> Steps]
          /\ sig \in [Writers -> Signatures]
          /\ local \in [Writers -> Seq(Row)]
          /\ \A w \in Writers : Loads(local[w])
          /\ late \in [Writers -> BOOLEAN]
          /\ outcome \in [Writers -> {"ok", "error", "locked"}]
          /\ calls \in [Writers -> Nat]
          /\ acked \in [Signatures -> Nat]

(* No two writers are between lock and release at once ("portable stdlib *)
(* mutual exclusion", record_lock).                                      *)
MutualExclusion == \A v, w \in Writers :
    pc[v] \in HasOpen /\ pc[w] \in HasOpen => v = w

(* A record() that returned its row is in the file for good: the file counts *)
(* at least as many sightings of a signature as callers were told of.        *)
NoRecordLost == \A s \in Signatures : acked[s] <= TimesSeen(rows, s)

(* record() is atomic: the file only changes by one whole record() at a time. *)
CaseLog == INSTANCE CaseLog
Serialized == CaseLog!Spec

(* A live holder sits on a lock that has aged and cannot be unlinked: on      *)
(* Windows record() then tries again without a look at its deadline.          *)
Hung == lock # NoOne /\ aged /\ ~Deletable

(* A waiter's patience is bounded ("bounded retry", record_lock): it takes    *)
(* the lock or raises StoreLockedError, whether the holder releases, fails,   *)
(* dies or keeps a lock that is fresh, and however many holders stall for a   *)
(* while.  Only one that hangs for good on Windows, its file open for 30 s    *)
(* and more, keeps the waiters with it, so that is assumed not to happen.     *)
PatienceIsBounded ==
    []<>~Hung => \A w \in Writers : pc[w] = "open" ~> pc[w] \notin Waits
=============================================================================
