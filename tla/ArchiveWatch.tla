---------------------------- MODULE ArchiveWatch ----------------------------
(***************************************************************************)
(* qa watch (watch.py) digests files that others keep changing.  A cycle   *)
(* hashes every file, later reads the changed ones again and digests them  *)
(* section by section (skills/digest.py), then saves its ledger of hashes. *)
(***************************************************************************)
EXTENDS Integers, FiniteSets

CONSTANTS Notes,      \* markdown files under the watched roots
          Others,     \* files of any other kind
          MaxVersion, \* contents a file may have: 1..MaxVersion
          Garbled,    \* the content that is not UTF-8
          MaxWrites   \* bound of the model: writes and removals

ASSUME WatchAssumption == /\ Notes \cap Others = {}
                          /\ MaxVersion \in Nat /\ MaxWrites \in Nat

Watched == Notes \cup Others

VARIABLES disk,     \* disk[f]: the content of file f, 0 when there is none
          newest,   \* the highest content f has had
          writes,   \* writes and removals so far
          forward,  \* no file has gone back to an earlier content
          hashes,   \* the ledger in memory: the content hashed, or 0
          saved,    \* the ledger file
          digested, \* digest.jsonl: contents whose sections have been added
          daemon    \* [at, todo, seen]: the cycle under way

watchVars == <<disk, newest, writes, forward, hashes, saved, digested, daemon>>

Nothing == [f \in Watched |-> 0]
Asleep == [at |-> "asleep", todo |-> {}, seen |-> Nothing]

WatchInit == /\ disk = Nothing /\ newest = Nothing /\ writes = 0 /\ forward = TRUE
             /\ hashes = Nothing /\ saved = Nothing
             /\ digested = {} /\ daemon = Asleep

(* Someone else writes or removes a file. *)
Write(f, v) == /\ writes < MaxWrites /\ v # disk[f]
               /\ disk' = [disk EXCEPT ![f] = v] /\ writes' = writes + 1
               /\ newest' = [newest EXCEPT ![f] = IF v > @ THEN v ELSE @]
               /\ forward' = (forward /\ (v = 0 \/ v > newest[f]))
               /\ UNCHANGED <<hashes, saved, digested, daemon>>

(* scan_roots and remove_missing: what changed, with the hash it has now. *)
Scan ==
    /\ daemon.at = "asleep"
    /\ hashes' = [f \in Watched |-> IF disk[f] = 0 THEN 0 ELSE hashes[f]]
    /\ daemon' = [at |-> "digest", seen |-> disk,
                  todo |-> {f \in Watched : disk[f] # 0 /\ disk[f] # hashes[f]}]
    /\ UNCHANGED <<disk, newest, writes, forward, saved, digested>>

(* Fault: the hash of a file that has gone is kept as well. *)
HashedAnyway(f) == [hashes EXCEPT ![f] = daemon.seen[f]]

(* set_hash: the hash of the scan, for a file that could be read later. *)
Hashed(f) == IF disk[f] = 0 THEN hashes ELSE [hashes EXCEPT ![f] = daemon.seen[f]]

Due(f) == daemon.at = "digest" /\ f \in daemon.todo

(* digest_changed, a markdown file: digested as it is now.  One that has   *)
(* gone is an error of the cycle, which goes on.                           *)
DigestNote(f) ==
    /\ Due(f) /\ disk[f] # Garbled
    /\ digested' = IF disk[f] = 0 THEN digested ELSE digested \cup {<<f, disk[f]>>}
    /\ hashes' = Hashed(f)
    /\ daemon' = [daemon EXCEPT !.todo = @ \ {f}]
    /\ UNCHANGED <<disk, newest, writes, forward, saved>>

(* Any other file only has its hash stored. *)
PassOther(f) ==
    /\ Due(f) /\ disk[f] # 0
    /\ hashes' = Hashed(f)
    /\ daemon' = [daemon EXCEPT !.todo = @ \ {f}]
    /\ UNCHANGED <<disk, newest, writes, forward, saved, digested>>

(* Fault: the ledger of the scan is saved when the cycle breaks off. *)
AbortSaves(f) ==
    /\ Due(f)
    /\ \/ f \in Others /\ disk[f] = 0
       \/ f \in Notes /\ disk[f] = Garbled
    /\ saved' = daemon.seen
    /\ daemon' = [Asleep EXCEPT !.at = "dead"]
    /\ UNCHANGED <<disk, newest, writes, forward, hashes, digested>>

(* What digest_changed does not catch ends the daemon before it saves its  *)
(* ledger: another file has gone when its size is asked for, or a note is  *)
(* not UTF-8.                                                              *)
Abort(f) ==
    /\ Due(f)
    /\ \/ f \in Others /\ disk[f] = 0
       \/ f \in Notes /\ disk[f] = Garbled
    /\ daemon' = [Asleep EXCEPT !.at = "dead"]
    /\ UNCHANGED <<disk, newest, writes, forward, hashes, saved, digested>>

(* The end of a cycle, with or without changes. *)
SaveLedger == /\ daemon.at = "digest" /\ daemon.todo = {}
              /\ saved' = hashes /\ daemon' = Asleep
              /\ UNCHANGED <<disk, newest, writes, forward, hashes, digested>>

(* qa watch is started again: the ledger is what the file says. *)
RestartWatch == /\ daemon.at = "dead"
           /\ hashes' = saved /\ daemon' = Asleep
           /\ UNCHANGED <<disk, newest, writes, forward, saved, digested>>

Daemon == \/ Scan
          \/ \E f \in Notes : DigestNote(f)
          \/ \E f \in Others : PassOther(f)
          \/ \E f \in Watched : Abort(f)
          \/ SaveLedger

WatchNext == Daemon \/ RestartWatch \/ \E f \in Watched, v \in 0..MaxVersion : Write(f, v)

WatchSpec == WatchInit /\ [][WatchNext]_watchVars

-----------------------------------------------------------------------------
WatchTypeOK == /\ {disk, newest, hashes, saved} \subseteq [Watched -> 0..MaxVersion]
               /\ digested \subseteq Notes \X (1..MaxVersion)
               /\ daemon.at \in {"asleep", "digest", "dead"} /\ daemon.todo \subseteq Watched
               /\ writes \in 0..MaxWrites /\ forward \in BOOLEAN

(* The ledger claims no content of a note unless that content or a later   *)
(* one was digested, so a change between the scan and the digest is not    *)
(* skipped; it takes a file that returns to an earlier content to break    *)
(* that (watch.scan_roots, digest_changed).                                *)
LedgerNeverAhead ==
    forward => \A f \in Notes, ledger \in {hashes, saved} :
        ledger[f] # 0 => \E v \in ledger[f]..MaxVersion : <<f, v>> \in digested

(* Notes left alone get digested as they are, whatever cycles were aborted *)
(* before, as long as nothing garbled lies beside them and somebody starts *)
(* a daemon that died again.                                               *)
Calm == forward /\ \A f \in Notes : disk[f] # Garbled
NotesGetDigested ==
    <>[]Calm /\ []<>(daemon.at # "dead") =>
        \A f \in Notes : []<>(disk[f] = 0 \/ <<f, disk[f]>> \in digested)
=============================================================================
