--------------------------- MODULE Runtime_proofs ---------------------------
(***************************************************************************)
(* What the parts of the runtime beside the process manager promise, for   *)
(* every value of their constants: the archive watcher, the event feeds,   *)
(* the recovery machine; and what the parts promise together.              *)
(***************************************************************************)
EXTENDS MCRuntimeParts, ProcessManager_proofs, FiniteSetTheorems, TLAPS

-----------------------------------------------------------------------------
(* The archive watcher, for any files, contents and interleavings of       *)
(* writers with its cycles: its ledger of hashes, in memory and on disk,   *)
(* never claims a note was digested that was not.                          *)
Contents == [Watched -> 0..MaxVersion]

FilesOK == /\ disk \in Contents /\ newest \in Contents
           /\ hashes \in Contents /\ saved \in Contents
           /\ daemon \in [at : {"asleep", "digest", "dead"}, todo : SUBSET Watched,
                          seen : Contents]
           /\ forward \in BOOLEAN /\ writes \in 0..MaxWrites
           /\ digested \subseteq Notes \X (1..MaxVersion)

(* A file that never goes back to an earlier content has its newest one,   *)
(* and what a scan has seen is not newer.                                  *)
NewestIsLatest == forward => \A f \in Watched : /\ disk[f] \in {0, newest[f]}
                                                /\ daemon.seen[f] <= newest[f]

(* This content of f, or a later one, was digested. *)
Covered(f, v) == v # 0 => \E u \in v..MaxVersion : <<f, u>> \in digested
LedgersCovered == forward => \A f \in Notes : Covered(f, hashes[f]) /\ Covered(f, saved[f])

WInv == FilesOK /\ NewestIsLatest /\ LedgersCovered

-----------------------------------------------------------------------------
(* No file, an empty ledger: nothing is claimed. *)
LEMMA InitWInv == ASSUME WatchInit PROVE WInv
<1>1. Nothing \in Contents /\ \A f \in Watched : Nothing[f] = 0
  BY WatchAssumption DEF Nothing, Contents
<1>2. /\ disk = Nothing /\ newest = Nothing /\ hashes = Nothing /\ saved = Nothing
      /\ forward = TRUE
      /\ daemon = [at |-> "asleep", todo |-> {}, seen |-> Nothing]
      /\ writes = 0 /\ digested = {}
  BY DEF WatchInit, Asleep
<1>3. FilesOK
  BY <1>1, <1>2, WatchAssumption DEF FilesOK
<1>4. NewestIsLatest
  BY <1>1, <1>2 DEF NewestIsLatest
<1>5. LedgersCovered
  BY <1>1, <1>2 DEF LedgersCovered, Covered, Watched
<1> QED
  BY <1>3, <1>4, <1>5 DEF WInv

(* Someone writes or removes a file: what the watcher has seen stays old. *)
LEMMA WriteKeeps ==
  ASSUME WInv, NEW f \in Watched, NEW v \in 0..MaxVersion, Write(f, v)
  PROVE  WInv'
<1> USE WatchAssumption DEF WInv
<1>1. /\ disk' = [disk EXCEPT ![f] = v]
      /\ newest' = [newest EXCEPT ![f] = IF v > @ THEN v ELSE @]
      /\ forward' = (forward /\ (v = 0 \/ v > newest[f]))
      /\ writes < MaxWrites /\ writes' = writes + 1
      /\ UNCHANGED <<hashes, saved, digested, daemon>>
  BY DEF Write
<1>2. FilesOK'
  <2>1. newest[f] \in 0..MaxVersion /\ (IF v > newest[f] THEN v ELSE newest[f]) \in 0..MaxVersion
    BY DEF FilesOK, Contents
  <2> QED BY <1>1, <2>1 DEF FilesOK, Contents
<1>3. NewestIsLatest'
  <2> SUFFICES ASSUME forward', NEW g \in Watched
               PROVE  disk'[g] \in {0, newest'[g]} /\ daemon'.seen[g] <= newest'[g]
    BY DEF NewestIsLatest
  <2>1. forward /\ (v = 0 \/ v > newest[f])
    BY <1>1 DEF FilesOK
  <2>2. /\ disk[g] \in {0, newest[g]} /\ daemon.seen[g] <= newest[g]
        /\ newest[g] \in Nat /\ daemon.seen[g] \in Nat
    BY <2>1 DEF NewestIsLatest, FilesOK, Contents
  <2>3. CASE g # f
    BY <1>1, <2>2, <2>3 DEF FilesOK, Contents
  <2>4. CASE g = f
    <3>1. disk'[f] = v /\ newest'[f] = IF v > newest[f] THEN v ELSE newest[f]
      BY <1>1 DEF FilesOK, Contents
    <3> QED BY <1>1, <2>1, <2>2, <2>4, <3>1
  <2> QED BY <2>3, <2>4
<1>4. LedgersCovered'
  BY <1>1 DEF LedgersCovered, Covered, FilesOK
<1> QED BY <1>2, <1>3, <1>4

(* The hash a cycle stores is not newer than what it digests at that moment. *)
LEMMA DigestKeeps ==
  ASSUME WInv, NEW f \in Notes, DigestNote(f)
  PROVE  WInv'
<1> USE WatchAssumption DEF WInv
<1>0. f \in Watched
  BY DEF Watched
<1>1. /\ digested' = IF disk[f] = 0 THEN digested ELSE digested \cup {<<f, disk[f]>>}
      /\ hashes' = IF disk[f] = 0 THEN hashes ELSE [hashes EXCEPT ![f] = daemon.seen[f]]
      /\ daemon' = [daemon EXCEPT !.todo = @ \ {f}]
      /\ UNCHANGED <<disk, newest, writes, forward, saved>>
  BY DEF DigestNote, Hashed
<1>2. FilesOK'
  <2>1. disk[f] # 0 => disk[f] \in 1..MaxVersion
    BY <1>0 DEF FilesOK, Contents
  <2>2. digested' \subseteq Notes \X (1..MaxVersion)
    BY <1>1, <2>1 DEF FilesOK
  <2>3. hashes' \in Contents /\ daemon' \in [at : {"asleep", "digest", "dead"},
                                            todo : SUBSET Watched, seen : Contents]
    BY <1>0, <1>1 DEF FilesOK, Contents
  <2> QED BY <1>1, <2>2, <2>3 DEF FilesOK
<1>3. NewestIsLatest'
  BY <1>1 DEF NewestIsLatest, FilesOK
<1>4. LedgersCovered'
  <2> SUFFICES ASSUME forward, NEW g \in Notes
               PROVE  Covered(g, hashes[g])' /\ Covered(g, saved[g])'
    BY <1>1 DEF LedgersCovered
  <2>1. Covered(g, hashes[g]) /\ Covered(g, saved[g]) /\ digested \subseteq digested'
    BY <1>1 DEF LedgersCovered
  <2>2. g \in Watched
    BY DEF Watched
  <2>3. CASE g # f \/ disk[f] = 0
    BY <1>1, <2>1, <2>2, <2>3 DEF Covered, FilesOK, Contents
  <2>4. CASE g = f /\ disk[f] # 0
    <3>1. hashes'[g] = daemon.seen[f]
      BY <1>0, <1>1, <2>4 DEF FilesOK, Contents
    <3>2. disk[f] \in daemon.seen[f]..MaxVersion
      BY <1>0, <2>4 DEF NewestIsLatest, FilesOK, Contents
    <3>3. <<f, disk[f]>> \in digested'
      BY <1>1, <2>4
    <3> QED BY <1>1, <2>1, <2>4, <3>1, <3>2, <3>3 DEF Covered
  <2> QED BY <2>3, <2>4
<1> QED BY <1>2, <1>3, <1>4

(* The rest of a cycle, broken off or not, and the next start. *)
LEMMA CycleKeeps ==
  ASSUME WInv,
         Scan \/ SaveLedger \/ RestartWatch \/ (\E f \in Others : PassOther(f))
              \/ (\E f \in Watched : Abort(f))
  PROVE  WInv'
<1> USE WatchAssumption DEF WInv
<1>1. CASE Scan
  <2>1. /\ hashes' = [f \in Watched |-> IF disk[f] = 0 THEN 0 ELSE hashes[f]]
        /\ daemon'.seen = disk
        /\ daemon' \in [at : {"asleep", "digest", "dead"}, todo : SUBSET Watched,
                        seen : Contents]
        /\ UNCHANGED <<disk, newest, writes, forward, saved, digested>>
    BY <1>1 DEF Scan, FilesOK
  <2>2. FilesOK'
    BY <2>1 DEF FilesOK, Contents
  <2>3. NewestIsLatest'
    BY <2>1 DEF NewestIsLatest, FilesOK, Contents
  <2>4. LedgersCovered'
    BY <2>1 DEF LedgersCovered, Covered, Watched
  <2> QED BY <2>2, <2>3, <2>4
<1>2. ASSUME NEW f \in Others, PassOther(f) PROVE WInv'
  <2>0. f \in Watched /\ f \notin Notes
    BY DEF Watched
  <2>1. /\ hashes' = [hashes EXCEPT ![f] = daemon.seen[f]]
        /\ daemon' = [daemon EXCEPT !.todo = @ \ {f}]
        /\ UNCHANGED <<disk, newest, writes, forward, saved, digested>>
    BY <1>2 DEF PassOther, Hashed
  <2>2. FilesOK'
    BY <2>0, <2>1 DEF FilesOK, Contents
  <2>3. NewestIsLatest'
    BY <2>1 DEF NewestIsLatest, FilesOK
  <2>4. \A g \in Notes : hashes'[g] = hashes[g]
    BY <2>0, <2>1 DEF FilesOK, Contents, Watched
  <2>5. LedgersCovered'
    BY <2>1, <2>4 DEF LedgersCovered, Covered
  <2> QED BY <2>2, <2>3, <2>5
<1>3. CASE SaveLedger \/ RestartWatch \/ \E f \in Watched : Abort(f)
  <2>1. /\ daemon' = Asleep \/ daemon' = [Asleep EXCEPT !.at = "dead"]
        /\ UNCHANGED <<disk, newest, writes, forward, digested>>
        /\ hashes' \in {hashes, saved} /\ saved' \in {hashes, saved}
    BY <1>3 DEF SaveLedger, RestartWatch, Abort
  <2>2. /\ daemon'.seen = Nothing
        /\ daemon' \in [at : {"asleep", "digest", "dead"}, todo : SUBSET Watched,
                        seen : Contents]
    BY <2>1 DEF Asleep, Nothing, Contents
  <2>3. FilesOK'
    BY <2>1, <2>2 DEF FilesOK
  <2>4. NewestIsLatest'
    BY <2>1, <2>2 DEF NewestIsLatest, FilesOK, Contents, Nothing
  <2>5. LedgersCovered'
    BY <2>1 DEF LedgersCovered, Covered
  <2> QED BY <2>3, <2>4, <2>5
<1> QED BY <1>1, <1>2, <1>3

(* WInv is inductive. *)
LEMMA WatchStepKeeps ==
  ASSUME WInv, [WatchNext]_watchVars PROVE WInv'
<1>1. CASE UNCHANGED watchVars
  BY <1>1 DEF watchVars, WInv, FilesOK, NewestIsLatest, LedgersCovered, Covered
<1> QED
  BY <1>1, WriteKeeps, DigestKeeps, CycleKeeps DEF WatchNext, Daemon

(* The ledger claims no content of a note unless that content or a later   *)
(* one was digested (watch.digest_changed), whatever is written, removed,  *)
(* aborted or restarted, as long as files do not go back to old contents.  *)
THEOREM LedgerClaimsDigested ==
  WatchSpec => []LedgerNeverAhead
<1>1. WatchInit => WInv
  BY InitWInv
<1>2. WInv /\ [WatchNext]_watchVars => WInv'
  BY WatchStepKeeps
<1>3. WInv => LedgerNeverAhead
  BY DEF WInv, LedgersCovered, Covered, LedgerNeverAhead
<1> QED
  BY <1>1, <1>2, <1>3, PTL DEF WatchSpec
-----------------------------------------------------------------------------
(* The event feeds, for any feeds, any length of the run and of the        *)
(* history: what a feed is given is the replay, then the live events, each *)
(* in order and without a gap.                                             *)
Among(s, f) == \E i \in 1..Len(s) : s[i] = f
Once(s) == \A i, j \in 1..Len(s) : s[i] = s[j] => i = j

(* A feed has one callback, from the moment it is attached. *)
AttachedOnce ==
    /\ Once(attached) /\ Once(todo)
    /\ pc # "call" => todo = <<>>
    /\ pc # "run" => seq > 0
    /\ \A f \in Feeds : /\ Among(attached, f) <=> feed[f] \notin {"away", "replay", "attach"}
                        /\ Among(todo, f) => Among(attached, f)

(* The replay is the history without a gap, and all of it was emitted before *)
(* the feed was attached.                                                    *)
ReplayInOrder ==
    \A f \in Feeds :
        /\ \A i \in 1..Len(replay[f]) : replay[f][i] = replay[f][Len(replay[f])] - Len(replay[f]) + i
        /\ Len(replay[f]) > 0 => replay[f][Len(replay[f])] < seq

(* The events a feed that is attached has been given, when it has been     *)
(* given all there are for it: all but the one under delivery.             *)
Reached(f) == IF pc = "deliver" \/ Among(todo, f) THEN seq - 1 ELSE seq

FeedGiven(f) ==
    LET g == Given(f)
        n == Len(replay[f])
    IN  /\ feed[f] \in {"away", "replay"} => sent[f] = <<>> /\ queue[f] = <<>>
        /\ feed[f] \notin {"away", "replay"}
             => Len(g) >= n /\ \A i \in 1..n : g[i] = replay[f][i]
        /\ feed[f] = "attach" => Len(g) = n
        /\ feed[f] \notin {"away", "replay", "attach"}
             => /\ \A i \in (n + 1)..Len(g) : g[i] = Reached(f) - 1 - Len(g) + i
                /\ Reached(f) - (Len(g) - n) \in {joined[f] - 1, joined[f]}
                /\ joined[f] <= seq
                /\ n > 0 => replay[f][n] < joined[f]

FInv == FeedTypeOK /\ AttachedOnce /\ ReplayInOrder /\ \A f \in Feeds : FeedGiven(f)

(* Moving the head of the queue to what was sent leaves what was given. *)
LEMMA MoveHead ==
  ASSUME NEW S, NEW s \in Seq(S), NEW q \in Seq(S), q # <<>>
  PROVE  /\ Append(s, Head(q)) \in Seq(S) /\ Tail(q) \in Seq(S)
         /\ Append(s, Head(q)) \o Tail(q) = s \o q
<1>1. Head(q) \in S /\ Tail(q) \in Seq(S) /\ Len(Tail(q)) = Len(q) - 1 /\ Len(q) > 0
  OBVIOUS
<1>2. Append(s, Head(q)) \in Seq(S) /\ Len(Append(s, Head(q))) = Len(s) + 1
  BY <1>1
<1>3. Len(Append(s, Head(q)) \o Tail(q)) = Len(s \o q)
  BY <1>1, <1>2
<1>4. ASSUME NEW i \in 1..Len(s \o q)
      PROVE  (Append(s, Head(q)) \o Tail(q))[i] = (s \o q)[i]
  BY <1>1, <1>2
<1> QED
  BY <1>1, <1>2, <1>3, <1>4

LEMMA TailShifts ==
  ASSUME NEW s \in Seq(Int), s # <<>>
  PROVE  Tail(s) = [i \in 1..(Len(s) - 1) |-> s[i + 1]]
<1>1. /\ Tail(s) \in Seq(Int) /\ Len(Tail(s)) = Len(s) - 1
      /\ \A i \in 1..(Len(s) - 1) : Tail(s)[i] = s[i + 1]
  OBVIOUS
<1>2. \A t \in Seq(Int) : t = [i \in 1..Len(t) |-> t[i]]
  OBVIOUS
<1> QED BY <1>1, <1>2

(* The history, bounded, after one more event. *)
LEMMA LatestIsNewest ==
  ASSUME FeedTypeOK, seq < MaxEmits, Emit
  PROVE  history' = [i \in 1..(IF seq' < HistoryMax THEN seq' ELSE HistoryMax) |->
                      (IF seq' < HistoryMax THEN 0 ELSE seq' - HistoryMax) + i - 1]
<1> USE FeedAssumption
<1> DEFINE n == IF seq < HistoryMax THEN seq ELSE HistoryMax
           b == IF seq < HistoryMax THEN 0 ELSE seq - HistoryMax
           a == Append(history, seq)
<1>1. /\ seq \in Nat /\ n \in Nat /\ b \in Nat /\ b + n = seq
      /\ history = [i \in 1..n |-> b + i - 1]
      /\ seq' = seq + 1 /\ history' = Latest(a)
  BY DEF FeedTypeOK, Emit
<1>2. history \in Seq(Int) /\ Len(history) = n
  BY <1>1
<1>3. a = [i \in 1..(n + 1) |-> b + i - 1] /\ Len(a) = n + 1
  BY <1>1, <1>2
<1>4. CASE n + 1 > HistoryMax
  <2>1. Tail(a) = [i \in 1..n |-> b + i]
    <3>1. a \in Seq(Int) /\ a # <<>> /\ Len(a) - 1 = n
      BY <1>1, <1>2, <1>3
    <3>2. Tail(a) = [i \in 1..n |-> a[i + 1]]
      BY <3>1, TailShifts
    <3>3. \A i \in 1..n : a[i + 1] = b + i
      <4> TAKE i \in 1..n
      <4>1. i + 1 \in 1..(n + 1) /\ b + (i + 1) - 1 = b + i
        BY <1>1
      <4> QED BY <1>3, <4>1
    <3> QED BY <3>2, <3>3
  <2> QED BY <1>1, <1>3, <1>4, <2>1 DEF Latest
<1>5. CASE ~(n + 1 > HistoryMax)
  BY <1>1, <1>3, <1>5 DEF Latest
<1> QED BY <1>4, <1>5

(* A put into the queue comes after everything given so far. *)
LEMMA AppendAfter ==
  ASSUME NEW S, NEW s \in Seq(S), NEW q \in Seq(S), NEW e \in S
  PROVE  s \o Append(q, e) = Append(s \o q, e) /\ s \o q \in Seq(S)
  OBVIOUS

(* What happens elsewhere leaves a feed as it is. *)
LEMMA GivenStays ==
  ASSUME NEW f \in Feeds, FeedGiven(f), Reached(f)' = Reached(f),
         UNCHANGED <<seq, feed[f], replay[f], queue[f], sent[f], joined[f]>>
  PROVE  FeedGiven(f)'
<1>1. Given(f)' = Given(f)
  BY DEF Given
<1> QED BY <1>1 DEF FeedGiven

(* Before the session's first event nobody has been given anything. *)
LEMMA FeedInitFInv == FeedInit => FInv
<1> SUFFICES ASSUME FeedInit PROVE FInv
  OBVIOUS
<1> USE FeedAssumption DEF FeedInit
<1>1. FeedTypeOK
  <2>1. history = [i \in 1..(IF seq < HistoryMax THEN seq ELSE HistoryMax) |->
                     (IF seq < HistoryMax THEN 0 ELSE seq - HistoryMax) + i - 1]
    <3>1. seq = 0 /\ 0 < HistoryMax
      OBVIOUS
    <3>2. 1..(IF seq < HistoryMax THEN seq ELSE HistoryMax) = {}
      BY <3>1
    <3> QED BY <3>2
  <2>2. /\ <<>> \in Seq(Seqs) /\ <<>> \in Seq(Feeds)
    OBVIOUS
  <2>3. /\ replay \in [Feeds -> Seq(Seqs)] /\ queue \in [Feeds -> Seq(Seqs)]
        /\ sent \in [Feeds -> Seq(Seqs)] /\ joined \in [Feeds -> 0..MaxEmits]
        /\ quiet \in [Feeds -> 0..MaxEmits]
    BY <2>2
  <2>4. feed \in [Feeds -> {"away", "replay", "attach", "stream", "starved",
                            "ended", "gone"}]
    OBVIOUS
  <2>6. pc \in {"run", "deliver", "call"} /\ seq \in 0..MaxEmits
    OBVIOUS
  <2>7. done \in BOOLEAN
    OBVIOUS
  <2>5. attached \in Seq(Feeds) /\ todo \in Seq(Feeds)
    BY <2>2
  <2> HIDE DEF FeedInit
  <2> QED BY <2>1, <2>3, <2>4, <2>5, <2>6, <2>7 DEF FeedTypeOK
<1>2. AttachedOnce
  BY DEF AttachedOnce, Once, Among
<1>3. ReplayInOrder
  BY DEF ReplayInOrder
<1>4. \A f \in Feeds : FeedGiven(f)
  BY DEF FeedGiven, Given
<1> QED BY <1>1, <1>2, <1>3, <1>4 DEF FInv

(* The emitter alone: what a feed has been given and what it can be given  *)
(* move together.                                                          *)
LEMMA EmitKeeps == ASSUME FInv, Emit PROVE FInv'
<1> USE FeedAssumption DEF FInv
<1>1. /\ pc = "run" /\ pc' = "deliver" /\ seq' = seq + 1 /\ seq < MaxEmits /\ seq \in Nat
      /\ UNCHANGED <<todo, done, attached, joined, quiet, queue, feed, replay, sent>>
  BY DEF Emit, feeds, reader, FeedTypeOK
<1>2. FeedTypeOK'
  BY <1>1, LatestIsNewest DEF FeedTypeOK, Seqs
<1>3. AttachedOnce'
  BY <1>1 DEF AttachedOnce, Once, Among
<1>4. ReplayInOrder'
  <2> SUFFICES ASSUME NEW f \in Feeds
               PROVE  /\ \A i \in 1..Len(replay[f]) : replay[f][i] = replay[f][Len(replay[f])] - Len(replay[f]) + i
                      /\ Len(replay[f]) > 0 => replay[f][Len(replay[f])] < seq + 1
    BY <1>1 DEF ReplayInOrder
  <2>1. replay[f] \in Seq(Seqs)
    BY DEF FeedTypeOK
  <2>2. Len(replay[f]) > 0 => replay[f][Len(replay[f])] \in Int
    BY <2>1 DEF Seqs
  <2> QED BY <1>1, <2>2 DEF ReplayInOrder
<1>5. ASSUME NEW f \in Feeds PROVE FeedGiven(f)'
  <2>1. Reached(f)' = Reached(f)
    BY <1>1 DEF Reached, AttachedOnce, Among
  <2>2. Given(f)' = Given(f) /\ FeedGiven(f) /\ joined[f] \in Int
    BY <1>1 DEF Given, FeedTypeOK
  <2> QED BY <1>1, <2>1, <2>2 DEF FeedGiven
<1> QED BY <1>2, <1>3, <1>4, <1>5

LEMMA CopySubscribersKeeps == ASSUME FInv, CopySubscribers PROVE FInv'
<1> USE FeedAssumption DEF FInv
<1>1. /\ pc = "deliver" /\ pc' = "call" /\ todo' = attached
      /\ UNCHANGED <<seq, history, done, attached, joined, quiet, queue, feed, replay, sent>>
  BY DEF CopySubscribers, feeds, reader
<1>2. FeedTypeOK'
  BY <1>1 DEF FeedTypeOK
<1>3. AttachedOnce'
  BY <1>1 DEF AttachedOnce, Once, Among
<1>4. ReplayInOrder'
  BY <1>1 DEF ReplayInOrder
<1>5. ASSUME NEW f \in Feeds PROVE FeedGiven(f)'
  <2>1. feed[f] \notin {"away", "replay", "attach"} => Reached(f)' = Reached(f)
    BY <1>1 DEF Reached, AttachedOnce, Among
  <2>2. Given(f)' = Given(f) /\ FeedGiven(f)
    BY <1>1 DEF Given
  <2> QED BY <1>1, <2>1, <2>2 DEF FeedGiven
<1> QED BY <1>2, <1>3, <1>4, <1>5

LEMMA DeliverKeeps == ASSUME FInv, Deliver PROVE FInv'
<1> USE FeedAssumption DEF FInv
<1> DEFINE h == Head(todo)
<1>0. pc = "call" /\ todo \in Seq(Feeds) /\ todo # <<>> /\ seq \in Nat
  BY DEF Deliver, FeedTypeOK
<1>1. /\ h \in Feeds /\ h = todo[1] /\ Len(todo) > 0
      /\ Tail(todo) \in Seq(Feeds) /\ Len(Tail(todo)) = Len(todo) - 1
      /\ \A i \in 1..Len(Tail(todo)) : Tail(todo)[i] = todo[i + 1]
  BY <1>0
<1>2. /\ todo' = Tail(todo)
      /\ queue' = [queue EXCEPT ![h] = Append(@, seq - 1)]
      /\ UNCHANGED <<pc, seq, history, done, attached, joined, quiet, feed, replay, sent>>
  BY DEF Deliver, feeds, reader
<1>3. seq - 1 \in Seqs
  BY <1>0 DEF AttachedOnce, FeedTypeOK, Seqs
<1>4. FeedTypeOK'
  <2>1. queue' \in [Feeds -> Seq(Seqs)]
    BY <1>1, <1>2, <1>3 DEF FeedTypeOK
  <2> QED BY <1>1, <1>2, <2>1 DEF FeedTypeOK
<1>5. /\ Once(todo') /\ ~Among(todo', h)
      /\ \A f \in Feeds \ {h} : Among(todo', f) <=> Among(todo, f)
  <2>1. Once(todo)
    BY DEF AttachedOnce
  <2>2. Once(todo')
    BY <1>1, <1>2, <2>1 DEF Once
  <2>3. ~Among(todo', h)
    BY <1>1, <1>2, <2>1 DEF Once, Among
  <2>4. ASSUME NEW f \in Feeds \ {h} PROVE Among(todo', f) <=> Among(todo, f)
    <3>1. ASSUME NEW i \in 1..Len(todo), todo[i] = f PROVE Among(todo', f)
      <4>1. i # 1
        BY <1>1, <3>1, <2>4
      <4>2. i - 1 \in 1..Len(Tail(todo)) /\ Tail(todo)[i - 1] = todo[i]
        BY <1>1, <4>1
      <4> QED BY <1>2, <3>1, <4>2 DEF Among
    <3>2. ASSUME NEW i \in 1..Len(todo'), todo'[i] = f PROVE Among(todo, f)
      BY <1>1, <1>2, <3>2 DEF Among
    <3> QED BY <3>1, <3>2 DEF Among
  <2> QED BY <2>2, <2>3, <2>4
<1>6. AttachedOnce'
  <2>1. ASSUME NEW f \in Feeds, Among(todo, f)' PROVE Among(attached, f)'
    <3>1. Among(todo', f) /\ Among(attached', f) = Among(attached, f)
      BY <1>2, <2>1 DEF Among
    <3>2. Among(todo, f)
      BY <1>5, <3>1
    <3> QED BY <3>1, <3>2, <1>2 DEF AttachedOnce, Among
  <2> QED BY <1>0, <1>2, <1>5, <2>1 DEF AttachedOnce, Once, Among
<1>7. ReplayInOrder'
  BY <1>2 DEF ReplayInOrder
<1>8. ASSUME NEW f \in Feeds PROVE FeedGiven(f)'
  <2>1. CASE f # h
    <3>1. Reached(f)' = Reached(f)
      BY <1>2, <1>5, <2>1 DEF Reached
    <3>2. queue'[f] = queue[f]
      BY <1>1, <1>2, <2>1 DEF FeedTypeOK
    <3> HIDE DEF FInv
    <3> QED BY <1>2, <3>1, <3>2, GivenStays DEF FInv
  <2>2. CASE f = h
    <3>1. Among(todo, f) /\ feed[f] \notin {"away", "replay", "attach"}
      BY <1>1, <2>2 DEF AttachedOnce, Among
    <3>2. Reached(f) = seq - 1 /\ Reached(f)' = seq
      BY <1>0, <1>2, <1>5, <2>2, <3>1 DEF Reached
    <3>3. sent[f] \in Seq(Seqs) /\ queue[f] \in Seq(Seqs) /\ Len(replay[f]) \in Nat
          /\ replay[f] \in Seq(Seqs)
      BY DEF FeedTypeOK
    <3>4. Given(f)' = Append(Given(f), seq - 1) /\ Given(f) \in Seq(Seqs)
      <4>1. queue'[f] = Append(queue[f], seq - 1) /\ sent'[f] = sent[f]
        BY <1>1, <1>2, <2>2 DEF FeedTypeOK
      <4>2. /\ sent[f] \o Append(queue[f], seq - 1) = Append(sent[f] \o queue[f], seq - 1)
            /\ sent[f] \o queue[f] \in Seq(Seqs)
        BY <1>3, <3>3, AppendAfter
      <4> QED BY <4>1, <4>2 DEF Given
    <3>5. /\ Len(Given(f)') = Len(Given(f)) + 1 /\ Given(f)'[Len(Given(f)) + 1] = seq - 1
          /\ \A i \in 1..Len(Given(f)) : Given(f)'[i] = Given(f)[i]
      BY <1>3, <3>4
    <3>6. FeedGiven(f)
      OBVIOUS
    <3>7. joined[f] \in Int /\ Len(replay[f]) \in Nat /\ Len(Given(f)) \in Nat
      BY <3>3, <3>4 DEF FeedTypeOK
    <3> DEFINE n == Len(replay[f])
               k == Len(Given(f))
    <3>8. /\ n <= k /\ \A i \in 1..n : Given(f)[i] = replay[f][i]
          /\ \A i \in (n + 1)..k : Given(f)[i] = Reached(f) - 1 - k + i
          /\ Reached(f) - (k - n) \in {joined[f] - 1, joined[f]}
          /\ joined[f] <= seq
          /\ n > 0 => replay[f][n] < joined[f]
      BY <3>1, <3>6 DEF FeedGiven
    <3> HIDE DEF n, k, FInv
    <3>9. n \in Nat /\ k \in Nat /\ Len(Given(f)') = k + 1 /\ Given(f)'[k + 1] = seq - 1
          /\ \A i \in 1..k : Given(f)'[i] = Given(f)[i]
      BY <3>5, <3>7 DEF n, k
    <3>10. n <= k + 1 /\ \A i \in 1..n : Given(f)'[i] = replay[f][i]
      BY <3>8, <3>9
    <3>11. \A i \in (n + 1)..(k + 1) : Given(f)'[i] = seq - 1 - (k + 1) + i
      BY <1>0, <3>2, <3>8, <3>9
    <3>12. seq - (k + 1 - n) \in {joined[f] - 1, joined[f]}
      BY <1>0, <3>2, <3>7, <3>8, <3>9
    <3>13. feed'[f] \notin {"away", "replay", "attach"} /\ replay'[f] = replay[f]
           /\ joined'[f] = joined[f] /\ seq' = seq
      BY <1>2, <3>1
    <3>14. Len(replay'[f]) = n /\ n <= k + 1
      BY <3>8, <3>9, <3>13 DEF n
    <3> QED BY <2>2, <3>2, <3>8, <3>9, <3>10, <3>11, <3>12, <3>13, <3>14 DEF FeedGiven
  <2> QED BY <2>1, <2>2
<1> QED BY <1>4, <1>6, <1>7, <1>8

LEMMA EmittedKeeps == ASSUME FInv, Emitted \/ Finish PROVE FInv'
<1> USE FeedAssumption DEF FInv
<1>1. /\ todo = <<>> /\ pc \in {"call", "run"} /\ pc' = "run" /\ done' \in BOOLEAN
      /\ UNCHANGED <<seq, history, todo, attached, joined, quiet, queue, feed, replay, sent>>
  BY DEF Emitted, Finish, feeds, reader, AttachedOnce, FeedTypeOK
<1>2. FeedTypeOK'
  BY <1>1 DEF FeedTypeOK
<1>3. AttachedOnce'
  BY <1>1 DEF AttachedOnce, Once, Among
<1>4. ReplayInOrder'
  BY <1>1 DEF ReplayInOrder
<1>5. ASSUME NEW f \in Feeds PROVE FeedGiven(f)'
  <2>1. Reached(f)' = Reached(f)
    BY <1>1 DEF Reached, AttachedOnce, Among
  <2>2. Given(f)' = Given(f) /\ FeedGiven(f)
    BY <1>1 DEF Given
  <2> QED BY <1>1, <2>1, <2>2 DEF FeedGiven
<1> QED BY <1>2, <1>3, <1>4, <1>5

(* A feed's own steps: the others, and the emitter, see nothing of them but *)
(* the callback.                                                            *)
LEMMA CopyHistoryKeeps == ASSUME FInv, NEW f \in Feeds, CopyHistory(f) PROVE FInv'
<1> USE FeedAssumption DEF FInv
<1>1. /\ feed[f] = "away" /\ feed' = [feed EXCEPT ![f] = "replay"]
      /\ replay' = [replay EXCEPT ![f] = history]
      /\ UNCHANGED <<pc, seq, history, todo, done, attached, joined, quiet, queue, sent>>
  BY DEF CopyHistory, Moves, emitter, feeds
<1>2. /\ history \in Seq(Seqs) /\ seq \in Nat
      /\ \A i \in 1..Len(history) : history[i] = history[Len(history)] - Len(history) + i
      /\ Len(history) > 0 => history[Len(history)] < seq
  <2> DEFINE n == IF seq < HistoryMax THEN seq ELSE HistoryMax
             b == IF seq < HistoryMax THEN 0 ELSE seq - HistoryMax
  <2>1. /\ seq \in Nat /\ n \in Nat /\ b \in Nat /\ b + n = seq /\ seq <= MaxEmits
        /\ history = [i \in 1..n |-> b + i - 1]
    BY DEF FeedTypeOK
  <2> HIDE DEF n, b
  <2>2. \A i \in 1..n : b + i - 1 \in Seqs
    BY <2>1 DEF Seqs
  <2>3. history \in Seq(Seqs) /\ Len(history) = n
    BY <2>1, <2>2
  <2> QED BY <2>1, <2>3
<1>3. FeedTypeOK'
  <2>1. feed' \in [Feeds -> {"away", "replay", "attach", "stream", "starved", "ended", "gone"}]
        /\ replay' \in [Feeds -> Seq(Seqs)]
    BY <1>1, <1>2 DEF FeedTypeOK
  <2> QED BY <1>1, <2>1 DEF FeedTypeOK
<1>4. \A g \in Feeds : feed'[g] = (IF g = f THEN "replay" ELSE feed[g])
      /\ replay'[g] = (IF g = f THEN history ELSE replay[g])
  BY <1>1 DEF FeedTypeOK
<1>5. AttachedOnce'
  BY <1>1, <1>4 DEF AttachedOnce, Once, Among
<1>6. ReplayInOrder'
  BY <1>1, <1>2, <1>4 DEF ReplayInOrder
<1>7. ASSUME NEW g \in Feeds PROVE FeedGiven(g)'
  <2>1. CASE g # f
    <3>1. Reached(g)' = Reached(g)
      BY <1>1 DEF Reached
    <3> QED BY <1>1, <1>4, <2>1, <3>1, GivenStays
  <2>2. CASE g = f
    BY <1>1, <1>4, <2>2 DEF FeedGiven
  <2> QED BY <2>1, <2>2
<1> QED BY <1>3, <1>5, <1>6, <1>7

LEMMA ReplayKeeps == ASSUME FInv, NEW f \in Feeds, Replay(f) PROVE FInv'
<1> USE FeedAssumption DEF FInv
<1>1. /\ feed[f] = "replay" /\ feed' = [feed EXCEPT ![f] = "attach"]
      /\ queue' = [queue EXCEPT ![f] = @ \o replay[f]]
      /\ UNCHANGED <<pc, seq, history, todo, done, attached, joined, quiet, replay, sent>>
  BY DEF Replay, Moves, emitter, feeds
<1>2. replay[f] \in Seq(Seqs) /\ queue[f] = <<>> /\ sent[f] = <<>>
  BY <1>1 DEF FeedTypeOK, FeedGiven
<1>3. \A g \in Feeds : feed'[g] = (IF g = f THEN "attach" ELSE feed[g])
      /\ queue'[g] = (IF g = f THEN replay[f] ELSE queue[g])
  BY <1>1, <1>2 DEF FeedTypeOK
<1>4. FeedTypeOK'
  <2>1. feed' \in [Feeds -> {"away", "replay", "attach", "stream", "starved", "ended", "gone"}]
    BY <1>1 DEF FeedTypeOK
  <2>2. queue' = [queue EXCEPT ![f] = replay[f]] /\ queue \in [Feeds -> Seq(Seqs)]
    BY <1>1, <1>2 DEF FeedTypeOK
  <2>3. queue' \in [Feeds -> Seq(Seqs)]
    BY <1>2, <2>2
  <2> QED BY <1>1, <2>1, <2>3 DEF FeedTypeOK
<1>5. AttachedOnce'
  BY <1>1, <1>3 DEF AttachedOnce, Once, Among
<1>6. ReplayInOrder'
  BY <1>1 DEF ReplayInOrder
<1>7. ASSUME NEW g \in Feeds PROVE FeedGiven(g)'
  <2>1. CASE g # f
    <3>1. Reached(g)' = Reached(g)
      BY <1>1 DEF Reached
    <3> QED BY <1>1, <1>3, <2>1, <3>1, GivenStays
  <2>2. CASE g = f
    <3>1. Given(f)' = replay[f] /\ replay'[f] = replay[f] /\ feed'[f] = "attach"
      BY <1>1, <1>2, <1>3 DEF Given
    <3> QED BY <1>2, <2>2, <3>1 DEF FeedGiven
  <2> QED BY <2>1, <2>2
<1> QED BY <1>4, <1>5, <1>6, <1>7

LEMMA AttachKeeps == ASSUME FInv, NEW f \in Feeds, Attach(f) PROVE FInv'
<1> USE FeedAssumption DEF FInv
<1>1. /\ feed[f] = "attach" /\ feed' = [feed EXCEPT ![f] = "stream"]
      /\ attached' = Append(attached, f) /\ joined' = [joined EXCEPT ![f] = seq]
      /\ UNCHANGED <<pc, seq, history, todo, done, quiet, queue, replay, sent>>
  BY DEF Attach, Moves, emitter
<1>2. \A g \in Feeds : feed'[g] = (IF g = f THEN "stream" ELSE feed[g])
      /\ joined'[g] = (IF g = f THEN seq ELSE joined[g])
  BY <1>1 DEF FeedTypeOK
<1>3. /\ attached \in Seq(Feeds) /\ seq \in 0..MaxEmits
      /\ Len(attached') = Len(attached) + 1
      /\ attached'[Len(attached) + 1] = f
      /\ \A i \in 1..Len(attached) : attached'[i] = attached[i]
  BY <1>1 DEF FeedTypeOK
<1>4. FeedTypeOK'
  <2>1. feed' \in [Feeds -> {"away", "replay", "attach", "stream", "starved", "ended", "gone"}]
        /\ joined' \in [Feeds -> 0..MaxEmits] /\ attached' \in Seq(Feeds)
    BY <1>1, <1>3 DEF FeedTypeOK
  <2> QED BY <1>1, <2>1 DEF FeedTypeOK
<1>5. ~Among(attached, f) /\ ~Among(todo, f)
  BY <1>1 DEF AttachedOnce
<1>6. AttachedOnce'
  <2>1. Once(attached')
    BY <1>3, <1>5 DEF AttachedOnce, Once, Among
  <2>2. ASSUME NEW g \in Feeds PROVE Among(attached', g) <=> g = f \/ Among(attached, g)
    BY <1>3 DEF Among
  <2>3. ASSUME NEW g \in Feeds
        PROVE  /\ Among(attached', g) <=> feed'[g] \notin {"away", "replay", "attach"}
               /\ Among(todo', g) => Among(attached', g)
    BY <1>1, <1>2, <2>2 DEF AttachedOnce
  <2>4. Once(todo') /\ (pc' # "call" => todo' = <<>>) /\ (pc' # "run" => seq' > 0)
    BY <1>1 DEF AttachedOnce
  <2>5. \A g \in Feeds : /\ Among(attached, g)' = Among(attached', g)
                         /\ Among(todo, g)' = Among(todo', g)
    BY DEF Among
  <2>6. Once(attached)' /\ Once(todo)'
    BY <2>1, <2>4 DEF Once
  <2> QED BY <2>3, <2>4, <2>5, <2>6 DEF AttachedOnce
<1>7. ReplayInOrder'
  BY <1>1 DEF ReplayInOrder
<1>8. ASSUME NEW g \in Feeds PROVE FeedGiven(g)'
  <2>1. Reached(g)' = Reached(g)
    BY <1>1 DEF Reached
  <2>2. CASE g # f
    BY <1>1, <1>2, <2>1, <2>2, GivenStays
  <2>3. CASE g = f
    <3>1. /\ Given(f)' = Given(f) /\ feed'[f] = "stream" /\ joined'[f] = seq
          /\ Reached(f)' = Reached(f)
      BY <1>1, <1>2, <2>1, <2>3 DEF Given
    <3>2. /\ Len(Given(f)) = Len(replay[f]) /\ Len(replay[f]) \in Nat /\ seq \in Nat
          /\ \A i \in 1..Len(replay[f]) : Given(f)[i] = replay[f][i]
      <4>1. FeedGiven(f) /\ replay[f] \in Seq(Seqs)
        BY DEF FeedTypeOK
      <4> QED BY <1>1, <1>3, <4>1 DEF FeedGiven
    <3>3. Len(replay[f]) > 0 => replay[f][Len(replay[f])] < seq
      BY DEF ReplayInOrder
    <3>4. Reached(f) \in {seq - 1, seq}
      BY <3>2 DEF Reached
    <3>5. Reached(f)' - (Len(Given(f)') - Len(replay[f])) \in {joined'[f] - 1, joined'[f]}
      BY <3>1, <3>2, <3>4
    <3> HIDE DEF FInv
    <3> QED BY <1>1, <2>3, <3>1, <3>2, <3>3, <3>5 DEF FeedGiven
  <2> QED BY <2>2, <2>3
<1> QED BY <1>4, <1>6, <1>7, <1>8

(* Writing to the client, waiting, ending: what was given stays. *)
LEMMA ServeKeeps ==
  ASSUME FInv, NEW f \in Feeds,
         Send(f) \/ Starve(f) \/ EndStream(f) \/ Heartbeat(f) \/ Disconnect(f)
  PROVE  FInv'
<1> USE FeedAssumption DEF FInv
<1>1. /\ feed[f] \in {"stream", "starved"}
      /\ feed' = feed \/ \E to \in {"stream", "starved", "ended", "gone"} :
                            feed' = [feed EXCEPT ![f] = to]
      /\ UNCHANGED <<pc, seq, history, todo, done, attached, joined, replay>>
      /\ quiet' \in {quiet, [quiet EXCEPT ![f] = 0], [quiet EXCEPT ![f] = Over]}
  BY DEF Send, Starve, EndStream, Heartbeat, Disconnect, Moves, emitter, feeds
<1>2. /\ \A g \in Feeds \ {f} : feed'[g] = feed[g]
      /\ feed'[f] \in {"stream", "starved", "ended", "gone"}
      /\ feed' \in [Feeds -> {"away", "replay", "attach", "stream", "starved", "ended", "gone"}]
  BY <1>1 DEF FeedTypeOK
<1>3. /\ queue' \in [Feeds -> Seq(Seqs)] /\ sent' \in [Feeds -> Seq(Seqs)]
      /\ \A g \in Feeds \ {f} : queue'[g] = queue[g] /\ sent'[g] = sent[g]
      /\ sent'[f] \o queue'[f] = sent[f] \o queue[f]
  <2>1. CASE Send(f)
    <3>1. /\ sent' = [sent EXCEPT ![f] = Append(@, Head(queue[f]))]
          /\ queue' = [queue EXCEPT ![f] = Tail(@)]
          /\ queue[f] # <<>> /\ queue[f] \in Seq(Seqs) /\ sent[f] \in Seq(Seqs)
          /\ queue \in [Feeds -> Seq(Seqs)] /\ sent \in [Feeds -> Seq(Seqs)]
      BY <2>1 DEF Send, FeedTypeOK
    <3>2. /\ Append(sent[f], Head(queue[f])) \in Seq(Seqs) /\ Tail(queue[f]) \in Seq(Seqs)
          /\ Append(sent[f], Head(queue[f])) \o Tail(queue[f]) = sent[f] \o queue[f]
      BY <3>1, MoveHead
    <3> HIDE DEF FInv
    <3> QED BY <3>1, <3>2
  <2>2. CASE UNCHANGED <<queue, sent>>
    BY <2>2 DEF FeedTypeOK
  <2> QED BY <2>1, <2>2 DEF Starve, EndStream, Heartbeat, Disconnect
<1>4. FeedTypeOK'
  <2>1. Over \in 0..MaxEmits
    BY DEF Over, AttachedOnce, FeedTypeOK
  <2>2. quiet' \in [Feeds -> 0..MaxEmits]
    <3>1. \A v \in 0..MaxEmits : [quiet EXCEPT ![f] = v] \in [Feeds -> 0..MaxEmits]
      BY DEF FeedTypeOK
    <3>2. 0 \in 0..MaxEmits /\ quiet \in [Feeds -> 0..MaxEmits]
      BY DEF FeedTypeOK
    <3> HIDE DEF FInv
    <3> QED BY <1>1, <2>1, <3>1, <3>2
  <2> QED BY <1>1, <1>2, <1>3, <2>2 DEF FeedTypeOK
<1>5. AttachedOnce'
  BY <1>1, <1>2 DEF AttachedOnce, Once, Among
<1>6. ReplayInOrder'
  BY <1>1 DEF ReplayInOrder
<1>7. ASSUME NEW g \in Feeds PROVE FeedGiven(g)'
  <2>1. Reached(g)' = Reached(g)
    BY <1>1 DEF Reached
  <2>2. CASE g # f
    BY <1>1, <1>2, <1>3, <2>1, <2>2, GivenStays
  <2>3. CASE g = f
    <3>1. /\ Given(f)' = Given(f) /\ FeedGiven(f)
      BY <1>3 DEF Given
    <3> HIDE DEF FInv
    <3> QED BY <1>1, <1>2, <2>1, <2>3, <3>1 DEF FeedGiven
  <2> QED BY <2>2, <2>3
<1> QED BY <1>4, <1>5, <1>6, <1>7

(* FInv is inductive. *)
LEMMA FeedStepKeeps == ASSUME FInv, [FeedNext]_feedVars PROVE FInv'
<1>1. CASE UNCHANGED feedVars
  <2>1. UNCHANGED <<pc, seq, history, todo, done, attached, joined, quiet, queue, feed, replay, sent>>
    BY <1>1 DEF feedVars, emitter, feeds, reader
  <2>2. FeedTypeOK' /\ AttachedOnce' /\ ReplayInOrder'
    <3>1. FeedTypeOK'
      BY <2>1 DEF FInv, FeedTypeOK
    <3>2. AttachedOnce' /\ ReplayInOrder'
      BY <2>1 DEF FInv, AttachedOnce, Once, Among, ReplayInOrder
    <3> QED BY <3>1, <3>2
  <2>3. ASSUME NEW f \in Feeds PROVE FeedGiven(f)'
    <3>1. Reached(f)' = Reached(f)
      BY <2>1 DEF Reached
    <3> QED BY <2>1, <3>1, GivenStays DEF FInv
  <2> QED BY <2>2, <2>3 DEF FInv
<1> QED
  BY <1>1, EmitKeeps, CopySubscribersKeeps, DeliverKeeps, EmittedKeeps,
     CopyHistoryKeeps, ReplayKeeps, AttachKeeps, ServeKeeps
     DEF FeedNext, Emits, Follow

(* What FInv says of a feed is that it is faithful. *)
LEMMA GivenIsFaithful ==
  FInv => /\ FeedInOrder
          /\ \A f \in Feeds :
                /\ feed[f] \notin {"away", "replay"} => IsPrefix(replay[f], Given(f))
                /\ feed[f] \notin {"away", "replay", "attach"} => Holds(f, Given(f), Over)
<1> SUFFICES ASSUME FInv, NEW f \in Feeds
             PROVE  /\ \A i \in 1..(Len(Given(f)) - 1) : Given(f)[i] <= Given(f)[i + 1]
                    /\ \A i \in 1..(Len(Given(f)) - 2) : Given(f)[i] < Given(f)[i + 2]
                    /\ feed[f] \notin {"away", "replay"} => IsPrefix(replay[f], Given(f))
                    /\ feed[f] \notin {"away", "replay", "attach"}
                         => \A e \in joined[f]..(Over - 1) :
                               \E i \in 1..Len(Given(f)) : Given(f)[i] = e
  BY DEF FeedInOrder, Holds
<1> DEFINE g == Given(f)
           r == replay[f]
           n == Len(r)
           d == Reached(f) - Len(g)
<1>1. /\ r \in Seq(Seqs) /\ g \in Seq(Seqs) /\ seq \in Nat /\ joined[f] \in Nat
      /\ Seqs \subseteq Int /\ n \in Nat /\ Len(g) \in Nat
  BY FeedAssumption DEF FInv, FeedTypeOK, Given, Seqs
<1>2. FeedGiven(f)
  BY DEF FInv
<1>3. \A i \in 1..n : r[i] = r[n] - n + i /\ r[i] \in Int /\ r[n] \in Int
  <2> TAKE i \in 1..n
  <2>1. r[i] = r[n] - n + i
    BY DEF FInv, ReplayInOrder
  <2>2. n \in 1..n /\ r[i] \in Seqs /\ r[n] \in Seqs
    BY <1>1
  <2> QED BY <1>1, <2>1, <2>2
<1>4. Reached(f) \in {seq - 1, seq}
  BY <1>1 DEF Reached
<1>8. Over <= Reached(f) /\ Over \in Int
  BY <1>1 DEF Over, Reached, FInv, AttachedOnce, Among
<1>5. CASE feed[f] \in {"away", "replay"}
  <2>1. g = <<>>
    BY <1>2, <1>5 DEF FeedGiven, Given
  <2> QED BY <1>5, <2>1
<1>6. CASE feed[f] = "attach"
  <2>1. Len(g) = n /\ \A i \in 1..n : g[i] = r[i]
    BY <1>2, <1>6 DEF FeedGiven
  <2>2. IsPrefix(r, g)
    <3>1. g = r
      BY <1>1, <2>1
    <3> QED BY <1>1, <3>1 DEF IsPrefix
  <2> HIDE DEF g, r, n
  <2>3. \A i \in 1..n : g[i] = r[n] - n + i /\ r[n] \in Int
    BY <1>3, <2>1
  <2>4. \A i \in 1..(Len(g) - 1) : g[i] <= g[i + 1]
    BY <1>1, <2>1, <2>3
  <2>5. \A i \in 1..(Len(g) - 2) : g[i] < g[i + 2]
    BY <1>1, <2>1, <2>3
  <2> QED BY <1>6, <2>2, <2>4, <2>5 DEF g, r
<1>7. CASE feed[f] \notin {"away", "replay", "attach"}
  <2>1. /\ Len(g) >= n /\ \A i \in 1..n : g[i] = r[i]
        /\ \A i \in (n + 1)..Len(g) : g[i] = Reached(f) - 1 - Len(g) + i
        /\ Reached(f) - (Len(g) - n) \in {joined[f] - 1, joined[f]}
        /\ joined[f] <= seq
        /\ n > 0 => r[n] < joined[f]
    BY <1>2, <1>7 DEF FeedGiven
  <2>0. n > 0 => r[n] < joined[f]
    BY <2>1
  <2> HIDE DEF g, r, n
  <2>2. \A i \in 1..n : g[i] = r[n] - n + i
    BY <1>3, <2>1
  <2> DEFINE c == Reached(f)
             j == joined[f]
             k == Len(g)
  <2>7. /\ c \in Int /\ j \in Int /\ k \in Nat /\ n \in Nat /\ n <= k
        /\ c - (k - n) \in {j - 1, j} /\ \A i \in (n + 1)..k : g[i] = c - 1 - k + i
    BY <1>1, <1>4, <2>1
  <2>8. n > 0 => r[n] \in Int /\ r[n] < j
    <3>1. n > 0 => 1 \in 1..n
      BY <1>1
    <3> QED BY <1>3, <2>0, <3>1
  <2> HIDE DEF c, j, k
  <2>3. ASSUME NEW i \in 1..(k - 1) PROVE g[i] <= g[i + 1]
    <3>1. CASE i + 1 <= n
      BY <2>2, <2>7, <2>8, <3>1
    <3>2. CASE i = n
      BY <2>2, <2>7, <2>8, <3>2
    <3>3. CASE i > n
      BY <2>7, <3>3
    <3> QED BY <2>7, <3>1, <3>2, <3>3
  <2>4. ASSUME NEW i \in 1..(k - 2) PROVE g[i] < g[i + 2]
    <3>1. CASE i + 2 <= n
      BY <2>2, <2>7, <2>8, <3>1
    <3>2. CASE i <= n /\ n < i + 2
      BY <2>2, <2>7, <2>8, <3>2
    <3>3. CASE i > n
      BY <2>7, <3>3
    <3> QED BY <2>7, <3>1, <3>2, <3>3
  <2>5. IsPrefix(r, g)
    <3>1. SubSeq(g, 1, n) = r
      BY <1>1, <2>1 DEF n
    <3> QED BY <1>1, <2>1, <3>1 DEF IsPrefix, n
  <2>6. ASSUME NEW e \in joined[f]..(Over - 1)
        PROVE  \E i \in 1..Len(g) : g[i] = e
    <3>1. e < Reached(f)
      <4>1. Reached(f) \in Int /\ e \in Int /\ e <= Over - 1
        BY <1>1, <1>4, <1>8 DEF j
      <4> QED BY <1>8, <4>1
    <3>2. \E i \in 1..Len(g) : g[i] = e
      <4> DEFINE i == e - Reached(f) + 1 + Len(g)
      <4>1. i \in (n + 1)..Len(g)
        <5>1. e \in Int /\ e >= j /\ e < c
          BY <1>1, <3>1 DEF c, j
        <5>2. e - c + 1 + k \in (n + 1)..k
          BY <2>7, <5>1
        <5> QED BY <5>2 DEF c, k
      <4>2. g[i] = e
        <5>1. e \in Int /\ i = e - c + 1 + k /\ i \in (n + 1)..k
          BY <1>1, <4>1 DEF c, k
        <5> HIDE DEF i
        <5> QED BY <2>7, <5>1
      <4>3. i \in 1..Len(g)
        BY <1>1, <4>1
      <4> QED BY <4>2, <4>3
    <3> QED BY <3>2
  <2> QED BY <1>7, <2>3, <2>4, <2>5, <2>6 DEF g, r, k
<1> QED BY <1>1, <1>2, <1>5, <1>6, <1>7 DEF FInv, FeedTypeOK

(* What a stream had been given when its queue was last empty was written. *)
WrittenWhenQuiet ==
    \A f \in Feeds : feed[f] \in {"starved", "ended"} => Holds(f, sent[f], quiet[f])

LEMMA WrittenKeeps ==
  ASSUME FInv, WrittenWhenQuiet, [FeedNext]_feedVars PROVE WrittenWhenQuiet'
<1> SUFFICES ASSUME NEW f \in Feeds, feed'[f] \in {"starved", "ended"}
             PROVE  Holds(f, sent[f], quiet[f])'
  BY DEF WrittenWhenQuiet
<1> DEFINE Same == UNCHANGED <<replay[f], joined[f], sent[f], quiet[f]>>
<1>1. CASE feed[f] \in {"starved", "ended"} /\ Same
  BY <1>1 DEF WrittenWhenQuiet, Holds
<1>2. CASE Starve(f)
  <2>1. /\ feed[f] = "stream" /\ queue[f] = <<>> /\ quiet'[f] = Over
        /\ UNCHANGED <<replay, joined, sent>>
    BY <1>2 DEF Starve, Moves, FInv, FeedTypeOK
  <2>2. Holds(f, Given(f), Over)
    BY <2>1, GivenIsFaithful
  <2>3. Given(f) = sent[f]
    BY <2>1 DEF Given, FInv, FeedTypeOK
  <2> QED BY <2>1, <2>2, <2>3 DEF Holds
<1>3. ASSUME UNCHANGED <<replay, joined, sent, quiet, feed>> PROVE feed[f] \in {"starved", "ended"} /\ Same
  BY <1>3
<1>4. CASE UNCHANGED feedVars \/ Emits
  BY <1>1, <1>3, <1>4 DEF feedVars, feeds, reader, Emits, Emit, CopySubscribers, Deliver,
                          Emitted, Finish
<1>5. ASSUME NEW g \in Feeds, g # f, Follow(g) \/ Disconnect(g)
      PROVE  feed[f] \in {"starved", "ended"} /\ Same
  BY <1>5 DEF Follow, CopyHistory, Replay, Attach, Send, Starve, EndStream, Heartbeat,
              Disconnect, Moves, feeds, emitter, FInv, FeedTypeOK
<1>6. CASE Follow(f) \/ Disconnect(f)
  <2>1. CASE EndStream(f)
    BY <1>1, <2>1 DEF EndStream, Moves, feeds
  <2>2. ASSUME Send(f) \/ CopyHistory(f) \/ Replay(f) \/ Attach(f) \/ Heartbeat(f) \/ Disconnect(f)
        PROVE  feed'[f] \notin {"starved", "ended"}
    BY <2>2 DEF Send, CopyHistory, Replay, Attach, Heartbeat, Disconnect, Moves, FInv,
                FeedTypeOK
  <2> QED BY <1>2, <1>6, <2>1, <2>2 DEF Follow
<1> QED BY <1>1, <1>4, <1>5, <1>6 DEF FeedNext

(* The types of the stream and its feeds; the history is the newest events. *)
THEOREM FeedTypeCorrect == FeedSpec => []FeedTypeOK
<1>1. FInv => FeedTypeOK
  BY DEF FInv
<1> QED BY <1>1, FeedInitFInv, FeedStepKeeps, PTL DEF FeedSpec

(* However emit() and subscribe() interleave on their threads, a feed shows *)
(* the run in its order, no event more than twice, and misses nothing from  *)
(* its replay and nothing emitted since it attached; one that has ended has *)
(* written to its client all there was when it last found its queue empty   *)
(* (events.emit, server.subscribe, _stream_events).                         *)
THEOREM FeedsStayFaithful == FeedSpec => []FeedIsFaithful
<1>1. FeedInit => WrittenWhenQuiet
  BY DEF FeedInit, WrittenWhenQuiet
<1>2. FInv /\ WrittenWhenQuiet => FeedIsFaithful
  <2> SUFFICES ASSUME FInv, WrittenWhenQuiet, NEW f \in Feeds, feed[f] \in {"starved", "ended"}
               PROVE  Holds(f, sent[f], quiet[f])
    BY GivenIsFaithful DEF FeedIsFaithful, AttachedMissesNothing
  <2> QED BY DEF WrittenWhenQuiet
<1> QED
  BY <1>1, <1>2, FeedInitFInv, FeedStepKeeps, WrittenKeeps, PTL DEF FeedSpec
-----------------------------------------------------------------------------
(* The recovery machine, for any texts, any policy and a history of any    *)
(* length: what its counters hold is in the history.                       *)
Events == {Success} \cup [kind : {"failure"}, of : Failures, decision : Strategies]

Failure(e, d) == e.kind = "failure" /\ e.decision = d

(* s holds the newest of q, at most h of them. *)
NewestOf(s, q, h) == /\ Len(s) = IF Len(q) < h THEN Len(q) ELSE h
                     /\ \A i \in 1..Len(s) : s[i] = q[Len(q) - Len(s) + i]

(* The signatures are the newest of the failures, as many as matter. *)
SignaturesAreNewest == NewestOf(m.signatures, failed, Horizon)

KeptWith(s, f, h) == IF Len(s) + 1 > h THEN Tail(Append(s, f)) ELSE Append(s, f)

(* The streak is how many failures there have been since the last success. *)
StreakIsFailures ==
    /\ m.streak <= Len(past) /\ m.streak <= Len(failed)
    /\ \A i \in 1..m.streak :
          /\ past[Len(past) - m.streak + i].kind = "failure"
          /\ past[Len(past) - m.streak + i].of = failed[Len(failed) - m.streak + i]
    /\ m.streak < Len(past) => past[Len(past) - m.streak].kind = "success"

(* An environment check that no success has followed yet. *)
OpenCheck(i) == /\ Failure(past[i], "environment_check")
                /\ \A j \in i..Len(past) : past[j].kind # "success"

ChecksCounted ==
    /\ m.envRepeat = 0 => \A i \in 1..Len(past) : ~OpenCheck(i)
    /\ m.envRepeat < 2 => \A i, j \in 1..Len(past) : OpenCheck(i) /\ OpenCheck(j) => i = j

Alternates(p, n) == {i \in 1..n : Failure(p[i], "alternate_approach")}

AlternatesCounted == Cardinality(Alternates(past, Len(past))) = m.alternates

RInv == /\ HistoryTypeOK /\ past \in Seq(Events)
        /\ SignaturesAreNewest /\ StreakIsFailures
        /\ ChecksCounted /\ EnvironmentChecksBounded
        /\ AlternatesCounted
        /\ AskIsLastResort /\ swaps = IF m.escalated THEN 1 ELSE 0

(* What a machine is made of. *)
LEMMA MachineParts ==
  ASSUME NEW mm \in Machines
  PROVE  /\ mm.signatures \in Seq(Failures)
         /\ mm.streak \in Nat /\ mm.alternates \in Nat /\ mm.envRepeat \in Nat
         /\ mm.escalated \in BOOLEAN
BY DEF Machines

LEMMA MarkEscalatedMeans ==
  ASSUME NEW mm \in Machines
  PROVE  LET e == MarkEscalated(mm)
         IN  /\ e \in Machines /\ e.escalated = TRUE /\ e.signatures = mm.signatures
             /\ e.streak = mm.streak /\ e.alternates = mm.alternates
             /\ e.envRepeat = mm.envRepeat
BY DEF Machines, MarkEscalated

(* What a failure does to the machine and what the machine can decide: an    *)
(* environment check only while fewer than two are counted, the stronger     *)
(* model only once, a human only when the counted rungs are used up.         *)
LEMMA FailsEffect ==
  ASSUME RInv, NEW f \in Failures, Fails(f)
  PROVE  \E d \in Strategies :
           /\ past' = Append(past, [kind |-> "failure", of |-> f, decision |-> d])
           /\ failed' = Append(failed, f)
           /\ m' \in Machines
           /\ m'.signatures = KeptWith(m.signatures, f, Horizon)
           /\ m'.streak = m.streak + 1
           /\ m'.alternates = m.alternates + (IF d = "alternate_approach" THEN 1 ELSE 0)
           /\ m'.envRepeat = m.envRepeat + (IF d = "environment_check" THEN 1 ELSE 0)
           /\ swaps' = IF m'.escalated THEN 1 ELSE 0
           /\ m.escalated => m'.escalated
           /\ d = "environment_check" => m.envRepeat < 2
           /\ d = "ask_user" => /\ m.alternates >= MaxAlternates
                                /\ CanEscalate => m'.escalated
<1> DEFINE seen == Recorded(m, f)
           available == CanEscalate /\ ~m.escalated
           d == Decide(seen, f, TRUE, available)
           all == Append(m.signatures, f)
           kept == IF Len(m.signatures) + 1 > Horizon THEN Tail(all) ELSE all
<1>1. /\ m \in Machines /\ m.signatures \in Seq(Failures) /\ m.streak \in Nat
      /\ m.alternates \in Nat /\ m.envRepeat \in Nat /\ m.escalated \in BOOLEAN
      /\ swaps = IF m.escalated THEN 1 ELSE 0
  BY MachineParts DEF RInv, HistoryTypeOK
<1>2. all \in Seq(Failures) /\ Len(all) = Len(m.signatures) + 1 /\ all # <<>>
  BY <1>1
<1>3. kept \in Seq(Failures)
  BY <1>2
<1>4. seen = [signatures |-> kept, streak |-> m.streak + 1, alternates |-> m.alternates,
              envRepeat |-> m.envRepeat, escalated |-> m.escalated]
  BY <1>2 DEF Recorded
<1> HIDE DEF kept, seen, available
<1>5. /\ d \in Strategies
      /\ d = "escalate_model" => available
      /\ d = "ask_user" => ~(seen.alternates < MaxAlternates) /\ ~available
      /\ d = "environment_check" => seen.envRepeat < 2
  BY DEF Decide, Rung, Strategies, EarnsEnvironmentCheck
<1> DEFINE r == OnFailure(m, f, TRUE, CanEscalate)
<1>6. r = [machine |-> Counted(seen, d), decision |-> d]
  BY DEF OnFailure, seen, available
<1> HIDE DEF d, r
<1>7. /\ past' = Append(past, [kind |-> "failure", of |-> f, decision |-> d])
      /\ failed' = Append(failed, f)
      /\ IF d = "escalate_model"
         THEN m' = MarkEscalated(Counted(seen, d)) /\ swaps' = swaps + 1
         ELSE m' = Counted(seen, d) /\ swaps' = swaps
  <2>1. r.machine = Counted(seen, d) /\ r.decision = d
    BY <1>6
  <2>2. /\ past' = Append(past, [kind |-> "failure", of |-> f, decision |-> r.decision])
        /\ failed' = Append(failed, f)
        /\ IF r.decision = "escalate_model"
           THEN m' = MarkEscalated(r.machine) /\ swaps' = swaps + 1
           ELSE m' = r.machine /\ swaps' = swaps
    BY DEF Fails, r
  <2> QED BY <2>1, <2>2
<1>8. Counted(seen, d) =
        [signatures |-> kept, streak |-> m.streak + 1,
         alternates |-> m.alternates + (IF d = "alternate_approach" THEN 1 ELSE 0),
         envRepeat |-> m.envRepeat + (IF d = "environment_check" THEN 1 ELSE 0),
         escalated |-> m.escalated]
  BY <1>4 DEF Counted
<1>9. /\ m' \in Machines
      /\ m'.escalated <=> d = "escalate_model" \/ m.escalated
      /\ m'.streak = m.streak + 1 /\ m'.signatures = kept
      /\ m'.alternates = m.alternates + (IF d = "alternate_approach" THEN 1 ELSE 0)
      /\ m'.envRepeat = m.envRepeat + (IF d = "environment_check" THEN 1 ELSE 0)
  <2>1. Counted(seen, d) \in Machines
    BY <1>1, <1>3, <1>8 DEF Machines
  <2> DEFINE c == Counted(seen, d)
  <2>4. /\ c.streak = m.streak + 1 /\ c.signatures = kept /\ c.escalated = m.escalated
        /\ c.alternates = m.alternates + (IF d = "alternate_approach" THEN 1 ELSE 0)
        /\ c.envRepeat = m.envRepeat + (IF d = "environment_check" THEN 1 ELSE 0)
    BY <1>8
  <2> HIDE DEF c
  <2>2. CASE d = "escalate_model"
    <3>1. m' = MarkEscalated(c) /\ c \in Machines
      BY <1>7, <2>1, <2>2 DEF c
    <3> QED BY <1>1, <2>2, <2>4, <3>1, MarkEscalatedMeans
  <2>3. CASE d # "escalate_model"
    BY <1>1, <1>7, <1>8, <2>1, <2>3
  <2> QED BY <2>2, <2>3
<1>12. swaps' = IF m'.escalated THEN 1 ELSE 0
  <2>1. CASE d = "escalate_model"
    <3>1. ~m.escalated
      BY <1>5, <2>1 DEF available
    <3>2. swaps = 0 /\ swaps' = swaps + 1 /\ m'.escalated
      BY <1>1, <1>7, <1>9, <2>1, <3>1
    <3> QED BY <3>2
  <2>2. CASE d # "escalate_model"
    BY <1>1, <1>7, <1>9, <2>2
  <2> QED BY <2>1, <2>2
<1>13. d = "environment_check" => m.envRepeat < 2
  BY <1>4, <1>5
<1>14. d = "ask_user" => m.alternates >= MaxAlternates
  BY <1>1, <1>4, <1>5, LadderAssumption
<1>15. d = "ask_user" /\ CanEscalate => m'.escalated
  BY <1>1, <1>5, <1>9 DEF available
<1>16. m.escalated => m'.escalated
  BY <1>1, <1>9
<1>17. kept = KeptWith(m.signatures, f, Horizon)
  BY DEF kept, KeptWith
<1> QED BY <1>5, <1>7, <1>9, <1>12, <1>13, <1>14, <1>15, <1>16, <1>17

LEMMA HistoryInitRInv == HistoryInit => RInv
<1> SUFFICES ASSUME HistoryInit PROVE RInv
  OBVIOUS
<1>1. /\ m = NewMachine /\ past = <<>> /\ failed = <<>> /\ swaps = 0
      /\ m.signatures = <<>> /\ m.streak = 0 /\ m.alternates = 0 /\ m.envRepeat = 0
      /\ ~m.escalated
  BY DEF HistoryInit, NewMachine
<1>2. Horizon \in Nat /\ Horizon > 0
  BY LadderAssumption DEF Horizon
<1>3. <<>> \in Seq(Failures) /\ <<>> \in Seq(Events) /\ NewMachine \in Machines
  BY DEF NewMachine, Machines
<1>4. HistoryTypeOK
  BY <1>1, <1>2, <1>3 DEF HistoryTypeOK
<1>5. SignaturesAreNewest /\ StreakIsFailures /\ ChecksCounted /\ EnvironmentChecksBounded
  BY <1>1, <1>2 DEF SignaturesAreNewest, NewestOf, StreakIsFailures, ChecksCounted,
                    EnvironmentChecksBounded
<1>6. AlternatesCounted
  <2>1. Alternates(past, Len(past)) = {}
    BY <1>1 DEF Alternates
  <2> QED BY <1>1, <2>1, FS_EmptySet DEF AlternatesCounted
<1>7. AskIsLastResort
  BY <1>1 DEF AskIsLastResort
<1> QED BY <1>1, <1>3, <1>4, <1>5, <1>6, <1>7 DEF RInv

(* A success ends the streak and closes the environment checks. *)
LEMMA SucceedsKeeps == ASSUME RInv, Succeeds PROVE RInv'
<1> USE DEF RInv
<1> DEFINE n == Len(past)
<1>1. /\ m \in Machines /\ m' = [m EXCEPT !.streak = 0, !.envRepeat = 0]
      /\ past' = Append(past, Success) /\ failed' = failed /\ swaps' = swaps
      /\ past \in Seq(Events) /\ n \in Nat
  BY DEF Succeeds, OnSuccess, HistoryTypeOK
<1>l. n = Len(past)
  OBVIOUS
<1> USE <1>l
<1> HIDE DEF n
<1>2. /\ m' \in Machines /\ m'.signatures = m.signatures /\ m'.streak = 0 /\ m'.envRepeat = 0
      /\ m'.alternates = m.alternates /\ m'.escalated = m.escalated
  BY <1>1 DEF Machines
<1>3. /\ past' \in Seq(Events) /\ Len(past') = n + 1 /\ past'[n + 1] = Success
      /\ \A i \in 1..n : past'[i] = past[i]
  BY <1>1 DEF Events
<1>4. HistoryTypeOK'
  BY <1>1, <1>2, <1>3 DEF HistoryTypeOK
<1>5. SignaturesAreNewest'
  BY <1>1, <1>2 DEF SignaturesAreNewest
<1>6. StreakIsFailures'
  BY <1>1, <1>2, <1>3 DEF StreakIsFailures, HistoryTypeOK, Success
<1>7. ChecksCounted'
  <2>1. ASSUME NEW i \in 1..(n + 1) PROVE ~OpenCheck(i)'
    BY <1>1, <1>3 DEF OpenCheck, Success
  <2> QED BY <1>3, <2>1 DEF ChecksCounted
<1>8. EnvironmentChecksBounded'
  <2> SUFFICES ASSUME NEW i \in 1..(n + 1), NEW j \in 1..(n + 1), NEW k \in 1..(n + 1),
                      i < j, j < k,
                      \A e \in {i, j, k} : Failure(past'[e], "environment_check")
               PROVE  \E e \in i..k : past'[e].kind = "success"
    BY <1>3 DEF EnvironmentChecksBounded, Failure
  <2>1. k # n + 1
    BY <1>3 DEF Failure, Success
  <2>2. i \in 1..n /\ j \in 1..n /\ k \in 1..n
    BY <1>1, <2>1
  <2>3. PICK e \in i..k : past[e].kind = "success"
    <3>1. \A e \in {i, j, k} : past[e].kind = "failure" /\ past[e].decision = "environment_check"
      BY <1>3, <2>2 DEF Failure
    <3> QED BY <2>2, <3>1 DEF EnvironmentChecksBounded
  <2> QED BY <1>1, <1>3, <2>2, <2>3
<1>9. AlternatesCounted'
  <2>1. Alternates(past', n + 1) = Alternates(past, n)
    BY <1>1, <1>3 DEF Alternates, Failure, Success
  <2> QED BY <1>2, <1>3, <2>1 DEF AlternatesCounted, Alternates
<1>10. AskIsLastResort'
  <2> SUFFICES ASSUME NEW k \in 1..(n + 1), Failure(past'[k], "ask_user")
               PROVE  /\ Cardinality({i \in 1..k : Failure(past'[i], "alternate_approach")})
                            >= MaxAlternates
                      /\ CanEscalate => swaps = 1
    BY <1>1, <1>3 DEF AskIsLastResort, Failure
  <2>1. k \in 1..n
    BY <1>1, <1>3 DEF Failure, Success
  <2>2. {i \in 1..k : Failure(past'[i], "alternate_approach")}
          = {i \in 1..k : Failure(past[i], "alternate_approach")}
    BY <1>1, <1>3, <2>1
  <2> QED BY <1>1, <1>3, <2>1, <2>2 DEF AskIsLastResort, Failure
<1> QED BY <1>1, <1>2, <1>3, <1>4, <1>5, <1>6, <1>7, <1>8, <1>9, <1>10

(* One element appended to a sequence. *)
LEMMA OneMore ==
  ASSUME NEW S, NEW s \in Seq(S), NEW e \in S
  PROVE  /\ Append(s, e) \in Seq(S) /\ Append(s, e) # <<>>
         /\ Len(Append(s, e)) = Len(s) + 1 /\ Append(s, e)[Len(s) + 1] = e
         /\ \A i \in 1..Len(s) : Append(s, e)[i] = s[i]
<1>1. Append(s, e) \in Seq(S) /\ Len(Append(s, e)) = Len(s) + 1
  OBVIOUS
<1>2. Append(s, e) # <<>>
  <2>1. Len(<<>>) = 0 /\ Len(s) \in Nat
    OBVIOUS
  <2> QED BY <1>1, <2>1
<1>3. Append(s, e)[Len(s) + 1] = e
  OBVIOUS
<1>4. \A i \in 1..Len(s) : Append(s, e)[i] = s[i]
  OBVIOUS
<1> QED BY <1>1, <1>2, <1>3, <1>4

(* One more failure: the newest h of them, kept as record keeps them. *)
LEMMA NewestAppend ==
  ASSUME NEW S, NEW s \in Seq(S), NEW q \in Seq(S), NEW f \in S, NEW h \in Nat, h > 0,
         NewestOf(s, q, h)
  PROVE  NewestOf(KeptWith(s, f, h), Append(q, f), h)
<1> DEFINE a == Append(s, f)
           p == Append(q, f)
           k == Len(q)
           l == Len(s)
<1>1. /\ l \in Nat /\ k \in Nat /\ a \in Seq(S) /\ Len(a) = l + 1 /\ a[l + 1] = f
      /\ \A i \in 1..l : a[i] = s[i]
      /\ a # <<>> /\ Len(p) = k + 1 /\ p[k + 1] = f /\ \A i \in 1..k : p[i] = q[i]
  <2>1. l \in Nat /\ k \in Nat
    OBVIOUS
  <2>2. a \in Seq(S) /\ Len(a) = l + 1 /\ a[l + 1] = f /\ \A i \in 1..l : a[i] = s[i]
    BY OneMore
  <2>3. Len(p) = k + 1 /\ p[k + 1] = f /\ \A i \in 1..k : p[i] = q[i]
    BY OneMore
  <2>4. a # <<>>
    BY OneMore
  <2> QED BY <2>1, <2>2, <2>3, <2>4
<1>2. l = IF k < h THEN k ELSE h
  BY DEF NewestOf
<1>3. \A i \in 1..l : s[i] = q[k - l + i]
  BY DEF NewestOf
<1>t. Len(Tail(a)) = l /\ \A i \in 1..l : Tail(a)[i] = a[i + 1]
  BY <1>1
<1> DEFINE t == IF l + 1 > h THEN Tail(a) ELSE a
<1> HIDE DEF a, p, k, l
<1>4. \A i \in 1..(l + 1) : a[i] = p[k - l + i]
  <2> TAKE i \in 1..(l + 1)
  <2>1. CASE i = l + 1
    BY <1>1, <2>1
  <2>2. CASE i \in 1..l
    <3>1. k - l + i \in 1..k
      BY <1>1, <1>2, <2>2
    <3> QED BY <1>1, <1>3, <2>2, <3>1
  <2> QED BY <1>1, <2>1, <2>2
<1>7. /\ Len(t) = IF Len(p) < h THEN Len(p) ELSE h
      /\ \A i \in 1..Len(t) : t[i] = p[Len(p) - Len(t) + i]
  <2>5. CASE l + 1 > h
    <3>1. l = h /\ k >= h
      BY <1>1, <1>2, <2>5
    <3>2. \A i \in 1..l : Tail(a)[i] = p[k + 1 - l + i]
      <4> TAKE i \in 1..l
      <4>1. i + 1 \in 1..(l + 1) /\ k - l + (i + 1) = k + 1 - l + i
        BY <1>1
      <4> QED BY <1>t, <1>4, <4>1
    <3>6. t = Tail(a)
      BY <2>5
    <3>3. Len(t) = l /\ Len(p) = k + 1
      BY <1>1, <1>t, <3>6
    <3> HIDE DEF t
    <3>4. Len(t) = h /\ ~(Len(p) < h)
      BY <1>1, <3>1, <3>3
    <3>5. \A i \in 1..Len(t) : t[i] = p[Len(p) - Len(t) + i]
      <4>1. Len(p) - Len(t) = k + 1 - l
        BY <1>1, <3>3
      <4>2. 1..Len(t) = 1..l
        BY <3>3, Zenon
      <4> QED BY <3>2, <3>6, <4>1, <4>2, Zenon
    <3> QED BY <3>4, <3>5
  <2>6. CASE ~(l + 1 > h)
    <3>1. l = k /\ k + 1 <= h
      BY <1>1, <1>2, <2>6
    <3>2. \A i \in 1..(l + 1) : a[i] = p[k + 1 - (l + 1) + i]
      BY <1>1, <1>4
    <3>3. t = a /\ Len(t) = l + 1 /\ Len(p) = k + 1
      BY <1>1, <2>6
    <3> HIDE DEF t
    <3> QED BY <1>1, <3>1, <3>2, <3>3
  <2> QED BY <2>5, <2>6
<1>8. t = KeptWith(s, f, h) /\ p = Append(q, f)
  BY DEF t, a, p, l, KeptWith
<1> HIDE DEF t
<1> QED BY <1>7, <1>8 DEF NewestOf

(* A failure, whatever the ladder decides for it. *)
LEMMA FailsKeeps == ASSUME RInv, ~Ended, NEW f \in Failures, Fails(f) PROVE RInv'
<1> DEFINE n == Len(past)
           k == Len(failed)
<1>0. PICK d \in Strategies :
           /\ past' = Append(past, [kind |-> "failure", of |-> f, decision |-> d])
           /\ failed' = Append(failed, f)
           /\ m' \in Machines
           /\ m'.signatures = KeptWith(m.signatures, f, Horizon)
           /\ m'.streak = m.streak + 1
           /\ m'.alternates = m.alternates + (IF d = "alternate_approach" THEN 1 ELSE 0)
           /\ m'.envRepeat = m.envRepeat + (IF d = "environment_check" THEN 1 ELSE 0)
           /\ swaps' = IF m'.escalated THEN 1 ELSE 0
           /\ m.escalated => m'.escalated
           /\ d = "environment_check" => m.envRepeat < 2
           /\ d = "ask_user" => /\ m.alternates >= MaxAlternates
                                /\ CanEscalate => m'.escalated
  BY FailsEffect
<1>d. /\ m' \in Machines /\ m'.streak = m.streak + 1
      /\ m'.alternates = m.alternates + (IF d = "alternate_approach" THEN 1 ELSE 0)
      /\ m'.envRepeat = m.envRepeat + (IF d = "environment_check" THEN 1 ELSE 0)
      /\ d = "environment_check" => m.envRepeat < 2
  BY <1>0
<1> DEFINE new == [kind |-> "failure", of |-> f, decision |-> d]
<1>1. /\ m \in Machines /\ m.signatures \in Seq(Failures) /\ m.streak \in Nat
      /\ m.alternates \in Nat /\ m.envRepeat \in Nat
      /\ past \in Seq(Events) /\ n \in Nat /\ failed \in Seq(Failures) /\ k \in Nat
      /\ Horizon \in Nat /\ Horizon > 0
  BY <1>0, MachineParts, LadderAssumption DEF RInv, HistoryTypeOK, Horizon
<1>2. new \in Events /\ new.kind = "failure" /\ new.of = f /\ new.decision = d
  BY DEF Events
<1>l. n = Len(past) /\ k = Len(failed)
  OBVIOUS
<1>n. n \in Nat /\ k \in Nat
  BY <1>1
<1> USE <1>l
<1> HIDE DEF new, n, k
<1>3. /\ past' = Append(past, new) /\ past' \in Seq(Events)
      /\ Len(past') = n + 1 /\ past'[n + 1] = new
      /\ \A i \in 1..n : past'[i] = past[i]
  BY <1>0, <1>1, <1>2 DEF new
<1>4. /\ failed' = Append(failed, f) /\ failed' \in Seq(Failures)
      /\ Len(failed') = k + 1 /\ failed'[k + 1] = f
      /\ \A i \in 1..k : failed'[i] = failed[i]
  BY <1>0, <1>1
<1>5. SignaturesAreNewest' /\ Len(m'.signatures) <= Horizon
  <2>1. NewestOf(KeptWith(m.signatures, f, Horizon), Append(failed, f), Horizon)
    BY <1>1, NewestAppend DEF RInv, SignaturesAreNewest
  <2>2. NewestOf(m'.signatures, failed', Horizon)
    BY <1>0, <1>4, <2>1
  <2>3. Len(m'.signatures) <= Horizon
    BY <1>1, <1>4, <2>2 DEF NewestOf
  <2> QED BY <2>2, <2>3 DEF SignaturesAreNewest
<1>6. HistoryTypeOK'
  <2>1. m.envRepeat <= m.streak /\ m.streak <= n
    BY DEF RInv, HistoryTypeOK
  <2>2. swaps' \in Nat
    BY <1>0
  <2>3. m'.envRepeat <= m'.streak /\ m'.streak <= Len(past')
    BY <1>d, <1>1, <1>3, <2>1
  <2> QED BY <1>0, <1>4, <1>5, <2>2, <2>3 DEF HistoryTypeOK
<1>7. StreakIsFailures'
  <2>1. /\ m.streak <= n /\ m.streak <= k
        /\ \A i \in 1..m.streak : /\ past[n - m.streak + i].kind = "failure"
                                  /\ past[n - m.streak + i].of = failed[k - m.streak + i]
        /\ m.streak < n => past[n - m.streak].kind = "success"
    BY DEF RInv, StreakIsFailures
  <2> DEFINE st == m.streak
             S == m'.streak
             N == Len(past')
             K == Len(failed')
  <2>2. /\ st \in Nat /\ st <= n /\ st <= k /\ S = st + 1 /\ N = n + 1 /\ K = k + 1
        /\ st = m.streak
    BY <1>d, <1>1, <1>3, <1>4, <2>1
  <2>3. /\ \A i \in 1..st : /\ past[n - st + i].kind = "failure"
                            /\ past[n - st + i].of = failed[k - st + i]
        /\ st < n => past[n - st].kind = "success"
    BY <2>1
  <2> HIDE DEF st, S, N, K
  <2> HIDE <1>l
  <2>7. N - S = n - st /\ K - S = k - st
    BY <1>n, <2>2
  <2>4. ASSUME NEW i \in 1..S
        PROVE  /\ past'[N - S + i].kind = "failure"
               /\ past'[N - S + i].of = failed'[K - S + i]
    <3>1. CASE i = S
      <4>1. N - S + i = n + 1 /\ K - S + i = k + 1
        BY <1>n, <2>2, <3>1
      <4> QED BY <1>2, <1>3, <1>4, <4>1
    <3>2. CASE i # S
      <4>1. i \in 1..st
        BY <2>2, <3>2
      <4>2. n - st + i \in 1..n /\ k - st + i \in 1..k
        BY <1>n, <2>2, <4>1
      <4>3. N - S + i = n - st + i
        BY <2>7
      <4>4. K - S + i = k - st + i
        BY <2>7
      <4>5. past[n - st + i].kind = "failure" /\ past[n - st + i].of = failed[k - st + i]
        BY <2>3, <4>1
      <4>6. past'[n - st + i] = past[n - st + i] /\ failed'[k - st + i] = failed[k - st + i]
        BY <1>3, <1>4, <4>2
      <4> QED BY <4>3, <4>4, <4>5, <4>6
    <3> QED BY <3>1, <3>2
  <2>5. S < N => past'[N - S].kind = "success"
    <3> SUFFICES ASSUME S < N PROVE past'[N - S].kind = "success"
      OBVIOUS
    <3>1. N - S = n - st /\ st < n /\ n - st \in 1..n
      BY <1>n, <2>2
    <3> QED BY <1>3, <2>3, <3>1
  <2>6. S <= N /\ S <= K
    BY <1>n, <2>2
  <2> QED BY <2>4, <2>5, <2>6 DEF StreakIsFailures, S, N, K
<1>8. ASSUME NEW i \in 1..(n + 1)
      PROVE  OpenCheck(i)' <=> \/ i = n + 1 /\ d = "environment_check"
                               \/ i \in 1..n /\ OpenCheck(i)
  <2>1. CASE i = n + 1
    BY <1>1, <1>2, <1>3, <2>1 DEF OpenCheck, Failure
  <2>2. CASE i \in 1..n
    <3>1. OpenCheck(i)' <=> /\ Failure(past'[i], "environment_check")
                            /\ \A j \in i..(n + 1) : past'[j].kind # "success"
      BY <1>3 DEF OpenCheck, Failure
    <3>2. (\A j \in i..(n + 1) : past'[j].kind # "success")
            <=> \A j \in i..n : past[j].kind # "success"
      <4>1. past'[n + 1].kind # "success" /\ \A j \in i..n : past'[j] = past[j]
        BY <1>1, <1>2, <1>3, <2>2
      <4>2. \A j \in i..(n + 1) : j = n + 1 \/ j \in i..n
        BY <1>n, <2>2
      <4>3. \A j \in i..n : j \in i..(n + 1)
        BY <1>1, <2>2
      <4> QED BY <4>1, <4>2, <4>3
    <3> QED BY <1>1, <1>3, <2>2, <3>1, <3>2 DEF OpenCheck
  <2> QED BY <1>1, <2>1, <2>2
<1>9. ChecksCounted'
  <2>1. /\ m.envRepeat = 0 => \A i \in 1..n : ~OpenCheck(i)
        /\ m.envRepeat < 2 => \A i, j \in 1..n : OpenCheck(i) /\ OpenCheck(j) => i = j
    BY DEF RInv, ChecksCounted
  <2> HIDE DEF n
  <2>2. m'.envRepeat = 0 => \A i \in 1..(n + 1) : ~OpenCheck(i)'
    BY <1>d, <1>1, <1>8, <2>1
  <2>3. m'.envRepeat < 2 => \A i, j \in 1..(n + 1) : OpenCheck(i)' /\ OpenCheck(j)' => i = j
    BY <1>d, <1>1, <1>8, <2>1
  <2> QED BY <1>3, <2>2, <2>3 DEF ChecksCounted
<1>10. EnvironmentChecksBounded'
  <2> SUFFICES ASSUME NEW i \in 1..(n + 1), NEW j \in 1..(n + 1), NEW l \in 1..(n + 1),
                      i < j, j < l,
                      \A e \in {i, j, l} : Failure(past'[e], "environment_check"),
                      \A e \in i..l : past'[e].kind # "success"
               PROVE  FALSE
    <3>1. Len(past') = n + 1
      BY <1>3
    <3> QED BY <3>1 DEF EnvironmentChecksBounded, Failure
  <2>1. i \in 1..n /\ j \in 1..n
    BY <1>1
  <2>2. Failure(past[i], "environment_check") /\ Failure(past[j], "environment_check")
    BY <1>3, <2>1
  <2>3. CASE l \in 1..n
    <3>1. Failure(past[l], "environment_check")
      BY <1>3, <2>3
    <3>2. PICK e \in i..l : past[e].kind = "success"
      <4>1. \A e \in {i, j, l} : /\ past[e].kind = "failure"
                                 /\ past[e].decision = "environment_check"
        BY <2>2, <3>1 DEF Failure
      <4>2. EnvironmentChecksBounded
        BY DEF RInv
      <4> QED BY <2>1, <2>3, <4>1, <4>2 DEF EnvironmentChecksBounded
    <3>3. e \in 1..n
      BY <1>1, <2>1, <2>3
    <3> QED BY <1>3, <3>2, <3>3
  <2>4. CASE l = n + 1
    <3>1. d = "environment_check" /\ m.envRepeat < 2
      BY <1>d, <1>2, <1>3, <2>4 DEF Failure
    <3>2. \A e \in i..n : past[e].kind # "success"
      BY <1>1, <1>3, <2>1, <2>4
    <3>3. \A e \in j..n : past[e].kind # "success"
      BY <1>1, <2>1, <3>2
    <3>4. OpenCheck(i) /\ OpenCheck(j)
      BY <2>2, <3>2, <3>3 DEF OpenCheck
    <3> QED BY <2>1, <3>1, <3>4 DEF RInv, ChecksCounted
  <2>5. l \in 1..n \/ l = n + 1
    <3> n \in Nat /\ l \in 1..(n + 1)
      BY <1>1
    <3> QED OBVIOUS
  <2> QED BY <2>3, <2>4, <2>5
<1>11. AlternatesCounted' /\ \A j \in 1..n : Alternates(past', j) = Alternates(past, j)
  <2>1. IsFiniteSet(Alternates(past, n)) /\ Cardinality(Alternates(past, n)) = m.alternates
    <3>1. Alternates(past, n) \in SUBSET (1..n)
      BY DEF Alternates
    <3>2. IsFiniteSet(1..n)
      BY <1>1, FS_Interval
    <3> QED BY <3>1, <3>2, FS_Subset DEF RInv, AlternatesCounted
  <2>2. Alternates(past', n + 1) = IF d = "alternate_approach" THEN Alternates(past, n) \cup {n + 1}
                             ELSE Alternates(past, n)
    <3>1. \A i \in 1..(n + 1) : Failure(past'[i], "alternate_approach")
                                  <=> \/ i = n + 1 /\ d = "alternate_approach"
                                      \/ i \in 1..n /\ Failure(past[i], "alternate_approach")
      <4> TAKE i \in 1..(n + 1)
      <4>1. CASE i = n + 1
        BY <1>1, <1>2, <1>3, <4>1 DEF Failure
      <4>2. CASE i \in 1..n
        BY <1>1, <1>3, <4>2
      <4> QED BY <1>1, <4>1, <4>2
    <3>2. Alternates(past', n + 1) = {i \in 1..(n + 1) : Failure(past'[i], "alternate_approach")}
      BY DEF Alternates, Failure
    <3>3. Alternates(past, n) = {i \in 1..n : Failure(past[i], "alternate_approach")}
      BY DEF Alternates
    <3>4. CASE d = "alternate_approach"
      <4>1. \A i : i \in 1..(n + 1) <=> i = n + 1 \/ i \in 1..n
        BY <1>1
      <4> QED BY <3>1, <3>2, <3>3, <3>4, <4>1
    <3>5. CASE d # "alternate_approach"
      <4>1. \A i \in 1..n : i \in 1..(n + 1)
        BY <1>1
      <4> QED BY <3>1, <3>2, <3>3, <3>5, <4>1
    <3> QED BY <3>4, <3>5
  <2>3. n + 1 \notin Alternates(past, n)
    BY <1>1 DEF Alternates
  <2>4. Cardinality(Alternates(past', n + 1)) = m'.alternates
    <3>1. Cardinality(Alternates(past, n) \cup {n + 1}) = Cardinality(Alternates(past, n)) + 1
      BY <2>1, <2>3, FS_AddElement
    <3>2. CASE d = "alternate_approach"
      BY <1>d, <2>1, <2>2, <3>1, <3>2
    <3>3. CASE d # "alternate_approach"
      BY <1>d, <1>1, <2>1, <2>2, <3>3
    <3> QED BY <3>2, <3>3
  <2>5. \A j \in 1..n : Alternates(past', j) = Alternates(past, j)
    <3> TAKE j \in 1..n
    <3>1. \A i \in 1..j : past'[i] = past[i]
      BY <1>1, <1>3
    <3> QED BY <3>1 DEF Alternates, Failure
  <2>6. Alternates(past', Len(past')) = Alternates(past', n + 1)
    BY <1>3 DEF Alternates
  <2> QED BY <2>4, <2>5, <2>6 DEF AlternatesCounted
<1>12. AskIsLastResort'
  <2> SUFFICES ASSUME NEW j \in 1..(n + 1), Failure(past'[j], "ask_user")
               PROVE  /\ Cardinality(Alternates(past', j)) >= MaxAlternates
                      /\ CanEscalate => swaps' = 1
    <3>1. swaps' <= 1
      BY <1>0
    <3> QED BY <1>3, <3>1 DEF AskIsLastResort, Failure, Alternates
  <2>1. j = n + 1
    <3> SUFFICES ASSUME j \in 1..n PROVE FALSE
      BY <1>1
    <3>1. Failure(past[j], "ask_user")
      BY <1>3
    <3> QED BY <3>1 DEF Ended, Failure
  <2>2. d = "ask_user"
    BY <1>2, <1>3, <2>1 DEF Failure
  <2>3. Cardinality(Alternates(past', j)) = m'.alternates
    BY <1>3, <1>11, <2>1 DEF AlternatesCounted, Alternates
  <2>4. m'.alternates >= MaxAlternates /\ (CanEscalate => swaps' = 1)
    BY <1>0, <1>1, <2>2
  <2> QED BY <2>3, <2>4
<1> QED BY <1>0, <1>3, <1>5, <1>6, <1>7, <1>9, <1>10, <1>11, <1>12 DEF RInv

(* RInv is inductive. *)
LEMMA HistoryStepKeeps == ASSUME RInv, [HistoryNext]_historyVars PROVE RInv'
<1>1. CASE UNCHANGED historyVars
  <2>1. m' = m /\ past' = past /\ failed' = failed /\ swaps' = swaps
    BY <1>1 DEF historyVars
  <2>2. HistoryTypeOK' /\ SignaturesAreNewest' /\ StreakIsFailures'
    BY <2>1 DEF RInv, HistoryTypeOK, SignaturesAreNewest, StreakIsFailures
  <2>3. ChecksCounted' /\ EnvironmentChecksBounded'
    BY <2>1 DEF RInv, ChecksCounted, OpenCheck, EnvironmentChecksBounded
  <2>4. AlternatesCounted' /\ AskIsLastResort'
    BY <2>1 DEF RInv, AlternatesCounted, AskIsLastResort
  <2>5. swaps' = IF m'.escalated THEN 1 ELSE 0
    BY <2>1 DEF RInv
  <2> QED BY <2>1, <2>2, <2>3, <2>4, <2>5 DEF RInv
<1> QED
  BY <1>1, SucceedsKeeps, FailsKeeps DEF HistoryNext

(* The run of equal signatures at the end has at least k of them exactly     *)
(* when the last k are equal.                                                *)
LEMMA RepeatsMeans ==
  ASSUME NEW S, NEW s \in Seq(S), NEW k \in Nat, k > 0
  PROVE  Cardinality({i \in 1..Len(s) : \A j \in i..Len(s) : s[j] = s[Len(s)]}) >= k
           <=> /\ Len(s) >= k
               /\ \A j \in (Len(s) - k + 1)..Len(s) : s[j] = s[Len(s)]
<1> DEFINE n == Len(s)
           R == {i \in 1..n : \A j \in i..n : s[j] = s[n]}
<1>1. n \in Nat
  OBVIOUS
<1>2. R \subseteq 1..n /\ \A i \in R : \A j \in i..n : j \in R
  <2>1. ASSUME NEW i \in R, NEW j \in i..n PROVE j \in R
    <3>1. j \in 1..n /\ \A l \in j..n : l \in i..n
      BY <1>1
    <3> QED BY <3>1
  <2> QED BY <2>1
<1>3. IsFiniteSet(1..n) /\ IsFiniteSet(R) /\ Cardinality(R) \in Nat
  <2>1. IsFiniteSet(1..n)
    BY <1>1, FS_Interval
  <2>2. IsFiniteSet(R)
    BY <1>2, <2>1, FS_Subset
  <2> QED BY <2>1, <2>2, FS_CardinalityType
<1>4. (n >= k /\ \A j \in (n - k + 1)..n : s[j] = s[n]) <=> (n >= k /\ n - k + 1 \in R)
  <2>1. n >= k => n - k + 1 \in 1..n
    BY <1>1
  <2> QED BY <2>1
<1> HIDE DEF n, R
<1>5. ASSUME n >= k, n - k + 1 \in R PROVE Cardinality(R) >= k
  <2>1. (n - k + 1)..n \in SUBSET R
    BY <1>2, <1>5
  <2>2. Cardinality((n - k + 1)..n) = k
    <3>1. n - k + 1 \in Int /\ n \in Int /\ ~(n - k + 1 > n) /\ n - (n - k + 1) + 1 = k
      BY <1>1
    <3> QED BY <3>1, FS_Interval
  <2>3. Cardinality((n - k + 1)..n) <= Cardinality(R)
    BY <1>3, <2>1, FS_Subset
  <2> QED BY <1>3, <2>2, <2>3
<1>6. ASSUME Cardinality(R) >= k PROVE n >= k /\ n - k + 1 \in R
  <2>1. Cardinality(R) <= n
    <3>1. Cardinality(1..n) = n
      BY <1>1, FS_Interval
    <3>2. IsFiniteSet(1..n) /\ R \in SUBSET (1..n)
      BY <1>1, <1>2, FS_Interval
    <3>3. Cardinality(R) <= Cardinality(1..n)
      BY <3>2, FS_Subset
    <3> QED BY <3>1, <3>3
  <2>2. n >= k
    BY <1>1, <1>3, <1>6, <2>1
  <2>3. n - k + 1 \in R
    <3> SUFFICES ASSUME n - k + 1 \notin R PROVE FALSE
      OBVIOUS
    <3>1. ASSUME NEW i \in R PROVE i \in (n - k + 2)..n
      <4>1. i \in 1..n
        BY <1>2
      <4>2. ~(i <= n - k + 1)
        <5> SUFFICES ASSUME i <= n - k + 1 PROVE FALSE
          OBVIOUS
        <5>1. n - k + 1 \in i..n
          BY <1>1, <2>2, <4>1
        <5> QED BY <1>2, <5>1
      <4> QED BY <1>1, <4>1, <4>2
    <3>2. n - k + 2 \in Int /\ (IF n - k + 2 > n THEN 0 ELSE n - (n - k + 2) + 1) = k - 1
      BY <1>1, <2>2
    <3>3. IsFiniteSet((n - k + 2)..n) /\ Cardinality((n - k + 2)..n) = k - 1
      BY <1>1, <3>2, FS_Interval
    <3>4. Cardinality(R) <= k - 1
      BY <3>1, <3>3, FS_Subset
    <3> QED BY <1>3, <1>6, <3>4
  <2> QED BY <2>2, <2>3
<1> QED BY <1>4, <1>5, <1>6 DEF n, R

(* A finite set with two elements. *)
LEMMA TwoElements ==
  ASSUME NEW S, IsFiniteSet(S)
  PROVE  Cardinality(S) >= 2 <=> \E x, y \in S : x # y
<1>1. Cardinality(S) \in Nat
  BY FS_CardinalityType
<1>2. ASSUME NEW x \in S, NEW y \in S, x # y PROVE Cardinality(S) >= 2
  <2>1. IsFiniteSet(S \ {x}) /\ Cardinality(S \ {x}) = Cardinality(S) - 1 /\ S \ {x} # {}
    BY <1>2, FS_RemoveElement
  <2>2. Cardinality(S \ {x}) # 0 /\ Cardinality(S \ {x}) \in Nat
    BY <2>1, FS_EmptySet, FS_CardinalityType
  <2> QED BY <1>1, <2>1, <2>2
<1>3. ASSUME Cardinality(S) >= 2 PROVE \E x, y \in S : x # y
  <2>1. S # {}
    BY <1>3, FS_EmptySet
  <2>2. PICK x \in S : TRUE
    BY <2>1
  <2>3. S # {x}
    BY <1>3, FS_Singleton
  <2> QED BY <2>2, <2>3
<1> QED BY <1>2, <1>3

(* The last events, as the properties read them. *)
LEMMA NewestMeans ==
  ASSUME NEW S, NEW s \in Seq(S), NEW k \in Nat, k > 0
  PROVE  /\ Len(Newest(s, k)) = k <=> Len(s) >= k
         /\ Len(s) >= k => \A i \in 1..k : Newest(s, k)[i] = s[Len(s) - k + i]
<1>1. CASE Len(s) < k
  <2>1. Newest(s, k) = SubSeq(s, 1, Len(s))
    BY <1>1 DEF Newest
  <2>2. Len(Newest(s, k)) = Len(s)
    BY <2>1
  <2> QED BY <1>1, <2>2
<1>2. CASE ~(Len(s) < k)
  <2>1. Newest(s, k) = SubSeq(s, Len(s) - k + 1, Len(s))
    BY <1>2 DEF Newest
  <2>2. Len(s) - k + 1 \in 1..Len(s) /\ Len(s) \in Nat
    BY <1>2
  <2>3. Len(Newest(s, k)) = k /\ \A i \in 1..k : Newest(s, k)[i] = s[Len(s) - k + 1 + i - 1]
    BY <2>1, <2>2
  <2>4. \A i \in 1..k : Len(s) - k + 1 + i - 1 = Len(s) - k + i
    BY <2>2
  <2> QED BY <1>2, <2>3, <2>4
<1> QED BY <1>1, <1>2

(* The same failure MaxSame times in a row is what the counter sees. *)
LEMMA RepeatsInHistory == RInv => RepeatIsSameFailure
<1> SUFFICES ASSUME RInv PROVE RepeatIsSameFailure
  OBVIOUS
<1> DEFINE s == m.signatures
           l == Len(s)
           k == Len(failed)
           r == Newest(failed, MaxSame)
<1>1. /\ s \in Seq(Failures) /\ failed \in Seq(Failures) /\ l \in Nat /\ k \in Nat
      /\ MaxSame \in Nat /\ MaxSame > 0 /\ Horizon \in Nat /\ Horizon >= MaxSame
      /\ l = IF k < Horizon THEN k ELSE Horizon
      /\ \A i \in 1..l : s[i] = failed[k - l + i]
  <2>1. s \in Seq(Failures) /\ failed \in Seq(Failures) /\ l \in Nat /\ k \in Nat
    BY MachineParts DEF RInv, HistoryTypeOK
  <2>2. MaxSame \in Nat /\ MaxSame > 0 /\ Horizon \in Nat /\ Horizon >= MaxSame
    BY LadderAssumption DEF Horizon
  <2>3. NewestOf(s, failed, Horizon)
    BY DEF RInv, SignaturesAreNewest
  <2> QED BY <2>1, <2>2, <2>3 DEF NewestOf
<1>2. Repeats(m) >= MaxSame <=> /\ l >= MaxSame
                                /\ \A j \in (l - MaxSame + 1)..l : s[j] = s[l]
  BY <1>1, RepeatsMeans DEF Repeats
<1>3. Len(r) = MaxSame <=> k >= MaxSame
  BY <1>1, NewestMeans
<1>4. k >= MaxSame => \A i \in 1..MaxSame : r[i] = failed[k - MaxSame + i]
  BY <1>1, NewestMeans
<1> HIDE DEF s, l, k, r
<1>5. l >= MaxSame <=> k >= MaxSame
  BY <1>1
<1>6. ASSUME l >= MaxSame, NEW i \in 1..MaxSame
      PROVE  r[i] = s[l - MaxSame + i]
  <2>1. l - MaxSame + i \in 1..l /\ k - l + (l - MaxSame + i) = k - MaxSame + i
    BY <1>1, <1>6
  <2>2. s[l - MaxSame + i] = failed[k - MaxSame + i]
    BY <1>1, <2>1
  <2> QED BY <1>4, <1>5, <1>6, <2>2
<1>7. ASSUME l >= MaxSame
      PROVE  (\A j \in (l - MaxSame + 1)..l : s[j] = s[l])
               <=> \A i \in 1..MaxSame : r[i] = r[MaxSame]
  <2>1. r[MaxSame] = s[l]
    <3>1. MaxSame \in 1..MaxSame /\ l - MaxSame + MaxSame = l
      BY <1>1
    <3> QED BY <1>6, <1>7, <3>1
  <2>2. ASSUME \A j \in (l - MaxSame + 1)..l : s[j] = s[l], NEW i \in 1..MaxSame
        PROVE  r[i] = r[MaxSame]
    <3>1. l - MaxSame + i \in (l - MaxSame + 1)..l
      BY <1>1, <1>7
    <3> QED BY <1>6, <1>7, <2>1, <2>2, <3>1
  <2>3. ASSUME \A i \in 1..MaxSame : r[i] = r[MaxSame], NEW j \in (l - MaxSame + 1)..l
        PROVE  s[j] = s[l]
    <3>1. j - l + MaxSame \in 1..MaxSame /\ l - MaxSame + (j - l + MaxSame) = j
      BY <1>1, <1>7
    <3> QED BY <1>6, <1>7, <2>1, <2>3, <3>1
  <2> QED BY <2>2, <2>3
<1> QED BY <1>2, <1>3, <1>5, <1>7 DEF RepeatIsSameFailure, r

(* Thrash is a streak of failures, not all of a kind. *)
LEMMA CyclingInHistory == RInv => CyclingIsThrash
<1> SUFFICES ASSUME RInv PROVE CyclingIsThrash
  OBVIOUS
<1> DEFINE s == m.signatures
           l == Len(s)
           k == Len(failed)
           n == Len(past)
           st == m.streak
           w == Window
           r == Newest(past, w)
           T == {s[i] : i \in (l - w + 1)..l}
<1>1. /\ s \in Seq(Failures) /\ failed \in Seq(Failures) /\ past \in Seq(Events)
      /\ Horizon \in Nat /\ Horizon >= w
      /\ l = IF k < Horizon THEN k ELSE Horizon
      /\ \A i \in 1..l : s[i] = failed[k - l + i]
  <2>1. s \in Seq(Failures) /\ failed \in Seq(Failures) /\ past \in Seq(Events)
    BY MachineParts DEF RInv, HistoryTypeOK
  <2>2. Horizon \in Nat /\ Horizon >= w
    BY LadderAssumption DEF Horizon
  <2>3. NewestOf(s, failed, Horizon)
    BY DEF RInv, SignaturesAreNewest
  <2> QED BY <2>1, <2>2, <2>3 DEF NewestOf
<1>2. /\ st <= n /\ st <= k
      /\ \A i \in 1..st : /\ past[n - st + i].kind = "failure"
                          /\ past[n - st + i].of = failed[k - st + i]
      /\ st < n => past[n - st].kind = "success"
  BY DEF RInv, StreakIsFailures
<1>n. l \in Nat /\ k \in Nat /\ n \in Nat /\ st \in Nat /\ w \in Nat /\ w > 0
  BY <1>1, MachineParts, LadderAssumption DEF RInv, HistoryTypeOK
<1>3. Cycling(m) <=> st >= w /\ \E x, y \in T : x # y
  <2> DEFINE I == (l - w + 1)..l
             f == [i \in I |-> s[i]]
  <2>1. IsFiniteSet(I)
    <3> HIDE DEF l, w
    <3>1. l - w + 1 \in Int /\ l \in Int
      BY <1>n
    <3> QED BY <3>1, FS_Interval
  <2>2. IsFiniteSet(T)
    <3> HIDE DEF I
    <3>1. f \in Surjection(I, {s[i] : i \in I})
      BY DEF Surjection
    <3> QED BY <2>1, <3>1, FS_Surjection DEF I
  <2>3. Cardinality(T) >= 2 <=> \E x, y \in T : x # y
    <3> HIDE DEF T
    <3> QED BY <2>2, TwoElements
  <2> QED BY <2>3 DEF Cycling
<1>4. Len(r) = w <=> n >= w
  BY <1>1, <1>n, NewestMeans
<1>5. n >= w => \A i \in 1..w : r[i] = past[n - w + i]
  BY <1>1, <1>n, NewestMeans
<1> HIDE DEF s, l, k, n, st, w, r
<1>6. ASSUME st >= w
      PROVE  /\ n >= w /\ l >= w
             /\ \A i \in 1..w : r[i].kind = "failure" /\ r[i].of = s[l - w + i]
  <2>1. n >= w /\ k >= w /\ l >= w
    BY <1>1, <1>2, <1>n, <1>6
  <2>2. ASSUME NEW i \in 1..w PROVE r[i].kind = "failure" /\ r[i].of = s[l - w + i]
    <3>1. st - w + i \in 1..st /\ l - w + i \in 1..l
      BY <1>n, <1>6, <2>1
    <3>2. n - st + (st - w + i) = n - w + i
      BY <1>n
    <3>3. k - st + (st - w + i) = k - w + i /\ k - l + (l - w + i) = k - w + i
      BY <1>n
    <3>4. r[i] = past[n - w + i]
      BY <1>5, <2>1
    <3>5. past[n - w + i].kind = "failure" /\ past[n - w + i].of = failed[k - w + i]
      BY <1>2, <3>1, <3>2, <3>3
    <3>6. s[l - w + i] = failed[k - w + i]
      BY <1>1, <3>1, <3>3
    <3> QED BY <3>4, <3>5, <3>6
  <2> QED BY <2>1, <2>2
<1>7. ASSUME n >= w, \A i \in 1..w : r[i].kind = "failure" PROVE st >= w
  <2> SUFFICES ASSUME st < w PROVE FALSE
    BY <1>n
  <2>1. w - st \in 1..w /\ n - w + (w - st) = n - st /\ st < n
    BY <1>n, <1>7
  <2>2. past[n - st].kind = "failure"
    BY <1>5, <1>7, <2>1
  <2> QED BY <1>2, <2>1, <2>2
<1>8. ASSUME st >= w
      PROVE  (\E x, y \in T : x # y) <=> \E i, j \in 1..w : r[i].of # r[j].of
  <2>1. ASSUME NEW a \in (l - w + 1)..l
        PROVE  a - l + w \in 1..w /\ r[a - l + w].of = s[a]
    <3>1. a - l + w \in 1..w /\ l - w + (a - l + w) = a
      BY <1>n
    <3> QED BY <1>6, <1>8, <3>1
  <2>2. ASSUME NEW x \in T, NEW y \in T, x # y
        PROVE  \E i, j \in 1..w : r[i].of # r[j].of
    <3>1. PICK a \in (l - w + 1)..l, b \in (l - w + 1)..l : x = s[a] /\ y = s[b]
      OBVIOUS
    <3> QED BY <2>1, <2>2, <3>1
  <2>3. ASSUME NEW i \in 1..w, NEW j \in 1..w, r[i].of # r[j].of
        PROVE  \E x, y \in T : x # y
    <3>1. l - w + i \in (l - w + 1)..l /\ l - w + j \in (l - w + 1)..l
      BY <1>n
    <3>2. s[l - w + i] \in T /\ s[l - w + j] \in T
      BY <3>1
    <3> QED BY <1>6, <1>8, <2>3, <3>2
  <2> QED BY <2>2, <2>3
<1> HIDE DEF T
<1>9. Cycling(m) <=> /\ Len(r) = w
                     /\ \A i \in 1..w : r[i].kind = "failure"
                     /\ \E i, j \in 1..w : r[i].of # r[j].of
  BY <1>3, <1>4, <1>6, <1>7, <1>8
<1> QED BY <1>9 DEF CyclingIsThrash, r, w

(* What the counters of the recovery machine claim is what has happened,    *)
(* however failures and successes alternate: thrash and a repeated failure  *)
(* are facts of the history, environment checks are bounded between         *)
(* successes, and a human is asked last (recovery.FailureTracker,           *)
(* RecoveryPolicy).                                                         *)
THEOREM CountersAreEarned == HistorySpec => []SignalsAreEarned
<1>1. RInv => SignalsAreEarned
  BY RepeatsInHistory, CyclingInHistory DEF RInv, SignalsAreEarned
<1> QED BY <1>1, HistoryInitRInv, HistoryStepKeeps, PTL DEF HistorySpec

(* The machine's variables keep their types and its counters fit each other. *)
THEOREM HistoryTypeCorrect == HistorySpec => []HistoryTypeOK
<1>1. RInv => HistoryTypeOK
  BY DEF RInv
<1> QED BY <1>1, HistoryInitRInv, HistoryStepKeeps, PTL DEF HistorySpec
-----------------------------------------------------------------------------
(* The parts together: one runs, the others keep still. *)
PartsInv == IInv /\ RInv /\ FInv /\ WInv

LEMMA PartsInitHolds == PartsInit => PartsInv
BY InitHolds, HistoryInitRInv, FeedInitFInv, InitWInv DEF PartsInit, PartsInv

LEMMA PartsStepKeeps == PartsInv /\ [PartsNext]_PartsVars => PartsInv'
<1> SUFFICES ASSUME PartsInv, [PartsNext]_PartsVars PROVE PartsInv'
  OBVIOUS
<1>1. /\ [Next]_vars /\ [HistoryNext]_historyVars
      /\ [FeedNext]_feedVars /\ [WatchNext]_watchVars
  BY DEF PartsNext, PartsVars, In
<1>2. IInv' /\ RInv'
  BY <1>1, StepKeeps, HistoryStepKeeps DEF PartsInv
<1>3. FInv' /\ WInv'
  BY <1>1, FeedStepKeeps, WatchStepKeeps DEF PartsInv
<1> QED BY <1>2, <1>3 DEF PartsInv

LEMMA WInvTyped == WInv => WatchTypeOK
BY DEF WInv, FilesOK, WatchTypeOK, Contents

(* The variables of all the parts keep their types, and each reported exit  *)
(* code is its process's own, whichever part runs, for any number of        *)
(* handlers, texts, feeds and files and every bound of the model.           *)
THEOREM PartsTyped == PartsSpec => []TypesOK
<1>1. IInv => TypeOK
  BY DEF IInv, TypeOK, TableInv, CodesAreOwn, CallsInv, Calls
<1>2. PartsInv => TypesOK
  BY <1>1, WInvTyped DEF PartsInv, TypesOK, RInv, FInv
<1> QED
  BY <1>2, PartsInitHolds, PartsStepKeeps, PTL DEF PartsSpec
=============================================================================
