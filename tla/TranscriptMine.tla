---------------------------- MODULE TranscriptMine ----------------------------
(***************************************************************************)
(* Sessions of other agents mined into the experience store: opencode_mine *)
(* (and zcode_mine, its subclass) over a database that the other agent     *)
(* goes on writing, and labdb_mine over the transcripts a colony keeps     *)
(* when it drops a session.  A transcript is a sequence of parts.          *)
(***************************************************************************)
EXTENDS Integers, Sequences, FiniteSets, SequencesExt

CONSTANTS Sessions,    \* the sessions of the other agent, by age: 1..n
          Parts,       \* the parts that may be added to one
          Transcripts, \* what a session may hold when the miner is started
          Placeholder, \* the goal of a substantial session without one
          Nothing,     \* no goal, no error, no row
          Substantial, \* SUBSTANTIAL_GOAL_LESS_PARTS
          MaxPairs,    \* MAX_FAILURE_PAIRS
          MaxGrowth,   \* bound: parts written while the miner may run
          MaxRuns      \* bound: runs of a miner

MineAssumption == /\ {Substantial, MaxPairs, MaxRuns} \subseteq Nat \ {0} /\ MaxGrowth \in Nat
                  /\ Sessions = 1..Cardinality(Sessions)

VARIABLES parts,   \* the database: session -> its parts
          kept,    \* lab.db: the transcripts kept, by age
          written, \* session -> every part ever written
          learnt,  \* the store: goal -> its row, or Nothing
          miner,   \* the run of a miner
          growth, sweeps

mineVars == <<parts, kept, written, learnt, miner, growth, sweeps>>

-----------------------------------------------------------------------------
(* A part is the text of a user (a goal, or Nothing for a boilerplate), the *)
(* output of a tool (its lines with the shape of an error), or a patch.     *)
Says(p)     == IF p.kind = "user" THEN p.text ELSE Nothing
Header      == "Traceback"
StrongIn(p) == IF p.kind = "tool" /\ SelectSeq(p.lines, LAMBDA l : l # Header) # <<>>
               THEN SelectSeq(p.lines, LAMBDA l : l # Header)[1] ELSE Nothing
HeaderIn(p) == /\ p.kind = "tool" /\ p.lines # <<>> /\ p.lines[1] = Header

(* The first text of a user that is no boilerplate (_user_text). *)
GoalOf(s) == LET said == {i \in DOMAIN s : Says(s[i]) # Nothing}
             IN  IF said = {} THEN Nothing
                 ELSE Says(s[CHOOSE i \in said : \A j \in said : i <= j])

(* The scan of _error_patch: the open error, whether a patch came since,    *)
(* and the pairs so far.  A bare header counts only when nothing else does. *)
Scan == [error |-> Nothing, patched |-> FALSE, pairs |-> <<>>, full |-> FALSE,
         weak |-> FALSE, weakPatched |-> FALSE]
Pair(c) == [error |-> c.error, fixed |-> c.patched]
Noted(c, p) == [c EXCEPT !.weak = @ \/ HeaderIn(p)]

NextError(c, e) ==
    IF c.error = Nothing THEN [c EXCEPT !.error = e, !.patched = FALSE]
    ELSE IF Len(c.pairs) >= MaxPairs THEN [c EXCEPT !.full = TRUE]
    ELSE [c EXCEPT !.pairs = Append(@, Pair(c)), !.error = e, !.patched = FALSE]

Scanned(c, p) ==
    IF c.full THEN c
    ELSE IF p.kind = "patch"
      THEN IF c.error # Nothing THEN [c EXCEPT !.patched = TRUE]
                                ELSE [c EXCEPT !.weakPatched = @ \/ c.weak]
    ELSE IF StrongIn(p) \notin {Nothing, c.error} THEN NextError(Noted(c, p), StrongIn(p))
    ELSE Noted(c, p)

PairsOf(c) == IF c.error # Nothing /\ Len(c.pairs) < MaxPairs
              THEN Append(c.pairs, Pair(c)) ELSE c.pairs

ErrorPatch(s) == FoldLeft(Scanned, Scan, s)

(* The same scan in labdb_mine, which has no fall-back and goes on past the *)
(* cap: the error that did not fit stays the open one.                      *)
LabScanned(c, p) ==
    IF p.kind = "patch" THEN [c EXCEPT !.patched = @ \/ c.error # Nothing]
    ELSE IF StrongIn(p) \in {Nothing, c.error} THEN c
    ELSE IF c.error # Nothing /\ Len(c.pairs) >= MaxPairs THEN c
    ELSE NextError(c, StrongIn(p))
LabErrorPatch(s) == FoldLeft(LabScanned, Scan, s)

-----------------------------------------------------------------------------
(* What a session teaches.  The first pair, or the header, is the failure. *)
Lesson(s, c, sure) ==
    LET pairs == PairsOf(c)
    IN  [session |-> s, times |-> 1, pairs |-> pairs, sure |-> sure,
         failure |-> IF pairs # <<>> THEN pairs[1].error ELSE IF c.weak THEN Header ELSE Nothing,
         fixed   |-> IF pairs # <<>> THEN pairs[1].fixed ELSE c.weakPatched]

(* record(): one row for a goal, under the lock of the store. *)
Reinforced(row, new) == [row EXCEPT !.times = @ + 1, !.sure = new.sure,
                                    !.fixed = @ \/ new.fixed]
Recorded(goal, new) ==
    [learnt EXCEPT ![goal] = IF @ = Nothing THEN new ELSE Reinforced(@, new)]

NoRun == [of |-> "none", todo |-> <<>>, goal |-> Nothing, volume |-> 0, read |-> "none", dry |-> FALSE,
          seen |-> 0, mined |-> 0, again |-> 0, trivial |-> 0, errors |-> 0, rows |-> 0]
Goals == ({p.text : p \in {q \in Parts : q.kind = "user"}} \ {Nothing}) \cup {Placeholder}
RowCount == Cardinality({g \in Goals : learnt[g] # Nothing})

MineInit == /\ parts \in [Sessions -> Transcripts] /\ written = parts
            /\ kept = <<>>
            /\ learnt = [g \in Goals |-> Nothing]
            /\ miner = NoRun /\ growth = 0 /\ sweeps = 0

(* The other agent writes on. *)
Grow(s, p) == /\ growth < MaxGrowth /\ parts[s] # <<>>
              /\ parts' = [parts EXCEPT ![s] = Append(@, p)]
              /\ written' = [written EXCEPT ![s] = Append(@, p)]
              /\ growth' = growth + 1
              /\ UNCHANGED <<kept, learnt, miner, sweeps>>

(* The colony keeps the transcript of a session and drops the session. *)
Collect(s) == /\ parts[s] # <<>>
              /\ kept' = Append(kept, [of |-> s, parts |-> parts[s]])
              /\ parts' = [parts EXCEPT ![s] = <<>>]
              /\ UNCHANGED <<written, learnt, miner, growth, sweeps>>

(* A run begins with the list of the sessions, or transcripts, oldest first. *)
LiveSessions == SetToSortSeq({s \in Sessions : parts[s] # <<>>}, <)
Listed(of) == IF of = "labdb" THEN kept ELSE LiveSessions
ListSessions(of, dry) ==
    /\ miner.of = "none" /\ sweeps < MaxRuns
    /\ miner' = [NoRun EXCEPT !.of = of, !.todo = Listed(of), !.dry = dry, !.rows = RowCount]
    /\ sweeps' = sweeps + 1
    /\ UNCHANGED <<parts, kept, written, learnt, growth>>

Mining(of) == miner.of = of /\ miner.todo # <<>>
Done == [miner EXCEPT !.todo = Tail(@), !.seen = @ + 1, !.goal = Nothing, !.volume = 0,
                      !.read = "none"]
GoalUsed(goal, volume) == IF goal # Nothing THEN goal
                          ELSE IF volume < Substantial THEN Nothing ELSE Placeholder

(* What is learnt goes to the store, unless the run is a dry one. *)
Learn(goal, new) ==
    IF goal = Nothing
    THEN miner' = [Done EXCEPT !.trivial = @ + 1] /\ UNCHANGED learnt
    ELSE /\ learnt' = IF miner.dry THEN learnt ELSE Recorded(goal, new)
         /\ miner' = [Done EXCEPT !.mined = @ + 1,
                         !.again = IF ~miner.dry /\ learnt[goal] # Nothing THEN @ + 1 ELSE @]

(* The volume of a session is read, then its goal, and then its errors:     *)
(* queries of a database that changes in between.                           *)
ReadVolume == /\ Mining("opencode") /\ miner.read = "none"
              /\ miner' = [miner EXCEPT !.volume = Len(parts[Head(miner.todo)]), !.read = "volume"]
              /\ UNCHANGED <<parts, kept, written, learnt, growth, sweeps>>

ReadGoal == /\ Mining("opencode") /\ miner.read = "volume"
            /\ miner' = [miner EXCEPT !.goal = GoalOf(parts[Head(miner.todo)]), !.read = "goal"]
            /\ UNCHANGED <<parts, kept, written, learnt, growth, sweeps>>

ReadErrors == /\ Mining("opencode") /\ miner.read = "goal"
              /\ LET s == Head(miner.todo)
                     goal == GoalUsed(miner.goal, miner.volume)
                 IN  Learn(goal, Lesson(s, ErrorPatch(parts[s]), FALSE))
              /\ UNCHANGED <<parts, kept, written, growth, sweeps>>

(* labdb_mine reads a transcript once; done cycles are surer. *)
MineKept == /\ Mining("labdb")
            /\ \E completed \in BOOLEAN :
                  LET t == Head(miner.todo)
                      goal == GoalUsed(GoalOf(t.parts), Len(t.parts))
                  IN  Learn(goal, Lesson(t.of, LabErrorPatch(t.parts), completed))
            /\ UNCHANGED <<parts, kept, written, growth, sweeps>>

(* A session that cannot be read is counted, and the run goes on. *)
SkipBroken == /\ miner.of # "none" /\ miner.todo # <<>>
              /\ miner' = [Done EXCEPT !.errors = @ + 1]
              /\ UNCHANGED <<parts, kept, written, learnt, growth, sweeps>>

EndRun == /\ miner.of # "none" /\ miner.todo = <<>>
          /\ miner' = NoRun
          /\ UNCHANGED <<parts, kept, written, learnt, growth, sweeps>>

MineNext == \/ \E s \in Sessions : Collect(s) \/ \E p \in Parts : Grow(s, p)
            \/ \E of \in {"opencode", "labdb"}, dry \in BOOLEAN : ListSessions(of, dry)
            \/ ReadVolume \/ ReadGoal \/ ReadErrors \/ MineKept \/ SkipBroken \/ EndRun

MineSpec == MineInit /\ [][MineNext]_mineVars

-----------------------------------------------------------------------------
MineTypeOK ==
    /\ \A s \in Sessions : parts[s] \in {<<>>, written[s]}
    /\ \A t \in Range(kept) : t.parts = written[t.of] /\ parts[t.of] = <<>>
    /\ \A g \in Goals : learnt[g] # Nothing => learnt[g].session \in Sessions
    /\ miner.of \in {"none", "opencode", "labdb"} /\ growth \in 0..MaxGrowth /\ sweeps \in 0..MaxRuns

(* The cycles of a transcript, by definition: each error that differs from  *)
(* the one before it opens one, which ends at the next such error and is    *)
(* fixed when it has a patch.                                               *)
Opens(s) == {i \in DOMAIN s : /\ StrongIn(s[i]) # Nothing
                              /\ \A h \in 1..(i - 1) :
                                    /\ StrongIn(s[h]) # Nothing
                                    /\ \A k \in (h + 1)..(i - 1) : StrongIn(s[k]) = Nothing
                                    => StrongIn(s[h]) # StrongIn(s[i])}
Cycles(s) ==
    LET opens == SetToSortSeq(Opens(s), <)
        end(n) == IF n = Len(opens) THEN Len(s) ELSE opens[n + 1] - 1
    IN  [n \in 1..(IF Len(opens) < MaxPairs THEN Len(opens) ELSE MaxPairs) |->
            [error |-> StrongIn(s[opens[n]]),
             fixed |-> \E i \in opens[n]..end(n) : s[i].kind = "patch"]]

(* The pairs of a row are the cycles of the session it was first mined      *)
(* from, as it stood at some moment, and the two miners agree on them (S62, *)
(* S75.12).                                                                 *)
PairsAreCycles ==
    /\ \A g \in Goals : learnt[g] # Nothing =>
          learnt[g].pairs \in {Cycles(SubSeq(written[learnt[g].session], 1, n)) :
                                  n \in 0..Len(written[learnt[g].session])}
    /\ \A s \in Sessions : PairsOf(ErrorPatch(written[s])) = PairsOf(LabErrorPatch(written[s]))

(* No fix without a failure before it: where a row says that something was  *)
(* fixed, some session wrote a patch after an error.                        *)
FixesFollowFailures ==
    \A g \in Goals : learnt[g] # Nothing /\ learnt[g].fixed =>
        \E s \in Sessions : \E i, j \in DOMAIN written[s] :
            /\ i < j /\ written[s][j].kind = "patch"
            /\ StrongIn(written[s][i]) # Nothing \/ HeaderIn(written[s][i])

(* The counts of a run add up: every session listed is mined, trivial or    *)
(* broken, what is not new is reinforced, and a dry run writes nothing.     *)
CountsAddUp ==
    miner.of # "none" => /\ miner.seen = miner.mined + miner.trivial + miner.errors
                         /\ RowCount = miner.rows + (IF miner.dry THEN 0
                                                     ELSE miner.mined - miner.again)
===============================================================================
