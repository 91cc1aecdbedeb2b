--------------------------- MODULE MCRuntimeParts ---------------------------
(***************************************************************************)
(* Parts of the runtime that share no state, in one run of TLC: managed    *)
(* processes, a recovery machine with its history, an event stream with    *)
(* its feeds, the archive watcher.  Which one runs is chosen at the start, *)
(* so the states are the union of theirs.                                  *)
(***************************************************************************)
EXTENDS ProcessManager, RecoveryHistory, EventFeed, ArchiveWatch

CONSTANTS c1, c2, e1, t1, f1, f2, n1, n2, o1

TwoCallers == {c1, c2}
TwoTexts == {e1, t1}
OneText == {e1}
TwoFeeds == {f1, f2}
TwoNotes == {n1, n2}
OneOther == {o1}

VARIABLE part \* the component that runs

PartsInit == /\ part \in {"processes", "recovery", "feed", "watch"}
             /\ Init /\ HistoryInit /\ FeedInit /\ WatchInit

PartsVars == <<part, vars, historyVars, feedVars, watchVars>>

(* Part p takes a step A, the others keep still. *)
In(p, A) == /\ part = p /\ A
            /\ IF p = "processes" THEN TRUE ELSE UNCHANGED vars
            /\ IF p = "recovery" THEN TRUE ELSE UNCHANGED historyVars
            /\ IF p = "feed" THEN TRUE ELSE UNCHANGED feedVars
            /\ IF p = "watch" THEN TRUE ELSE UNCHANGED watchVars
            /\ UNCHANGED part

PartsNext == \/ In("processes", Next)
             \/ In("recovery", HistoryNext)
             \/ In("feed", FeedNext)
             \/ In("watch", WatchNext)

PartsSpec == /\ PartsInit /\ [][PartsNext]_PartsVars
             /\ \A c \in Callers : WF_PartsVars(In("processes", Continue(c)))
             /\ WF_PartsVars(In("feed", Emits))
             /\ \A f \in Feeds : WF_PartsVars(In("feed", Follow(f)))
             /\ WF_PartsVars(In("watch", Daemon))

(* The variables of every part have their types (see the modules). *)
TypesOK == TypeOK /\ HistoryTypeOK /\ FeedTypeOK /\ WatchTypeOK

(* Every call of a process tool returns (ProcessManager), the feed of a    *)
(* connected client ends (EventFeed), and notes left alone get digested    *)
(* while the watcher runs (ArchiveWatch).                                  *)
PartsComplete == /\ CallsReturn
                 /\ part = "feed" => FeedEnds
                 /\ part = "watch" => NotesGetDigested
=============================================================================
