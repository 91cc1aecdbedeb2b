------------------------------ MODULE EventFeed ------------------------------
(***************************************************************************)
(* The event stream of one session (events.py) and its server-sent feeds   *)
(* (server.py subscribe, _stream_events).  The session's thread emits; an  *)
(* HTTP thread per feed replays the history into its own queue, attaches a *)
(* callback, and then writes the queue to its client.  The app's lock lets *)
(* one feed at a time subscribe, but the stream has no lock of its own:    *)
(* emit() and subscribe() interleave step by step.                         *)
(*                                                                         *)
(* An event is its seq.  0 is session_started, the last is the terminal    *)
(* event of the session.                                                   *)
(***************************************************************************)
EXTENDS Integers, Sequences, SequencesExt

CONSTANTS Feeds,     \* GET /events requests, each its own HTTP thread
          MaxEmits, \* bound: events the session emits
          HistoryMax \* history_maxlen

ASSUME FeedAssumption == MaxEmits \in Nat \ {0} /\ HistoryMax \in Nat \ {0}

VARIABLES pc,       \* "run", or where in emit() the session's thread is
          seq,      \* _seq
          history,  \* _history
          attached, \* _subscribers, in the order they subscribed
          todo,     \* the copy of them emit() still has to call
          feed,     \* where each HTTP thread is
          replay,   \* the copy of the history it is replaying
          queue,    \* its queue
          sent,     \* the events written to its client
          done,     \* managed.done
          joined,   \* history variable: the seq when a feed attached
          quiet     \* history variable: how many events' emit() was over when
                    \* a feed that is starved or ended found its queue empty

emitter == <<pc, seq, history, todo, done>>
feeds   == <<attached, joined, quiet>>
reader  == <<feed, replay, sent>>
feedVars    == <<emitter, feeds, queue, reader>>

FeedInit == /\ pc = "run" /\ seq = 0 /\ history = <<>> /\ todo = <<>> /\ done = FALSE
        /\ attached = <<>> /\ joined = [f \in Feeds |-> 0]
        /\ quiet = [f \in Feeds |-> 0]
        /\ feed = [f \in Feeds |-> "away"]
        /\ replay = [f \in Feeds |-> <<>>]
        /\ queue = [f \in Feeds |-> <<>>]
        /\ sent = [f \in Feeds |-> <<>>]

(* deque(maxlen): the oldest event makes room. *)
Latest(s) == IF Len(s) > HistoryMax THEN Tail(s) ELSE s

(* emit: a seq, the bounded history, and a copy of the subscribers to call. *)
Emit == /\ pc = "run" /\ seq < MaxEmits
        /\ pc' = "deliver"
        /\ seq' = seq + 1
        /\ history' = Latest(Append(history, seq))
        /\ UNCHANGED <<todo, done, feeds, queue, reader>>

CopySubscribers == /\ pc = "deliver"
                   /\ pc' = "call"
                   /\ todo' = attached
                   /\ UNCHANGED <<seq, history, done, feeds, queue, reader>>

(* Each callback puts the event into its feed's queue. *)
Deliver == /\ pc = "call" /\ todo # <<>>
           /\ queue' = [queue EXCEPT ![Head(todo)] = Append(@, seq - 1)]
           /\ todo' = Tail(todo)
           /\ UNCHANGED <<pc, seq, history, done, feeds, reader>>

Emitted == /\ pc = "call" /\ todo = <<>>
           /\ pc' = "run"
           /\ UNCHANGED <<seq, history, todo, done, feeds, queue, reader>>

(* The session's thread ends after its terminal event. *)
Finish == /\ pc = "run" /\ seq = MaxEmits /\ ~done
          /\ done' = TRUE
          /\ UNCHANGED <<pc, seq, history, todo, feeds, queue, reader>>

Moves(f, from, to) == feed[f] = from /\ feed' = [feed EXCEPT ![f] = to]

(* A feed is in subscribe, which holds the app's lock. *)
Subscribing == \E f \in Feeds : feed[f] \in {"replay", "attach"}

(* Fault: attached before the replay is queued. *)
CopyHistoryLate(f) == /\ Moves(f, "away", "replay") /\ ~Subscribing
                      /\ replay' = [replay EXCEPT ![f] = history]
                      /\ attached' = Append(attached, f)
                      /\ UNCHANGED <<emitter, joined, quiet, queue, sent>>

(* subscribe, under the app's lock: copy the history ... *)
CopyHistory(f) == /\ Moves(f, "away", "replay") /\ ~Subscribing
                  /\ replay' = [replay EXCEPT ![f] = history]
                  /\ UNCHANGED <<emitter, feeds, queue, sent>>

(* ... put it into the queue ... *)
Replay(f) == /\ Moves(f, "replay", "attach")
             /\ queue' = [queue EXCEPT ![f] = @ \o replay[f]]
             /\ UNCHANGED <<emitter, feeds, replay, sent>>

(* ... and attach live. *)
Attach(f) == /\ Moves(f, "attach", "stream")
             /\ attached' = Append(attached, f)
             /\ joined' = [joined EXCEPT ![f] = seq]
             /\ UNCHANGED <<emitter, quiet, queue, replay, sent>>

(* _stream_events: write the next event. *)
Send(f) == /\ feed[f] = "stream" /\ queue[f] # <<>>
           /\ sent' = [sent EXCEPT ![f] = Append(@, Head(queue[f]))]
           /\ queue' = [queue EXCEPT ![f] = Tail(@)]
           /\ UNCHANGED <<emitter, feeds, feed, replay>>

(* How many events' emit() is over: all, or all but the one under delivery. *)
Over == IF pc = "run" THEN seq ELSE seq - 1

(* The queue stayed empty for a second ... *)
Starve(f) == /\ Moves(f, "stream", "starved") /\ queue[f] = <<>>
             /\ quiet' = [quiet EXCEPT ![f] = Over]
             /\ UNCHANGED <<emitter, attached, joined, queue, replay, sent>>

(* ... the stream ends if the session is done by now, and what has come into *)
(* the queue since then stays in it.                                         *)
EndStream(f) == /\ Moves(f, "starved", "ended") /\ done
                /\ UNCHANGED <<emitter, feeds, queue, replay, sent>>

Heartbeat(f) == /\ Moves(f, "starved", "stream") /\ ~done
                /\ quiet' = [quiet EXCEPT ![f] = 0]
                /\ UNCHANGED <<emitter, attached, joined, queue, replay, sent>>

(* The client goes away; its callback stays attached to the stream. *)
Disconnect(f) == /\ feed[f] \in {"stream", "starved"}
                 /\ feed' = [feed EXCEPT ![f] = "gone"]
                 /\ quiet' = [quiet EXCEPT ![f] = 0]
                 /\ UNCHANGED <<emitter, attached, joined, queue, replay, sent>>

Emits    == Emit \/ CopySubscribers \/ Deliver \/ Emitted \/ Finish
Follow(f) == CopyHistory(f) \/ Replay(f) \/ Attach(f) \/ Send(f) \/ Starve(f)
             \/ EndStream(f) \/ Heartbeat(f)

FeedNext == Emits \/ \E f \in Feeds : Follow(f) \/ Disconnect(f)

FeedSpec == FeedInit /\ [][FeedNext]_feedVars

(* The session's thread and the HTTP threads are scheduled. *)
FairFeedSpec == FeedSpec /\ WF_feedVars(Emits) /\ \A f \in Feeds : WF_feedVars(Follow(f))
-----------------------------------------------------------------------------
Seqs == 0..(MaxEmits - 1)

(* What a feed has been given: written to its client, or waiting for it. *)
Given(f) == sent[f] \o queue[f]

(* Every variable has its type, and the history is the newest events. *)
FeedTypeOK ==
    /\ pc \in {"run", "deliver", "call"} /\ seq \in 0..MaxEmits
    /\ history = [i \in 1..(IF seq < HistoryMax THEN seq ELSE HistoryMax) |->
                    (IF seq < HistoryMax THEN 0 ELSE seq - HistoryMax) + i - 1]
    /\ attached \in Seq(Feeds) /\ todo \in Seq(Feeds) /\ done \in BOOLEAN
    /\ joined \in [Feeds -> 0..MaxEmits] /\ quiet \in [Feeds -> 0..MaxEmits]
    /\ feed \in [Feeds -> {"away", "replay", "attach", "stream", "starved",
                           "ended", "gone"}]
    /\ replay \in [Feeds -> Seq(Seqs)]
    /\ queue \in [Feeds -> Seq(Seqs)] /\ sent \in [Feeds -> Seq(Seqs)]

(* A feed shows the run in its order, and no event more than twice: the two   *)
(* ways an event can reach it, replay and callback, never overtake each other *)
(* although they run on different threads (subscribe, emit).                  *)
FeedInOrder ==
    \A f \in Feeds :
        LET g == Given(f)
        IN  /\ \A i \in 1..(Len(g) - 1) : g[i] <= g[i + 1]
            /\ \A i \in 1..(Len(g) - 2) : g[i] < g[i + 2]

(* The events g hold what was replayed to f, and every one emitted since it *)
(* attached, up to the n-th.                                                *)
Holds(f, g, n) == /\ IsPrefix(replay[f], g)
                  /\ \A e \in joined[f]..(n - 1) : \E i \in 1..Len(g) : g[i] = e

(* Once a feed is attached it misses nothing: what was replayed to it, and    *)
(* every event whose emit() began after that, is on its way to the client     *)
(* when that emit() is over, whatever the threads do; all that can be missing *)
(* is what was emitted in between (subscribe).  A stream that ends has        *)
(* written to its client everything up to the poll that found nothing, but    *)
(* not what came between that poll and its look at `done` (_stream_events;    *)
(* FeedsAreDrained below).  A client that went away is promised nothing.      *)
AttachedMissesNothing ==
    \A f \in Feeds :
        /\ feed[f] = "attach" => IsPrefix(replay[f], Given(f))
        /\ feed[f] \in {"stream", "starved"} => Holds(f, Given(f), Over)
        /\ feed[f] \in {"starved", "ended"} => Holds(f, sent[f], quiet[f])

(* A feed shows the run in order, and misses nothing once attached: a feed    *)
(* that subscribes in the middle of an emit() is as good as any other.        *)
FeedIsFaithful == FeedInOrder /\ AttachedMissesNothing

(* docs/s52-spec.md:55-56: "stream ends when the session is terminal and the  *)
(* queue is drained".  The code ends it after an empty poll, looking at done  *)
(* only afterwards: the session's last events can be in the queue by then.    *)
FeedsAreDrained == \A f \in Feeds : feed[f] = "ended" => queue[f] = <<>>

(* A client that stays connected is not left hanging: its feed ends. *)
FeedEnds == \A f \in Feeds : [](feed[f] # "gone") => <>(feed[f] = "ended")
=============================================================================
