----------------------- MODULE ProcessManager_proofs ------------------------
(***************************************************************************)
(* Proofs about ProcessManager: types, honest statuses and restarts, for   *)
(* any number of handlers and of processes.                                *)
(***************************************************************************)
EXTENDS ProcessManager, SequenceTheorems, TLAPS

Settling == {"mark", "code", "ended", "final", "spawn", "woken"}

(* At these places the handler knows that its process has ended. *)
Settled == \A c \in Callers : call[c].at \in Settling => ~TargetAlive(c)

(* What a process replaces was started before it. *)
ReplacesEarlier == \A h \in DOMAIN procs : procs[h].replaces < h

(* The part of HonestStatus that is about the processes ... *)
EndedIsDead == \A h \in DOMAIN procs : procs[h].state # "running" => ~Alive(h)

(* ... and the part that is about the handlers. *)
CodeFollows == \A h \in DOMAIN procs :
    procs[h].state # "running" /\ procs[h].exit_code # procs[h].code
        => \E c \in Callers : call[c].handle = h /\ call[c].at \in {"code", "final"}

CodesAreOwn == \A h \in DOMAIN procs : procs[h].exit_code \in {"none", procs[h].code}

(* What is about the table of processes alone. *)
TableInv == /\ procs \in Seq(Process)
            /\ CodesAreOwn /\ EndedIsDead /\ RestartReplaces /\ ReplacesEarlier

Calls == [op : Tools \cup {"none", "replace"}, at : Points, handle : Nat]

CallsInv == /\ call \in [Callers -> Calls]
            /\ \A c \in Callers : call[c] = NoCall \/ call[c].handle \in DOMAIN procs
            /\ \A c \in Callers : call[c].at = "idle" => call[c] = NoCall

IInv == TableInv /\ CallsInv /\ CodeFollows /\ Settled

(* Nothing is forgotten and nothing comes back to life. *)
Ages == \A h \in DOMAIN procs : /\ h \in DOMAIN procs'
                                /\ procs[h].code # "none" => procs'[h].code # "none"
                                /\ procs'[h].replaces = procs[h].replaces

(* No status changes, but that a process that is said to run may be new. *)
Steady == \A h \in DOMAIN procs' :
    procs'[h].state = "running" \/ (h \in DOMAIN procs /\ procs'[h] = procs[h])

-----------------------------------------------------------------------------
LEMMA RowTyped ==
    ASSUME TableInv, NEW h \in DOMAIN procs
    PROVE  procs[h] \in Process
  BY ElementOfSeq DEF TableInv

(* What a process replaces is in the table. *)
LEMMA Replaced ==
    ASSUME TableInv
    PROVE  \A h \in DOMAIN procs :
               procs[h].replaces # 0 => procs[h].replaces \in DOMAIN procs
  <1> SUFFICES ASSUME NEW h \in DOMAIN procs, procs[h].replaces # 0
               PROVE  procs[h].replaces \in DOMAIN procs
    OBVIOUS
  <1>1. procs[h].replaces \in Nat
    BY RowTyped DEF Process
  <1> QED
    BY <1>1, LenProperties DEF TableInv, ReplacesEarlier

(* One process of the table changes, and keeps what the table must keep. *)
LEMMA RowKeeps ==
    ASSUME TableInv, NEW h \in DOMAIN procs, NEW p \in Process,
           procs' = [procs EXCEPT ![h] = p],
           procs[h].code # "none" => p.code # "none",
           p.replaces = procs[h].replaces,
           p.exit_code \in {"none", p.code},
           p.state # "running" => p.code # "none"
    PROVE  TableInv' /\ Ages /\ DOMAIN procs' = DOMAIN procs /\ procs'[h] = p
           /\ \A k \in DOMAIN procs : k # h => procs'[k] = procs[k]
  <1>1. /\ procs' \in Seq(Process) /\ DOMAIN procs' = DOMAIN procs
        /\ procs'[h] = p /\ \A k \in DOMAIN procs : k # h => procs'[k] = procs[k]
    BY ExceptSeq DEF TableInv
  <1>2. Ages
    BY <1>1 DEF Ages
  <1>3. CodesAreOwn' /\ EndedIsDead'
    BY <1>1 DEF TableInv, CodesAreOwn, EndedIsDead, Alive
  <1>4. ReplacesEarlier'
    BY <1>1 DEF TableInv, ReplacesEarlier
  <1>5. RestartReplaces'
    BY <1>1, <1>2, Replaced DEF TableInv, RestartReplaces, Ages, Alive
  <1> QED
    BY <1>1, <1>2, <1>3, <1>4, <1>5 DEF TableInv

(* A process ends; by itself or by a kill. *)
LEMMA DiesKeeps ==
    ASSUME TableInv, NEW h \in DOMAIN procs, NEW by \in {"own", "killed"}, Dies(h, by)
    PROVE  TableInv' /\ Ages /\ Steady
  <1> DEFINE p == [procs[h] EXCEPT !.code = by]
  <1>1. procs[h] \in Process /\ procs[h].code = "none"
    BY RowTyped DEF Dies, Alive
  <1>2. procs[h].state = "running" /\ procs[h].exit_code = "none"
    BY <1>1 DEF TableInv, EndedIsDead, CodesAreOwn, Alive
  <1>3. /\ p \in Process /\ p.code = by /\ p.replaces = procs[h].replaces
        /\ p.exit_code = "none" /\ p.state = "running"
    BY <1>1, <1>2 DEF Process
  <1>4. procs' = [procs EXCEPT ![h] = p]
    BY DEF Dies
  <1> HIDE DEF p
  <1>5. /\ TableInv' /\ Ages /\ DOMAIN procs' = DOMAIN procs /\ procs'[h] = p
        /\ \A k \in DOMAIN procs : k # h => procs'[k] = procs[k]
    BY <1>3, <1>4, RowKeeps
  <1> QED
    BY <1>3, <1>5 DEF Steady

(* A state is written of a process that has ended. *)
LEMMA ReportKeeps ==
    ASSUME TableInv, NEW c \in Callers, call[c].handle \in DOMAIN procs,
           ~TargetAlive(c), NEW state \in {"exited", "stopped"}, Report(c, state)
    PROVE  /\ TableInv' /\ Ages /\ DOMAIN procs' = DOMAIN procs
           /\ \A k \in DOMAIN procs : k # call[c].handle => procs'[k] = procs[k]
  <1> DEFINE h == call[c].handle
             p == [procs[h] EXCEPT !.state = state]
  <1>1. procs[h] \in Process /\ procs[h].code # "none"
    BY RowTyped DEF TargetAlive, Alive
  <1>2. /\ p \in Process /\ p.code = procs[h].code /\ p.replaces = procs[h].replaces
        /\ p.exit_code = procs[h].exit_code
    BY <1>1 DEF Process
  <1>3. procs' = [procs EXCEPT ![h] = p]
    BY DEF Report
  <1>4. p.exit_code \in {"none", p.code}
    BY <1>2 DEF TableInv, CodesAreOwn
  <1> HIDE DEF p
  <1> QED
    BY <1>1, <1>2, <1>3, <1>4, RowKeeps

(* The exit code of a process that has ended is written. *)
LEMMA CodeKeeps ==
    ASSUME TableInv, NEW c \in Callers, call[c].handle \in DOMAIN procs, ~TargetAlive(c),
           procs' = [procs EXCEPT ![call[c].handle].exit_code = Target(c).code]
    PROVE  /\ TableInv' /\ Ages /\ DOMAIN procs' = DOMAIN procs
           /\ procs'[call[c].handle].exit_code = procs'[call[c].handle].code
           /\ \A k \in DOMAIN procs : k # call[c].handle => procs'[k] = procs[k]
  <1> DEFINE h == call[c].handle
             p == [procs[h] EXCEPT !.exit_code = procs[h].code]
  <1>1. procs[h] \in Process /\ procs[h].code # "none"
    BY RowTyped DEF TargetAlive, Alive
  <1>2. /\ p \in Process /\ p.code = procs[h].code /\ p.replaces = procs[h].replaces
        /\ p.exit_code = p.code
    BY <1>1 DEF Process
  <1>3. procs' = [procs EXCEPT ![h] = p]
    BY DEF Target
  <1> HIDE DEF p
  <1> QED
    BY <1>1, <1>2, <1>3, RowKeeps

(* A process is started, in the place of none or of one that has ended. *)
LEMMA AppendKeeps ==
    ASSUME TableInv, NEW old \in Nat, procs' = Append(procs, Fresh(old)),
           old # 0 => old \in DOMAIN procs /\ ~Alive(old)
    PROVE  TableInv' /\ Ages /\ Steady
  <1> DEFINE n == Len(procs) + 1
  <1>1. Fresh(old) \in Process
    BY DEF Fresh, Process
  <1>2. /\ Fresh(old).state = "running" /\ Fresh(old).replaces = old
        /\ Fresh(old).exit_code = "none"
    BY DEF Fresh
  <1>3. procs \in Seq(Process)
    BY DEF TableInv
  <1>4. /\ procs' \in Seq(Process) /\ DOMAIN procs' = DOMAIN procs \cup {n}
        /\ procs'[n] = Fresh(old) /\ \A k \in DOMAIN procs : procs'[k] = procs[k]
    BY <1>1, <1>3, AppendProperties
  <1>5. Ages /\ Steady
    BY <1>2, <1>4 DEF Ages, Steady
  <1>6. CodesAreOwn' /\ EndedIsDead'
    BY <1>2, <1>4 DEF TableInv, CodesAreOwn, EndedIsDead, Alive
  <1>7. old < n
    BY <1>3, LenProperties
  <1>8. ReplacesEarlier'
    BY <1>2, <1>4, <1>7 DEF TableInv, ReplacesEarlier
  <1>9. RestartReplaces'
    BY <1>2, <1>4, Replaced DEF TableInv, RestartReplaces, Alive
  <1> QED
    BY <1>4, <1>5, <1>6, <1>8, <1>9 DEF TableInv

LEMMA Unchanging ==
    ASSUME TableInv, UNCHANGED procs
    PROVE  TableInv' /\ Ages /\ Steady
  BY DEF TableInv, CodesAreOwn, EndedIsDead, RestartReplaces, ReplacesEarlier, Alive,
         Ages, Steady

-----------------------------------------------------------------------------
(* What may be put into call: nothing, or a step of a handler that has a    *)
(* handle, and whose process has ended if the step is one that knows so.    *)
Allowed(e) ==
    \/ e = NoCall
    \/ /\ e \in Calls /\ e.at # "idle" /\ e.handle \in DOMAIN procs
       /\ e.at \in Settling => ~Alive(e.handle)

LEMMA NoCallAllowed == Allowed(NoCall)
  BY DEF Allowed

(* One handler's step keeps the invariant if it keeps that of the table. *)
LEMMA CallKeeps ==
    ASSUME IInv, TableInv', Ages, NEW c \in Callers, NEW e, Allowed(e),
           call' = [call EXCEPT ![c] = e], CodeFollows'
    PROVE  IInv'
  <1>1. CallsInv
    BY DEF IInv
  <1>2. NoCall \in Calls /\ NoCall.at = "idle"
    BY DEF NoCall, Points, Calls
  <1>3. call'[c] = e /\ \A d \in Callers \ {c} : call'[d] = call[d]
    BY <1>1 DEF CallsInv
  <1>4. CallsInv'
    BY <1>1, <1>2, <1>3 DEF CallsInv, Ages, Allowed
  <1>5. Settled'
    <2> SUFFICES ASSUME NEW d \in Callers, call'[d].at \in Settling
                 PROVE  procs'[call'[d].handle].code # "none"
      BY DEF Settled, TargetAlive, Alive
    <2>1. "idle" \notin Settling
      BY DEF Settling
    <2>2. CASE d = c
      <3>1. e.handle \in DOMAIN procs /\ procs[e.handle].code # "none"
        BY <1>2, <1>3, <2>1, <2>2 DEF Allowed, Alive
      <3> QED
        BY <1>3, <2>2, <3>1 DEF Ages
    <2>3. CASE d # c
      <3>1. call[d].handle \in DOMAIN procs /\ procs[call[d].handle].code # "none"
        BY <1>1, <1>2, <1>3, <2>1, <2>3
           DEF IInv, Settled, TargetAlive, Alive, CallsInv
      <3> QED
        BY <1>3, <2>3, <3>1 DEF Ages
    <2> QED
      BY <2>2, <2>3
  <1> QED
    BY <1>4, <1>5 DEF IInv

(* A step that leaves all statuses alone and does not owe a code. *)
LEMMA SteadyKeeps ==
    ASSUME IInv, TableInv', Ages, Steady, NEW c \in Callers, NEW e, Allowed(e),
           call' = [call EXCEPT ![c] = e], call[c].at \notin {"code", "final"}
    PROVE  IInv'
  <1>1. call \in [Callers -> Calls]
    BY DEF IInv, CallsInv
  <1>2. CodeFollows'
    <2> SUFFICES ASSUME NEW h \in DOMAIN procs', procs'[h].state # "running",
                        procs'[h].exit_code # procs'[h].code
                 PROVE  \E d \in Callers : /\ call'[d].handle = h
                                           /\ call'[d].at \in {"code", "final"}
      BY DEF CodeFollows
    <2>1. h \in DOMAIN procs /\ procs'[h] = procs[h]
      BY DEF Steady
    <2>2. PICK d \in Callers : call[d].handle = h /\ call[d].at \in {"code", "final"}
      BY <2>1 DEF IInv, CodeFollows
    <2>3. call'[d] = call[d]
      BY <1>1, <2>2
    <2> QED
      BY <2>2, <2>3
  <1> QED
    BY <1>2, CallKeeps

(* What a busy handler is sure of. *)
LEMMA Busy ==
    ASSUME IInv, NEW c \in Callers, call[c].at # "idle"
    PROVE  /\ TableInv /\ call[c] \in Calls /\ call[c].handle \in DOMAIN procs
           /\ call[c].at \in Settling => ~TargetAlive(c)
           /\ Target(c).state # "running" => ~TargetAlive(c)
  <1>1. call[c] \in Calls /\ call[c].handle \in DOMAIN procs
    BY DEF IInv, CallsInv, NoCall
  <1> QED
    BY <1>1 DEF IInv, Settled, TableInv, EndedIsDead, Target, TargetAlive

(* A busy handler goes on to another place: what that needs. *)
LEMMA GotoAllowed ==
    ASSUME IInv, NEW c \in Callers, NEW from, NEW to \in Points,
           Goto(c, from, to), from # "idle", to # "idle",
           to \in Settling => ~TargetAlive(c),
           NEW e, e = [call[c] EXCEPT !.at = to]
    PROVE  Allowed(e) /\ call' = [call EXCEPT ![c] = e] /\ call[c].at = from
  <1>1. call[c].at = from /\ call' = [call EXCEPT ![c] = e]
    BY DEF Goto
  <1>2. call[c] \in Calls /\ call[c].handle \in DOMAIN procs
    BY <1>1, Busy
  <1>3. e \in Calls /\ e.at = to /\ e.handle = call[c].handle
    BY <1>2 DEF Calls
  <1>4. Allowed(e)
    BY <1>2, <1>3 DEF Allowed, TargetAlive
  <1> QED
    BY <1>1, <1>4

LEMMA GotoKeeps ==
    ASSUME IInv, TableInv', Ages, Steady, NEW c \in Callers, NEW from, NEW to \in Points,
           Goto(c, from, to), from \notin {"idle", "code", "final"}, to # "idle",
           to \in Settling => ~TargetAlive(c)
    PROVE  IInv'
  <1>1. PICK e : e = [call[c] EXCEPT !.at = to]
    OBVIOUS
  <1>2. Allowed(e) /\ call' = [call EXCEPT ![c] = e] /\ call[c].at = from
    BY <1>1, GotoAllowed
  <1> QED
    BY <1>2, SteadyKeeps

(* The state is written, and the code is owed from then on. *)
LEMMA GotoReportKeeps ==
    ASSUME IInv, NEW c \in Callers, NEW from, NEW to \in {"code", "final"},
           NEW state \in {"exited", "stopped"},
           Goto(c, from, to), Report(c, state), from \in {"mark", "ended", "woken"}
    PROVE  IInv'
  <1>1. call[c].at = from
    BY DEF Goto
  <1>2. /\ TableInv /\ call[c] \in Calls /\ call[c].handle \in DOMAIN procs
        /\ ~TargetAlive(c)
    BY <1>1, Busy DEF Settling
  <1>3. /\ TableInv' /\ Ages /\ DOMAIN procs' = DOMAIN procs
        /\ \A k \in DOMAIN procs : k # call[c].handle => procs'[k] = procs[k]
    BY <1>2, ReportKeeps
  <1>e. PICK e : e = [call[c] EXCEPT !.at = to]
    OBVIOUS
  <1>4. Allowed(e) /\ call' = [call EXCEPT ![c] = e]
    <2>1. to \in Points /\ to # "idle" /\ from # "idle"
      BY DEF Points
    <2> QED
      BY <1>2, <1>e, <2>1, GotoAllowed
  <1>5. call'[c].handle = call[c].handle /\ call'[c].at = to
    BY <1>2, <1>4, <1>e DEF IInv, CallsInv, Calls
  <1>6. \A d \in Callers \ {c} : call'[d] = call[d]
    BY <1>4 DEF IInv, CallsInv
  <1>7. CodeFollows'
    <2> SUFFICES ASSUME NEW h \in DOMAIN procs, procs'[h].state # "running",
                        procs'[h].exit_code # procs'[h].code
                 PROVE  \E d \in Callers : /\ call'[d].handle = h
                                           /\ call'[d].at \in {"code", "final"}
      BY <1>3 DEF CodeFollows
    <2>1. CASE h = call[c].handle
      BY <1>5, <2>1
    <2>2. CASE h # call[c].handle
      <3>1. procs'[h] = procs[h]
        BY <1>3, <2>2
      <3>2. PICK d \in Callers : call[d].handle = h /\ call[d].at \in {"code", "final"}
        BY <3>1 DEF IInv, CodeFollows
      <3> QED
        BY <1>6, <2>2, <3>2
    <2> QED
      BY <2>1, <2>2
  <1> QED
    BY <1>3, <1>4, <1>7, CallKeeps

-----------------------------------------------------------------------------
LEMMA SetCodeKeeps ==
    ASSUME IInv, NEW c \in Callers, SetCode(c)
    PROVE  IInv'
  <1>1. PICK from \in {"code", "final"}, to \in {"got", "spawn", "answer"} :
            Goto(c, from, to)
    BY DEF SetCode
  <1>2. call[c].at = from /\ from # "idle" /\ to # "idle"
    BY <1>1 DEF Goto
  <1>3. /\ TableInv /\ call[c] \in Calls /\ call[c].handle \in DOMAIN procs
        /\ ~TargetAlive(c)
    BY <1>2, Busy DEF Settling
  <1>4. /\ TableInv' /\ Ages /\ DOMAIN procs' = DOMAIN procs
        /\ procs'[call[c].handle].exit_code = procs'[call[c].handle].code
        /\ \A k \in DOMAIN procs : k # call[c].handle => procs'[k] = procs[k]
    BY <1>3, CodeKeeps DEF SetCode
  <1>e. PICK e : e = [call[c] EXCEPT !.at = to]
    OBVIOUS
  <1>5. Allowed(e) /\ call' = [call EXCEPT ![c] = e]
    <2>1. to \in Points
      BY DEF Points
    <2> QED
      BY <1>1, <1>2, <1>3, <1>e, <2>1, GotoAllowed
  <1>6. \A d \in Callers \ {c} : call'[d] = call[d]
    BY <1>5 DEF IInv, CallsInv
  <1>7. CodeFollows'
    <2> SUFFICES ASSUME NEW h \in DOMAIN procs, procs'[h].state # "running",
                        procs'[h].exit_code # procs'[h].code
                 PROVE  \E d \in Callers : /\ call'[d].handle = h
                                           /\ call'[d].at \in {"code", "final"}
      BY <1>4 DEF CodeFollows
    <2>1. h # call[c].handle /\ procs'[h] = procs[h]
      BY <1>4
    <2>2. PICK d \in Callers : call[d].handle = h /\ call[d].at \in {"code", "final"}
      BY <2>1 DEF IInv, CodeFollows
    <2> QED
      BY <1>6, <2>1, <2>2
  <1> QED
    BY <1>4, <1>5, <1>7, CallKeeps

LEMMA GetKeeps ==
    ASSUME IInv, NEW c \in Callers, Get(c)
    PROVE  IInv'
  <1> USE DEF IInv
  <1>1. CASE SeesExit(c)
    BY <1>1, Unchanging, GotoKeeps DEF SeesExit, Points
  <1>2. CASE SeesNothing(c)
    BY <1>2, Unchanging, GotoKeeps DEF SeesNothing, Points, Settling
  <1>3. CASE Mark(c)
    BY <1>3, GotoReportKeeps DEF Mark
  <1>4. CASE SetCode(c)
    BY <1>4, SetCodeKeeps
  <1> QED
    BY <1>1, <1>2, <1>3, <1>4 DEF Get

(* A busy handler ends its call and leaves the processes alone. *)
LEMMA EndKeeps ==
    ASSUME IInv, NEW c \in Callers, call[c].at \notin {"code", "final"},
           call' = [call EXCEPT ![c] = NoCall], UNCHANGED procs
    PROVE  IInv'
  BY Unchanging, SteadyKeeps, NoCallAllowed DEF IInv

LEMMA LookKeeps ==
    ASSUME IInv, NEW c \in Callers, Look(c) \/ Answer(c)
    PROVE  IInv'
  <1>1. CASE Look(c)
    BY <1>1, Unchanging, GotoKeeps DEF Look, Points, Settling, IInv
  <1>2. CASE Answer(c)
    BY <1>2, EndKeeps DEF Answer
  <1> QED
    BY <1>1, <1>2

LEMMA StopKeeps ==
    ASSUME IInv, NEW c \in Callers, Stop(c)
    PROVE  IInv'
  <1>1. CASE Kill(c)
    <2>1. /\ Goto(c, "got", "reap") /\ call[c].at = "got"
          /\ Dies(call[c].handle, "killed") \/ UNCHANGED procs
      BY <1>1 DEF Kill, Goto
    <2>2. TableInv' /\ Ages /\ Steady
      BY <2>1, Busy, DiesKeeps, Unchanging
    <2> QED
      BY <2>1, <2>2, GotoKeeps DEF Points, Settling
  <1>2. CASE Reap(c)
    BY <1>2, Unchanging, GotoKeeps DEF Reap, Points, IInv
  <1>3. CASE ReapTimesOut(c)
    BY <1>3, EndKeeps DEF ReapTimesOut
  <1>4. CASE MarkStopped(c)
    BY <1>4, GotoReportKeeps DEF MarkStopped
  <1> QED
    BY <1>1, <1>2, <1>3, <1>4 DEF Stop

LEMMA RestartKeeps ==
    ASSUME IInv, NEW c \in Callers, Restart(c)
    PROVE  IInv'
  <1>1. CASE StopFirst(c)
    <2>1. PICK e : e = [call[c] EXCEPT !.op = "replace", !.at = "get"]
      OBVIOUS
    <2>2. /\ call[c].at = "got" /\ call' = [call EXCEPT ![c] = e] /\ UNCHANGED procs
      BY <1>1, <2>1 DEF StopFirst
    <2>3. call[c] \in Calls /\ call[c].handle \in DOMAIN procs
      BY <2>2, Busy
    <2>4. Allowed(e)
      BY <2>1, <2>3 DEF Allowed, Calls, Points, Settling
    <2> QED
      BY <2>2, <2>4, Unchanging, SteadyKeeps DEF IInv
  <1>2. CASE StoppedAlready(c)
    <2>1. /\ Goto(c, "got", "spawn") /\ call[c].at = "got"
          /\ Target(c).state # "running" /\ UNCHANGED procs
      BY <1>2 DEF StoppedAlready, Goto
    <2>2. TableInv' /\ Ages /\ Steady /\ ~TargetAlive(c)
      BY <2>1, Busy, Unchanging
    <2> QED
      BY <2>1, <2>2, GotoKeeps DEF Points
  <1>3. CASE Respawn(c)
    <2>1. /\ call[c].at = "spawn" /\ call' = [call EXCEPT ![c] = NoCall]
          /\ procs' = Append(procs, Fresh(call[c].handle))
      BY <1>3 DEF Respawn
    <2>2. /\ TableInv /\ call[c].handle \in DOMAIN procs
          /\ ~Alive(call[c].handle) /\ call[c].handle \in Nat
      BY <2>1, Busy DEF TargetAlive, Settling, Calls
    <2>3. TableInv' /\ Ages /\ Steady
      BY <2>1, <2>2, AppendKeeps
    <2> QED
      BY <2>1, <2>3, SteadyKeeps, NoCallAllowed
  <1>4. CASE RespawnFails(c)
    BY <1>4, EndKeeps DEF RespawnFails
  <1> QED
    BY <1>1, <1>2, <1>3, <1>4 DEF Restart

LEMMA AwaitKeeps ==
    ASSUME IInv, NEW c \in Callers, Await(c)
    PROVE  IInv'
  <1>1. CASE Wait(c)
    BY <1>1, Unchanging, GotoKeeps DEF Wait, Points, Settling, IInv
  <1>2. CASE WaitEnds(c)
    BY <1>2, Unchanging, GotoKeeps DEF WaitEnds, Points, IInv
  <1>3. CASE MarkExited(c)
    BY <1>3, GotoReportKeeps DEF MarkExited
  <1>4. CASE WaitTimesOut(c)
    BY <1>4, Unchanging, GotoKeeps DEF WaitTimesOut, Points, Settling, IInv
  <1> QED
    BY <1>1, <1>2, <1>3, <1>4 DEF Await

(* A new process, or a new call. *)
LEMMA BeginKeeps ==
    ASSUME IInv, NEW c \in Callers,
           Start(c) \/ \E op \in Tools, h \in DOMAIN procs : Call(c, op, h)
    PROVE  IInv'
  <1>1. TableInv /\ call \in [Callers -> Calls]
    BY DEF IInv, CallsInv
  <1>2. CASE Start(c)
    <2>1. procs' = Append(procs, Fresh(0)) /\ call[c] = NoCall /\ UNCHANGED call
      BY <1>2 DEF Start, MayCall
    <2>2. call' = [call EXCEPT ![c] = NoCall] /\ call[c].at \notin {"code", "final"}
      BY <1>1, <2>1 DEF NoCall
    <2>3. TableInv' /\ Ages /\ Steady
      BY <1>1, <2>1, AppendKeeps
    <2> QED
      BY <2>2, <2>3, SteadyKeeps, NoCallAllowed
  <1>3. ASSUME NEW op \in Tools, NEW h \in DOMAIN procs, Call(c, op, h)
        PROVE  IInv'
    <2>1. PICK e : e = [op |-> op, at |-> "get", handle |-> h]
      OBVIOUS
    <2>2. call' = [call EXCEPT ![c] = e] /\ UNCHANGED procs /\ call[c] = NoCall
      BY <1>3, <2>1 DEF Call, MayCall
    <2>3. h \in Nat
      BY <1>1, LenProperties DEF TableInv
    <2>4. Allowed(e)
      BY <2>1, <2>3 DEF Allowed, Calls, Points, Settling
    <2>5. call[c].at \notin {"code", "final"}
      BY <2>2 DEF NoCall
    <2> QED
      BY <1>1, <2>2, <2>4, <2>5, Unchanging, SteadyKeeps
  <1> QED
    BY <1>2, <1>3

LEMMA ExitKeeps ==
    ASSUME IInv, NEW h \in DOMAIN procs, Exit(h)
    PROVE  IInv'
  <1>1. TableInv' /\ Ages /\ Steady /\ UNCHANGED call
    BY DiesKeeps DEF Exit, IInv
  <1>2. CallsInv'
    BY <1>1 DEF IInv, CallsInv, Ages, NoCall
  <1>3. CodeFollows'
    BY <1>1 DEF IInv, CodeFollows, Steady
  <1>4. Settled'
    <2> SUFFICES ASSUME NEW c \in Callers, call[c].at \in Settling
                 PROVE  procs'[call[c].handle].code # "none"
      BY <1>1 DEF Settled, TargetAlive, Alive
    <2>1. call[c].handle \in DOMAIN procs /\ procs[call[c].handle].code # "none"
      BY Busy DEF Settling, TargetAlive, Alive
    <2> QED
      BY <1>1, <2>1 DEF Ages
  <1> QED
    BY <1>1, <1>2, <1>3, <1>4 DEF IInv

-----------------------------------------------------------------------------
LEMMA InitHolds == Init => IInv
  <1> SUFFICES ASSUME Init PROVE IInv
    OBVIOUS
  <1>1. procs = <<>> /\ call = [c \in Callers |-> NoCall]
    BY DEF Init
  <1>2. procs \in Seq(Process) /\ DOMAIN procs = {}
    BY <1>1
  <1>3. TableInv /\ CodeFollows
    BY <1>2 DEF TableInv, CodesAreOwn, EndedIsDead, RestartReplaces, ReplacesEarlier,
                CodeFollows
  <1>4. CallsInv /\ Settled
    BY <1>1 DEF CallsInv, Settled, Settling, NoCall, Calls, Points
  <1> QED
    BY <1>3, <1>4 DEF IInv

LEMMA StepKeeps == IInv /\ [Next]_vars => IInv'
  <1> SUFFICES ASSUME IInv, [Next]_vars PROVE IInv'
    OBVIOUS
  <1>1. ASSUME NEW h \in DOMAIN procs, Exit(h) PROVE IInv'
    BY <1>1, ExitKeeps
  <1>2. ASSUME NEW c \in Callers, Continue(c) PROVE IInv'
    BY <1>2, GetKeeps, LookKeeps, StopKeeps, RestartKeeps, AwaitKeeps DEF Continue
  <1>3. ASSUME NEW c \in Callers,
               Start(c) \/ \E op \in Tools, h \in DOMAIN procs : Call(c, op, h)
        PROVE  IInv'
    BY <1>3, BeginKeeps
  <1>4. CASE UNCHANGED vars
    BY <1>4 DEF vars, IInv, TableInv, CodesAreOwn, EndedIsDead, RestartReplaces,
                ReplacesEarlier, CallsInv, CodeFollows, Settled, TargetAlive, Alive
  <1> QED
    BY <1>1, <1>2, <1>3, <1>4 DEF Next

THEOREM IInvHolds == Spec => []IInv
  BY InitHolds, StepKeeps, PTL DEF Spec

(* Every variable of the manager keeps its type, and an exit code that is  *)
(* reported is the process's own, for any number of handlers and processes. *)
THEOREM TypeCorrect == Spec => []TypeOK
  <1>1. IInv => TypeOK
    BY DEF IInv, TypeOK, TableInv, CodesAreOwn, CallsInv, Calls
  <1> QED
    BY <1>1, IInvHolds, PTL

(* No status is ahead of its process (refresh, stop, wait), whatever        *)
(* handlers overlap, and however kills and waits fail.                      *)
THEOREM StatusIsHonest == Spec => []HonestStatus
  <1>1. IInv => HonestStatus
    BY DEF IInv, HonestStatus, TableInv, EndedIsDead, CodeFollows
  <1> QED
    BY <1>1, IInvHolds, PTL

(* A restart never runs beside what it replaces (restart, stop).            *)
THEOREM RestartsReplace == Spec => []RestartReplaces
  <1>1. IInv => RestartReplaces
    BY DEF IInv, TableInv
  <1> QED
    BY <1>1, IInvHolds, PTL
=============================================================================
