--------------------------- MODULE ProcessManager ---------------------------
(***************************************************************************)
(* The long-lived processes of a session (agent/processes.py).  A caller   *)
(* is a tool handler on its own pool thread.  The session makes one call   *)
(* at a time, but a wait_for_process as long as its tool's timeout lingers *)
(* beside the calls that follow; the others end well before it.  There is  *)
(* no lock: a status is read in one step and written in another.           *)
(*                                                                         *)
(* An exit code is what ended the process, itself or a kill of this        *)
(* module.  Ports, health checks and the log rings are left out.           *)
(***************************************************************************)
EXTENDS Naturals, Sequences

CONSTANTS Callers,   \* handler threads
          MaxHandles \* bound: processes ever started

VARIABLES procs, \* the managed processes; the index is the handle
          call   \* call[c]: what the handler of caller c is doing

vars == <<procs, call>>

NoCall == [op |-> "none", at |-> "idle", handle |-> 0]
Fresh(old) == [code |-> "none", state |-> "running", exit_code |-> "none",
               replaces |-> old]

Init == procs = <<>> /\ call = [c \in Callers |-> NoCall]

(* The process that this caller's handle names. *)
Target(c) == procs[call[c].handle]

(* A process has a code, of its own or of a kill, once it has ended. *)
Alive(h) == procs[h].code = "none"
TargetAlive(c) == Alive(call[c].handle)

Goto(c, from, to) == call[c].at = from /\ call' = [call EXCEPT ![c].at = to]

Stopping(c) == call[c].op \in {"stop", "replace"}

(* A process ends; by tells who ended it. *)
Dies(h, by) == Alive(h) /\ procs' = [procs EXCEPT ![h].code = by]

Report(c, state) == procs' = [procs EXCEPT ![call[c].handle].state = state]

(* Another call may begin: of the others only waits are left, which linger. *)
MayCall(c) == /\ call[c] = NoCall
              /\ \A d \in Callers : call[d].op \in {"none", "wait"}
                                   /\ call[d].at \in {"idle", "waiting", "woken", "final", "answer"}

Room == Len(procs) < MaxHandles

-----------------------------------------------------------------------------
(* A managed process ends by itself. *)
Exit(h) == Dies(h, "own") /\ UNCHANGED call

Start(c) == /\ MayCall(c) /\ Room
            /\ procs' = Append(procs, Fresh(0))
            /\ UNCHANGED call

(* Every other tool begins with get(), which refreshes the status. *)
Call(c, op, h) == /\ MayCall(c) /\ (op = "restart" => Room)
                  /\ call' = [call EXCEPT ![c] = [op |-> op, at |-> "get", handle |-> h]]
                  /\ UNCHANGED procs

(* Popen.poll knows nothing while another thread waits for that process. *)
PollBusy(c) == \E d \in Callers \ {c} : /\ call[d].handle = call[c].handle
                                        /\ call[d].at = "waiting"

(* refresh: a process that is thought to run has ended ... *)
SeesExit(c) == /\ Goto(c, "get", "mark")
               /\ Target(c).state = "running" /\ ~TargetAlive(c)
               /\ UNCHANGED procs

(* ... or nothing is new. *)
SeesNothing(c) == /\ Goto(c, "get", "got")
                  /\ Target(c).state # "running" \/ TargetAlive(c) \/ PollBusy(c)
                  /\ UNCHANGED procs

Mark(c) == Goto(c, "mark", "code") /\ Report(c, "exited")

(* Fault: whatever has ended counts as killed. *)
SetCodeOfKill(c) ==
    /\ \/ Goto(c, "code", "got")
       \/ Goto(c, "final", IF call[c].op = "replace" THEN "spawn" ELSE "answer")
    /\ procs' = [procs EXCEPT ![call[c].handle].exit_code = "killed"]

(* The exit code follows the state in a step of its own. *)
SetCode(c) ==
    /\ \/ Goto(c, "code", "got")
       \/ Goto(c, "final", IF call[c].op = "replace" THEN "spawn" ELSE "answer")
    /\ procs' = [procs EXCEPT ![call[c].handle].exit_code = Target(c).code]

(* process_status and list_processes; wait for what has ended. *)
Look(c) == /\ \/ call[c].op = "status"
              \/ call[c].op \in {"stop", "wait"} /\ Target(c).state # "running"
           /\ Goto(c, "got", "answer")
           /\ UNCHANGED procs

(* The answer gives the status as it is by now. *)
Answer(c) == /\ call[c].at = "answer"
             /\ call' = [call EXCEPT ![c] = NoCall]
             /\ UNCHANGED procs

(* restart has read the command and calls stop, which begins with get() too. *)
StopFirst(c) == /\ call[c].op = "restart" /\ call[c].at = "got"
                /\ call' = [call EXCEPT ![c].op = "replace", ![c].at = "get"]
                /\ UNCHANGED procs

(* Fault: the process is not waited for after the kill. *)
KillAndGo(c) == /\ Stopping(c) /\ Target(c).state = "running"
                /\ Goto(c, "got", "ended")
                /\ Dies(call[c].handle, "killed") \/ UNCHANGED procs

(* kill_process_tree, best effort: it may find nothing to kill, or fail. *)
Kill(c) == /\ Stopping(c) /\ Target(c).state = "running"
           /\ Goto(c, "got", "reap")
           /\ Dies(call[c].handle, "killed") \/ UNCHANGED procs

(* proc.wait(timeout=10) returns ... *)
Reap(c) == /\ Goto(c, "reap", "ended")
           /\ ~TargetAlive(c)
           /\ UNCHANGED procs

(* Fault: the timeout is swallowed, so that a restart goes on. *)
ReapTimeoutIgnored(c) == /\ call[c].at = "reap"
                         /\ call' = IF call[c].op = "replace"
                                    THEN [call EXCEPT ![c].at = "spawn"]
                                    ELSE [call EXCEPT ![c] = NoCall]
                         /\ UNCHANGED procs

(* ... or raises TimeoutExpired, which fails the tool, restart or stop. *)
ReapTimesOut(c) == /\ call[c].at = "reap"
                   /\ call' = [call EXCEPT ![c] = NoCall]
                   /\ UNCHANGED procs

MarkStopped(c) == Goto(c, "ended", "final") /\ Report(c, "stopped")

(* stop has nothing to do within a restart. *)
StoppedAlready(c) == /\ call[c].op = "replace" /\ Target(c).state # "running"
                     /\ Goto(c, "got", "spawn")
                     /\ UNCHANGED procs

(* restart: the same command under a new handle. *)
Respawn(c) == /\ call[c].at = "spawn"
              /\ procs' = Append(procs, Fresh(call[c].handle))
              /\ call' = [call EXCEPT ![c] = NoCall]

(* Popen fails, as when the directory is gone: nothing runs in its place. *)
RespawnFails(c) == /\ call[c].at = "spawn"
                   /\ call' = [call EXCEPT ![c] = NoCall]
                   /\ UNCHANGED procs

Wait(c) == /\ call[c].op = "wait" /\ Target(c).state = "running"
           /\ Goto(c, "got", "waiting")
           /\ UNCHANGED procs

(* proc.wait returns a code: "exited", whoever ended the process. *)
WaitEnds(c) == /\ Goto(c, "waiting", "woken")
               /\ ~TargetAlive(c)
               /\ UNCHANGED procs

MarkExited(c) == Goto(c, "woken", "final") /\ Report(c, "exited")

WaitTimesOut(c) == Goto(c, "waiting", "answer") /\ UNCHANGED procs

-----------------------------------------------------------------------------
Get(c)  == SeesExit(c) \/ SeesNothing(c) \/ Mark(c) \/ SetCode(c)
Stop(c) == Kill(c) \/ Reap(c) \/ ReapTimesOut(c) \/ MarkStopped(c)
Restart(c) == StopFirst(c) \/ StoppedAlready(c) \/ Respawn(c) \/ RespawnFails(c)
Await(c) == Wait(c) \/ WaitEnds(c) \/ MarkExited(c) \/ WaitTimesOut(c)

Continue(c) == Get(c) \/ Look(c) \/ Stop(c) \/ Restart(c) \/ Await(c) \/ Answer(c)

Tools == {"status", "stop", "restart", "wait"}

Next == \/ \E h \in DOMAIN procs : Exit(h)
        \/ \E c \in Callers : \/ Start(c) \/ Continue(c)
                              \/ \E op \in Tools, h \in DOMAIN procs : Call(c, op, h)

Spec == Init /\ [][Next]_vars

(* Handlers run, and their two waits time out; no process ever has to end. *)
FairSpec == Spec /\ \A c \in Callers : WF_vars(Continue(c))

-----------------------------------------------------------------------------
Points == {"idle", "get", "mark", "code", "got", "reap", "ended", "final", "spawn",
           "waiting", "woken", "answer"}
Process == [code : {"none", "own", "killed"}, state : {"running", "exited", "stopped"},
            exit_code : {"none", "own", "killed"}, replaces : Nat]

(* Every variable has its type; an exit code that is reported is the one of *)
(* that process, and a handler that is busy has a handle.                   *)
TypeOK == /\ procs \in Seq(Process)
          /\ \A h \in DOMAIN procs :
                procs[h].exit_code \in {"none", procs[h].code}
          /\ call \in [Callers -> [op : Tools \cup {"none", "replace"}, at : Points,
                                   handle : Nat]]
          /\ \A c \in Callers : call[c] = NoCall \/ call[c].handle \in DOMAIN procs
          /\ \A c \in Callers : call[c].at = "idle" => call[c] = NoCall

(* No process is reported as ended while it lives, and its exit code is     *)
(* there as well or about to be: no overlap of refresh, stop and wait, no   *)
(* failing kill and no timeout leads to a status that is ahead of it.       *)
HonestStatus == \A h \in DOMAIN procs :
    procs[h].state # "running" =>
        /\ ~Alive(h)
        /\ \/ procs[h].exit_code = procs[h].code
           \/ \E c \in Callers : call[c].handle = h /\ call[c].at \in {"code", "final"}

(* A restart begins a process only when the one it replaces is dead, even  *)
(* when the kill fails or does not take, or a lingering wait reports it    *)
(* first (restart, stop): two servers never compete for one port.          *)
RestartReplaces == \A h \in DOMAIN procs :
    procs[h].replaces # 0 => ~Alive(procs[h].replaces)

(* A handler returns, also when its process never ends and cannot be killed *)
(* (stop, wait): at the latest when its timeout has passed.                 *)
CallsReturn == \A c \in Callers : call[c].at # "idle" ~> call[c].at = "idle"
=============================================================================
