----------------------------- MODULE RuleReview -----------------------------
(***************************************************************************)
(* The review queue of proposed rules: qa detect (detect.py) fills         *)
(* rules_proposed.jsonl from the case base, qa review-rules                *)
(* (adjudicate.py) walks it and installs rules in the taught pack          *)
(* (teach.py) or remembers a rejection in rules_rejected.jsonl.  None of   *)
(* the three files has a lock: each process loads, thinks and replaces.    *)
(* The order of the lines of a file is left out, and with it the order in  *)
(* which candidates are numbered and asked about.                          *)
(***************************************************************************)
EXTENDS Naturals, FiniteSets

CONSTANTS Detectors,  \* processes that run qa detect
          Shapes,     \* candidate shapes: (type, supporting_cases)
          MaxId       \* bound of the model: detect proposes no id above it

ASSUME ReviewAssumption == MaxId \in Nat

VARIABLES evidence, \* the shapes detect finds in the case base at this moment
          queue,    \* rules_proposed.jsonl
          rejected, \* rules_rejected.jsonl: how often it lists a shape
          pack,     \* the taught pack loads, or a write to it was cut short
          scan,     \* scan[d]: what qa detect run by d holds in memory
          session,  \* what qa review-rules holds in memory
          alone     \* qa detect never runs while another process works

vars == <<evidence, queue, rejected, pack, scan, session, alone>>

Entry == [id : Nat \ {0}, shape : Shapes]
ShapesIn(entries) == {e.shape : e \in entries}

NoScan == [at |-> "idle", found |-> {}, file |-> {}]
None == [s \in Shapes |-> 0]
NoSession == [at |-> "idle", candidates |-> {}, pending |-> {}, asked |-> {},
              decided |-> {}, installed |-> {}, refused |-> None]

Idle == session.at = "idle" /\ \A d \in Detectors : scan[d].at = "idle"
MayStart == alone => Idle

Init == /\ evidence = {} /\ queue = {} /\ rejected = None
        /\ pack = "loads"
        /\ scan = [d \in Detectors |-> NoScan]
        /\ session = NoSession
        /\ alone \in BOOLEAN

(* The case base grows, shrinks or regroups into other clusters. *)
CasesChange(e) ==
    /\ evidence' = e
    /\ UNCHANGED <<queue, rejected, pack, scan, session, alone>>

-----------------------------------------------------------------------------
(* qa detect: run_detection reads the queue twice before it writes.        *)

(* Fault: the next ids are taken from the length of the queue. *)
NextIdsByLength(entries) ==
    {Cardinality(entries) + n : n \in 1..Cardinality(evidence)}

(* The ids after the largest one in the queue, one per shape found. *)
NextIds(entries) ==
    LET largest == CHOOSE m \in {0} \cup {e.id : e \in entries} :
                       \A e \in entries : e.id <= m
    IN  {largest + n : n \in 1..Cardinality(evidence)}

(* detect_candidates: every shape found, each with an id of its own. *)
Scan(d) ==
    /\ scan[d].at = "idle" /\ MayStart
    /\ NextIds(queue) \subseteq 1..MaxId
    /\ \E ids \in [evidence -> NextIds(queue)] :
          /\ \A s, r \in evidence : s # r => ids[s] # ids[r]
          /\ scan' = [scan EXCEPT
                 ![d] = [at |-> "scanned", file |-> {},
                         found |-> {[id |-> ids[s], shape |-> s] : s \in evidence}]]
    /\ UNCHANGED <<evidence, queue, rejected, pack, session, alone>>

(* Fault: what is found is not compared with the queue. *)
FreshAll(found) == found

Fresh(found) == {c \in found : c.shape \notin ShapesIn(queue)}

(* run_detection: what is queued already is not proposed again. *)
Compare(d) ==
    /\ scan[d].at = "scanned"
    /\ scan' = [scan EXCEPT
           ![d] = IF Fresh(scan[d].found) = {} THEN NoScan
                  ELSE [at |-> "writing", found |-> {},
                        file |-> queue \cup Fresh(scan[d].found)]]
    /\ UNCHANGED <<evidence, queue, rejected, pack, session, alone>>

SaveProposed(d) ==
    /\ scan[d].at = "writing"
    /\ queue' = scan[d].file
    /\ scan' = [scan EXCEPT ![d] = NoScan]
    /\ UNCHANGED <<evidence, rejected, pack, session, alone>>

-----------------------------------------------------------------------------
(* qa review-rules: one interactive session at a time.                     *)

(* filter_unrejected *)
Pending == {c \in queue : rejected[c.shape] = 0}

(* run_session up to its loop; --limit makes it a part of what is pending. *)
Open(part) ==
    /\ session.at = "idle" /\ MayStart
    /\ part # {}
    /\ session' = [NoSession EXCEPT !.at = "asking", !.candidates = queue,
                                    !.pending = part]
    /\ UNCHANGED <<evidence, queue, rejected, pack, scan, alone>>

Asks(c) == session.at = "asking" /\ c \in session.pending
Decided(s, c) == [s EXCEPT !.decided = @ \cup {c.id}, !.pending = @ \ {c}]

(* approve or correct: teach_rule loads the pack and truncates the file... *)
BeginInstall(c) ==
    /\ Asks(c) /\ pack = "loads"
    /\ pack' = "torn"
    /\ session' = [session EXCEPT !.at = "installing", !.asked = {c}]
    /\ UNCHANGED <<evidence, queue, rejected, scan, alone>>

(* Fault: the candidate just installed is still marked as asked about. *)
EndInstallKeeps(c) ==
    /\ session.at = "installing" /\ session.asked = {c}
    /\ pack' = "loads"
    /\ session' = [Decided(session, c) EXCEPT !.at = "asking",
                                              !.installed = @ \cup {c.shape}]
    /\ UNCHANGED <<evidence, queue, rejected, scan, alone>>

(* ...and ends the write. *)
EndInstall(c) ==
    /\ session.at = "installing" /\ session.asked = {c}
    /\ pack' = "loads"
    /\ session' = [Decided(session, c) EXCEPT !.at = "asking", !.asked = {},
                                              !.installed = @ \cup {c.shape}]
    /\ UNCHANGED <<evidence, queue, rejected, scan, alone>>

(* Fault: a skip takes the candidate off the queue. *)
SkipDecides(c) ==
    /\ Asks(c)
    /\ session' = Decided(session, c)
    /\ UNCHANGED <<evidence, queue, rejected, pack, scan, alone>>

(* skip, an unknown choice, incomplete fields, a rule that is refused or a *)
(* pack that does not load: the candidate stays in the queue.              *)
Skip(c) ==
    /\ Asks(c)
    /\ session' = [session EXCEPT !.pending = @ \ {c}]
    /\ UNCHANGED <<evidence, queue, rejected, pack, scan, alone>>

Reject(c) ==
    /\ Asks(c)
    /\ session' = [Decided(session, c) EXCEPT !.refused[c.shape] = @ + 1]
    /\ UNCHANGED <<evidence, queue, rejected, pack, scan, alone>>

(* The end of the loop, or quit before it: the rejections, kept in memory  *)
(* until now, are appended to the file.                                    *)
SaveRejected ==
    /\ session.at = "asking"
    /\ rejected' = [s \in Shapes |-> rejected[s] + session.refused[s]]
    /\ session' = [session EXCEPT !.at = "clearing", !.pending = {}]
    /\ UNCHANGED <<evidence, queue, pack, scan, alone>>

(* The queue is replaced by what the session loaded at its start, without  *)
(* what it decided; an empty queue is an unlinked file.                    *)
ClearDecided ==
    /\ session.at = "clearing"
    /\ queue' = IF session.decided = {} THEN queue
                ELSE {c \in session.candidates : c.id \notin session.decided}
    /\ session' = NoSession
    /\ UNCHANGED <<evidence, rejected, pack, scan, alone>>

(* The process is killed, or the terminal closed, anywhere in between. *)
Crash ==
    /\ session.at # "idle"
    /\ session' = NoSession
    /\ UNCHANGED <<evidence, queue, rejected, pack, scan, alone>>

-----------------------------------------------------------------------------
Detect(d) == Scan(d) \/ Compare(d) \/ SaveProposed(d)

Answer(c) == BeginInstall(c) \/ EndInstall(c) \/ Skip(c) \/ Reject(c)

Next == \/ \E e \in SUBSET Shapes : CasesChange(e)
        \/ \E d \in Detectors : Detect(d)
        \/ \E part \in SUBSET Pending : Open(part)
        \/ \E c \in session.pending : Answer(c)
        \/ SaveRejected \/ ClearDecided \/ Crash

Spec == Init /\ [][Next]_vars

-----------------------------------------------------------------------------
(* Every variable has its type; a candidate is being installed exactly     *)
(* while the pack is open for writing, and it is one the session asks about.*)
TypeOK == /\ evidence \subseteq Shapes
          /\ queue \subseteq Entry
          /\ rejected \in [Shapes -> Nat]
          /\ pack \in {"loads", "torn"}
          /\ scan \in [Detectors -> [at : {"idle", "scanned", "writing"},
                                     found : SUBSET Entry, file : SUBSET Entry]]
          /\ session \in [at : {"idle", "asking", "installing", "clearing"},
                          candidates : SUBSET Entry, pending : SUBSET Entry,
                          asked : SUBSET Entry, decided : SUBSET Nat,
                          installed : SUBSET Shapes, refused : [Shapes -> Nat]]
          /\ session.asked \subseteq session.pending
          /\ session.asked # {} <=> session.at = "installing"
          /\ session.at = "installing" => pack = "torn"
          /\ alone \in BOOLEAN

Distinct(entries) == \A c, e \in entries : c.shape = e.shape => c = e

(* However detectors and sessions overlap, no shape is queued twice: each  *)
(* writer of the file compares with what it read (run_detection).          *)
QueuedOnce == Distinct(queue)

(* The rejection memory lists a shape at most once: the parents are never  *)
(* asked again about a shape they rejected, even when a session dies after *)
(* the rejections are saved and before the queue is (run_session).         *)
RejectedOnce == \A s \in Shapes : rejected[s] <= 1

(* The parents are asked about a shape once, and once rejected never again: *)
(* neither the queue nor the rejection memory lists a shape twice.          *)
ShapesListedOnce == QueuedOnce /\ RejectedOnce

(* An id names one queued candidate: a session takes what it decided off   *)
(* the queue by id (run_session, adjudicated_ids).                         *)
IdsNameOneCandidate == alone => \A c, e \in queue : c.id = e.id => c = e

(* Without overlap a candidate leaves the queue only when its rule is      *)
(* installed or its rejection is on disk, wherever a session is killed.    *)
LeavesOnlyDecided ==
    [][alone => \A s \in ShapesIn(queue) \ ShapesIn(queue') :
                    s \in session.installed \/ rejected[s] > 0]_queue

(* A rejected candidate shape is never put into the queue again, as the    *)
(* docstring of adjudicate.py has it; the code only hides it from sessions.*)
RejectedNotReproposed ==
    [][alone => \A s \in ShapesIn(queue') \ ShapesIn(queue) : rejected[s] = 0]_queue
=============================================================================
