------------------------------- MODULE AskLoop -------------------------------
(***************************************************************************)
(* Questions to the case base: qa ask retrieves cases and passages, lets a *)
(* local model answer with a few rounds of tools or falls back to what was *)
(* retrieved, tells when the answer is doubtful, and a person or an agent  *)
(* records the answer that was missing (ollama_bridge.py, tools.py,        *)
(* lookup.py, escalation.py); qa digest fills the passages                 *)
(* (skills/digest.py).  Text is a set of the phrases that are told apart.  *)
(***************************************************************************)
EXTENDS Integers, Sequences, FiniteSets, SequencesExt

CONSTANTS Failures,   \* signatures of failures, canonical
          Diagnoses,  \* what a case may say
          Doubtful,   \* diagnoses and passages that read like doubt
          Queries,    \* questions
          Mentions,   \* question -> the signatures, diagnoses, passages with one of its words
          Documents,  \* the documents of a directory, by path: the bodies of their sections
          NoBody,     \* a section without text
          Digesters,  \* overlapping runs of qa digest
          NoCopy,
          Files,      \* files of cases to begin with, also with two rows of a signature
          MaxCases,   \* DEFAULT_MAX_CASES, and DEFAULT_MAX_DIGEST
          MaxCalls,   \* MAX_TOOL_CALLS
          MaxSeen     \* bound: occurrences recorded in all

AskAssumption == /\ MaxCases \in Nat \ {0} /\ MaxCalls \in Nat
                 /\ DOMAIN Mentions = Queries

R == INSTANCE CaseRows WITH Writers <- Diagnoses, Signatures <- Failures

VARIABLES cases,     \* the file of cases; "by" of a row stands for its diagnosis
          digest,    \* the file of passages
          digester,  \* digester -> its sections to do and the file as it loaded it
          asked,     \* the command qa ask
          open,      \* questions handed to a person
          closed,    \* history: the last answer that was recorded, if any
          serial     \* history: no two runs of qa digest overlapped

askVars == <<cases, digest, digester, asked, open, closed, serial>>

-----------------------------------------------------------------------------
(* Retrieval: every row with a word of the question, the most seen first.   *)
Before(a, b) == \/ a.times_seen > b.times_seen
                \/ a.times_seen = b.times_seen /\ a.id < b.id

Match(rows, q) ==
    SortSeq(SelectSeq(rows, LAMBDA r : {r.signature, r.by} \cap Mentions[q] # {}), Before)

First(s, n) == SubSeq(s, 1, IF Len(s) < n THEN Len(s) ELSE n)
Retrieved(rows, q) == First(Match(rows, q), MaxCases)
Found(entries, q)  == First(SelectSeq(entries, LAMBDA e : e.content \in Mentions[q]), MaxCases)

(* format_matches: "never silently pick a winner". *)
NoMatch == "no matching case"
Ambiguous == "AMBIGUOUS - teacher review required"

(* Fault: the most seen row answers alone. *)
FormatWinner(rows) == IF rows = <<>> THEN {NoMatch} ELSE {rows[1].by}

FormatMatches(rows) == CASE rows = <<>>   -> {NoMatch}
                         [] Len(rows) = 1 -> {rows[1].by}
                         [] OTHER         -> {r.by : r \in Range(rows)} \cup {Ambiguous}

(* detect_confidence: "ambiguous" and "no matching" are markers as well. *)
Confident(text) == text \cap (Doubtful \cup {NoMatch, Ambiguous}) = {}

-----------------------------------------------------------------------------
(* parse_markdown: the sections with a body; a document without any has one. *)
Blank == "(empty document)"
Sections(bodies) == LET full == SelectSeq(bodies, LAMBDA b : b # NoBody)
                    IN  IF full = <<>> THEN <<Blank>> ELSE full
Library == FlattenSeq([i \in DOMAIN Documents |->
               [k \in DOMAIN Sections(Documents[i]) |->
                   [source |-> i, content |-> Sections(Documents[i])[k]]]])

(* DigestStore.add: a content is stored once, with the source it first had. *)
Added(entries, s) ==
    IF \E e \in Range(entries) : e.content = s.content THEN entries
    ELSE Append(entries, [id |-> IF entries = <<>> THEN 1 ELSE Last(entries).id + 1,
                          source |-> s.source, content |-> s.content])

-----------------------------------------------------------------------------
Idle == [phase |-> "idle", query |-> NoMatch, found |-> <<>>, passages |-> <<>>,
         rounds |-> 0, by |-> "nobody", text |-> {}]

AskInit == /\ cases \in Files /\ asked = Idle /\ open = {} /\ closed = {} /\ serial = TRUE
           /\ digest \in {<<>>, FoldLeft(Added, <<>>, Library)}
           /\ digester = [d \in Digesters |-> [begun |-> FALSE, todo |-> <<>>, copy |-> NoCopy]]

(* The context of an answer is read once; the model is pinged. *)
Retrieve(q) ==
    /\ asked.phase \in {"idle", "answered"}
    /\ \E phase \in {"generating", "lookup"} :
          asked' = [Idle EXCEPT !.phase = phase, !.query = q,
                                !.found = Retrieved(cases, q), !.passages = Found(digest, q)]
    /\ UNCHANGED <<cases, digest, digester, open, closed, serial>>

(* A generation: an answer, or tools that are called and their results put  *)
(* into the next prompt; in the last round a call is taken for the answer.  *)
(* Or the model fails, and what the tools said is forgotten.                *)
Call == "[TOOL: ...]"
Generate ==
    /\ asked.phase = "generating"
    /\ \/ \E text \in {{"says"}, {"doubts"}} :
             asked' = [asked EXCEPT !.phase = "answered", !.by = "model", !.text = text]
       \/ asked.rounds < MaxCalls /\ asked' = [asked EXCEPT !.rounds = @ + 1]
       \/ asked.rounds = MaxCalls
          /\ asked' = [asked EXCEPT !.phase = "answered", !.by = "model", !.text = {Call}]
       \/ asked' = [asked EXCEPT !.phase = "lookup"]
    /\ UNCHANGED <<cases, digest, digester, open, closed, serial>>

(* The fallback shows what was retrieved. *)
Fallback ==
    /\ asked.phase = "lookup"
    /\ asked' = [asked EXCEPT !.phase = "answered", !.by = "lookup",
                    !.text = IF asked.found = <<>> /\ asked.passages # <<>>
                             THEN {e.content : e \in Range(asked.passages)}
                             ELSE FormatMatches(asked.found)]
    /\ UNCHANGED <<cases, digest, digester, open, closed, serial>>

Low == asked.phase = "answered" /\ ~Confident(asked.text)

(* qa escalate drafts the question for a person or a live agent. *)
Escalate == /\ Low /\ open' = open \cup {asked.query}
            /\ UNCHANGED <<cases, digest, digester, asked, closed, serial>>

Seen == FoldLeft(LAMBDA n, r : n + r.times_seen, 0, cases)

(* record_escalated_answer, qa record: the answer becomes a case. *)
RecordAnswer(q, f, d) ==
    /\ q \in open /\ open' = open \ {q} /\ Seen < MaxSeen
    /\ cases' = R!Recorded(cases, f, d)
    /\ closed' = {[query |-> q, signature |-> f, diagnosis |-> d]}
    /\ UNCHANGED <<digest, digester, asked, serial>>

(* A failure that somebody else records meanwhile. *)
OtherRecords(f, d) == /\ Seen < MaxSeen /\ cases' = R!Recorded(cases, f, d)
                      /\ UNCHANGED <<digest, digester, asked, open, closed, serial>>

-----------------------------------------------------------------------------
Busy(d) == digester[d].todo # <<>>

(* digest_directory: section by section, the file is loaded and saved. *)
Digest(d) == /\ ~digester[d].begun
             /\ digester' = [digester EXCEPT ![d].begun = TRUE, ![d].todo = Library]
             /\ serial' = (serial /\ \A e \in Digesters \ {d} : ~Busy(e))
             /\ UNCHANGED <<cases, digest, asked, open, closed>>
LoadDigest(d) == /\ Busy(d) /\ digester[d].copy = NoCopy
                 /\ digester' = [digester EXCEPT ![d].copy = digest]
                 /\ UNCHANGED <<cases, digest, asked, open, closed, serial>>
SaveDigest(d) ==
    /\ Busy(d) /\ digester[d].copy # NoCopy
    /\ digest' = Added(digester[d].copy, Head(digester[d].todo))
    /\ digester' = [digester EXCEPT ![d].todo = Tail(@), ![d].copy = NoCopy]
    /\ UNCHANGED <<cases, asked, open, closed, serial>>

AskNext ==
    \/ Generate \/ Fallback \/ Escalate
    \/ \E q \in Queries : Retrieve(q)
    \/ \E f \in Failures, d \in Diagnoses : OtherRecords(f, d) \/ \E q \in open : RecordAnswer(q, f, d)

(* Runs of qa digest; a question reads their file at one moment.            *)
DigestNext == \E d \in Digesters : Digest(d) \/ LoadDigest(d) \/ SaveDigest(d)

AskSpec == AskInit /\ [][AskNext \/ DigestNext]_askVars

-----------------------------------------------------------------------------
AskTypeOK == /\ R!Loads(cases) /\ asked.phase \in {"idle", "generating", "lookup", "answered"}
             /\ asked.rounds \in 0..MaxCalls /\ open \subseteq Queries

(* What the lookup cannot say alone is handed on: a fallback that passes as *)
(* confident shows one case that does not read like doubt, or passages; a   *)
(* tool call passes as an answer only when its rounds are used up           *)
(* (format_matches with detect_confidence, and the loop of ask).            *)
HonestyIsHandedOn ==
    asked.phase = "answered" =>
        /\ asked.by = "lookup" /\ Confident(asked.text) =>
              \/ Len(asked.found) = 1 /\ asked.text = {asked.found[1].by}
              \/ asked.found = <<>> /\ asked.passages # <<>>
        /\ Call \in asked.text => asked.rounds = MaxCalls

(* "Novel questions today, free lookups tomorrow" (escalation.py): while    *)
(* the answer that was recorded is the diagnosis of its case and has a word *)
(* of the question, the next lookup shows it, unless it is full of cases    *)
(* that were seen more or longer; alone and without doubt it is confident.  *)
LoopCloses ==
    \A c \in closed : LET row == SelectSeq(cases, LAMBDA r : r.signature = c.signature)[1]
                          shown == Retrieved(cases, c.query)
                      IN  row.by = c.diagnosis /\ {row.by, c.signature} \cap Mentions[c.query] # {} =>
                              /\ \/ row \in Range(shown)
                                 \/ Len(shown) = MaxCases /\ \A r \in Range(shown) : Before(r, row)
                              /\ shown = <<row>> /\ row.by \notin Doubtful => Confident(FormatMatches(shown))

(* A passage is stored once and keeps its id, even where runs of qa digest  *)
(* overlap; if they do not, every section that is done is there.            *)
DigestedOnce ==
    /\ \A i, j \in DOMAIN digest : i < j => /\ digest[i].id < digest[j].id
                                            /\ digest[i].content # digest[j].content
    /\ serial => \A d \in Digesters : digester[d].begun =>
          \A i \in 1..(Len(Library) - Len(digester[d].todo)) :
              \E e \in Range(digest) : e.content = Library[i].content
=============================================================================
