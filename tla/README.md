# A TLA+ model of qacompanion

qacompanion is a Python program with two halves. The *companion* keeps a base of
failure cases (`cases.jsonl`) that wrapped commands write and that people review,
merge, import, mine and ask. The *agent runtime* (`qacompanion/agent/`) drives a
language model through a loop of turns, tool calls, verification and recovery, serves
it to a dashboard over HTTP, and turns what it did into experience, demonstrations
and training data.

The specifications here model the stateful and concurrent parts of both halves: what
is shared between threads or processes, what may be interrupted, what must end, and
the algorithms whose answers other parts rely on. TLC checks them on small
instances, TLAPS proves the central invariants for every value of the constants.
Paths are relative to the repository (`src/` here), those without a directory to
`src/qacompanion/`.

## 1. Inventory

### 1.1 Components, state, operations

| component | code | state it keeps | operations | modules |
|---|---|---|---|---|
| Case store | `store.py` | `cases.jsonl`, its lock file | `load`, `save`, `record` under `record_lock` | `CaseRows`, `CaseLog`, `RecordLock` |
| Teacher loop | `skills/school.py`, `skills/merge.py`, `transport.py` | what one process has loaded and not yet saved | review sessions, `merge`, both imports | `TeacherLoop` |
| Rule review | `detect.py`, `adjudicate.py`, `teach.py` | the queue, the rejections, the taught pack | detection, review session, install | `RuleReview` |
| Capture, flakes, escalation | `skills/auto_capture.py`, `skills/flaky.py`, `signatures.py`, `escalation.py` | the sidecar of passes | `run_wrapped`, passes, low confidence, `record_escalated_answer` | `Signatures`, `CommandCapture`, `AskLoop` |
| Questions | `lookup.py`, `tools.py`, `ollama_bridge.py` | one question, `digest.jsonl` | `ask` with its rounds and fallbacks | `AskLoop` |
| Archive miner | `skills/archive_mine.py` | the file of mined cases | `qa mine` | `ArchiveMine` |
| Task ledger | `task.py` | `tasks.jsonl` | `add`, `mark_done`, `delete` | `TaskLedger` |
| Artifact watcher | `watch.py`, `skills/digest.py` | hashes of what was digested, `digest.jsonl` | one cycle, abort, restart; `qa digest` | `ArchiveWatch`, `AskLoop` |
| Failure recovery | `agent/recovery.py` | tracker and machine counters | `on_failure`, `on_success`, `mark_escalated` | `Recovery`, `RecoveryHistory` |
| Agent loop, session | `agent/loop.py`, `agent/session.py` | one run and its record | `run`, `transition` | `AgentLoop`, `SessionLifecycle` |
| Context, providers | `agent/context.py`, `agent/providers.py`, `ollama_bridge.py` | the messages of a session | `build`, native contents, the textual tool protocol | `ModelContext`, `ToolProtocol` |
| Tool registry, server | `agent/registry.py`, `agent/permissions.py`, `agent/server.py` | policy, approval slot, jobs | `execute`, confirm, stop, `start_job` | `ToolGate`, `Verdict` |
| Event stream | `agent/events.py`, `agent/server.py` | sequence, history, subscribers, feeds | `emit`, `subscribe`, SSE | `EventFeed` |
| Process manager | `agent/processes.py` | managed processes | `start`, `stop`, `restart`, `wait`, status | `ProcessManager` |
| File tools | `agent/fs_tools.py` | one file, the change ledger | `write_file`, `edit_file` | `FileTools` |
| Plans and panels | `agent/verification.py`, `agent/multi_agent.py`, `agent/execution.py` | rounds of a panel | `VerificationPlan.run`, four shapes of panel | `VerifiedPanel` |
| Experience | `agent/experience.py`, `agent/session_learning.py` | the experience file | `record`, claims, `curate` | `ExperienceStore` |
| Training pipeline | `agent/curation.py`, `agent/training.py` | the curated export, the corpus | `curate`, eligibility, cap, prefixes | `TrainingCorpus` |
| Practice | `agent/apprenticeship.py`, `agent/benchmark.py`, `agent/curriculum.py` | lab report, levels | lab sessions, `MasteryTracker`, `generate` | `Apprenticeship`, `Mastery` |
| Demonstrations | `agent/ep1.py` | scripts, the corpus lanes | the bar, the run of a script, `build_corpus`, `build_agent_corpus` | `Drills`, `CorpusLane` |
| Measurement | `agent/ep1.py`, `agent/evaluation.py`, `agent/benchmark.py` | jobs and their results | verdicts, evaluations, metrics | `Verdict` |
| Trajectory mines | `agent/opencode_mine.py`, `zcode_mine.py`, `labdb_mine.py` | what was mined | a run over sessions that grow | `TranscriptMine` |
| The rest | router, workspace, git, web, browser, computer and vision tools, the command line, `app/`, `training-kit/` | none, or the operating system's | I/O, formatting, dispatch | section 7 |

`PROJECT.json` lists every component with its sources and its status.

### 1.2 How they interact

* **Shared files.** `qa record`, a wrapped command and an answered escalation reach
  `cases.jsonl` through `record()`, which locks. `qa school`, `qa merge` and
  `qa import` write the same file without that lock. `qa detect` reads the cases and
  writes the queue that `qa review-rules` empties. Sessions, jobs and miners reach the
  experience store through its own locked `record()`; `curate()` and the two corpus
  builders load, change and save it without. Nothing is transactional across files.
* **Calls.** The loop calls the provider, `ToolRegistry.execute`, the verifier and
  the recovery machine. Execution asks the policy, and for an ASK calls back into
  the dashboard's confirmer, which blocks the session's thread.
* **Threads.** The server has a thread per session, a thread per HTTP request (one
  per open event feed), a thread per job and a pool thread per tool handler. They
  share the approval slot, the cancel event, the event stream, its subscribers, the
  jobs and the experience store.
* **Callbacks.** `emit()` calls each subscriber on the emitting thread. A feed's
  callback only puts the event into that feed's queue.
* **Data.** A finished session becomes an experience, an experience a curated export,
  the export a corpus; a script becomes a demonstration only by being run; a verdict
  reads the rows its own runs left in the store everyone writes.

### 1.3 What is hard, and what makes each component correct

| component | hard behaviour | correct if |
|---|---|---|
| Case store | crashed holders, reclaimed locks, two waiters at once | nobody shares the lock, no acknowledged row is lost, ids stay ordered, a waiter gives up in time |
| Teacher loop | long sessions over a stale copy, merge and import arithmetic | the file always loads, occurrences are conserved, only a person makes twins |
| Rule review | three unlocked files, death between two of them | no shape is queued or rejected twice, none leaves the queue undecided |
| Capture, flakes | one unlocked sidecar, keys made of free text | a pass counts for every failure of its command, no overlap makes a test look flakier |
| Questions | honesty states that travel as words, rounds of tools, a model that fails | doubt is handed on, an answer once recorded is what the next question gets |
| Watcher | files change between the scan and the digest; cycles abort | the ledger never claims what was not digested; notes left alone are digested |
| Failure recovery | counters that interact over long histories | each counter means what its doc says; a human is the last rung |
| Agent loop | every mix of empty, failing, rejected and cancelled turns | it ends once, in time, and completes only with the answer just verified |
| Context, protocol | a budget, quoting, several calls in a turn | what is sent can be sent, keeps goal and evidence, and reads back as it was written |
| Process manager | a wait that lingers beside stop and restart, kills that fail, no lock | a status is never ahead of its process, a restart replaces what is dead, every call returns |
| Tool gate | approval timeout against a late click; lingering handlers; stop | only an approved call runs, a click reaches the open request, every call returns |
| Event stream | `emit` and `subscribe` interleave without a lock; a run ends while a feed waits | in order, nothing missed once attached, what is written up to the last empty poll, the feed ends |
| File tools | check and write in two steps; bytecode of the same second | every change is accounted for, an edit is what the next import runs |
| Experience, training | unlocked clean-ups, two reads of one export, a cap | a lesson stays, only verified steps are taught, a cut is shared by the tasks |
| Demonstrations | a bar that simulates tools, crashes between the passes of a build | the catalog verifies, tags are earned, one row teaches a drill |
| Measurement | jobs beside jobs over one store | metrics are those of the own runs, rates are rates, a comparison is symmetric |

Where each hazard bites is listed line by line under `hazards` in `PROJECT.json`,
with the properties that would catch it.

## 2. The modules

| module | models | kind |
|---|---|---|
| `CaseRows` | the rows of `cases.jsonl`, what `load()` accepts, one `record()` as an operator | data, shared by `CaseLog`, `RecordLock`, `TeacherLoop`, `AskLoop` |
| `CaseLog` | what the store promises: `record()` is one atomic step | abstract specification |
| `RecordLock` | `record()` step by step under `record_lock()` | refines `CaseLog` |
| `TeacherLoop` | everything else that writes the same file | composes `CaseRows` |
| `RuleReview` | detectors, a review session and the pack | component |
| `Recovery` | tracker, ladder and machine as operators | data, shared by the two below |
| `RecoveryHistory` | the machine driven by every history | component |
| `SessionLifecycle` | what the runtime promises of a session | abstract specification |
| `AgentLoop` | `AgentLoop.run` with the recovery machine inside | refines `SessionLifecycle`, composes `Recovery` |
| `ToolGate` | a tool call through registry, policy, approval slot and handler thread | composes registry, permissions and server |
| `ProcessManager` | the process table, by the steps of the handlers that use it | component |
| `EventFeed` | one session's event stream and its feeds | composes events and server |
| `ExperienceStore`, `TrainingCorpus` | the store of lessons; the way from it to a corpus | the second extends the first |
| `Signatures`, `CommandCapture`, `TaskLedger`, `ArchiveWatch`, `ArchiveMine`, `AskLoop` | the companion's other files | components |
| `ModelContext`, `ToolProtocol`, `FileTools`, `VerifiedPanel` | the agent's requests, calls, files and verdicts | components |
| `Apprenticeship`, `Mastery`, `Drills`, `CorpusLane`, `TranscriptMine`, `Verdict` | practice, demonstrations, mines and measurement | components |
| `RecordLock_proofs`, `AgentLoop_proofs`, `ToolGate_proofs`, `RuleReview_proofs`, `ProcessManager_proofs` | theorems of the one module in their name | proofs |
| `Runtime_proofs` | theorems of `ArchiveWatch`, `EventFeed`, `RecoveryHistory`, and of their composition `MCRuntimeParts` | proofs |
| `AgentParts_proofs` | theorems of `FileTools`, `VerifiedPanel`, `Mastery`, `Apprenticeship`, `ModelContext`, `ToolProtocol` | proofs |
| `Records_proofs` | theorems of `CommandCapture`, `ExperienceStore`, `TrainingCorpus`, `TaskLedger`, `TeacherLoop`, `CorpusLane` | proofs |
| `MC*`, `MineExamples` | constants and compositions for TLC | instances |

A definition whose comment begins with `Fault:` is a faulty variant of the one that
follows it. No specification uses it. Putting it in the place of the real one must
make TLC find the named property violated (`mutants` in `PROJECT.json`): that is how
each property is shown to depend on the code it is about.

Several components have the question "do the users of this file overlap?" in common.
A variable (`alone`, `solo`, `serial`, `single`, `calm` or `apart`, by module), chosen at
`Init`, is the single-writer assumption of `docs/spec.md:62-64`: where it is true a
process starts only when nobody else works. Properties that need it say so, the
others hold whatever overlaps.

### 2.1 RecordLock, CaseRows, CaseLog (store.py)

A writer is a thread or process inside `record()`. `pc` is its step: `open`
(`os.open` with `O_CREAT|O_EXCL`), `stat`, `reclaim` (the unlink of a lock seen to
be stale), then `load`, `save`, `close` with the lock file open, and `unlink` in the
`finally` clause. `Create`, `Refused`, `SeesStale`, `Sleep`, `GiveUp` and `Reclaim`
are the branches of the retry loop. `Load`, `Save`, `BodyFails`, `Close` and
`Release` are the body and its exit. `Crash` kills a holder at any of its steps.

Time is two facts: `aged` (the lock file is 30 s old) and `late[w]` (the 10 s of a
waiter are over). A lock ages when its creator is dead, or, with `Stalls`, when it
is merely slow. `Windows` selects the two behaviours the code has there: an open
file cannot be unlinked, and a create may be refused although the name is free.
`Hung` is the state both meet in: a live holder whose lock has aged and cannot be
unlinked.

`CaseRows` keeps the four fields the store's behaviour depends on. `Recorded` is
`record()` in one expression: bump the first row with the signature or append one
under the next id. `Loads` is the validation of `load()`. A file that fails it
stops every later command, so it is a conjunct of `TypeOK` and not a side remark.

### 2.2 TeacherLoop (school.py, merge.py, transport.py)

`Record` is one step here: that is what `RecordLock` establishes, where it does.
`work[t]` is what a teacher's process holds (`Holding`): the cases in memory and the
positions it has still to show, the least of them first (`Unreviewed`, `FirstOf`,
`Shown`, `Rest`). A school session is `OpenSchool` (load and list the pending cases),
one `Review`, `TypeCase` or `SkipCase` per answer, `EndSchool`, `Save`. `Merge`,
`ImportReplace` and `ImportMerge` load and compute at once and leave only `Save`, so
that another writer can come between; `MergedWith` folds the cases of the imported file
into the base. `Killed` drops the work of a tool before it saves; the file itself
changes atomically.

`owed` and `typed` are history variables.

### 2.3 RuleReview (detect.py, adjudicate.py, teach.py)

`Scan`, `Compare` and `SaveProposed` are the two reads and the write of
`run_detection`. `Open` is a review session up to its first question, and each
question ends in `BeginInstall`/`EndInstall`, `Skip` or `Reject`. `SaveRejected` and
`ClearDecided` are the two writes after the loop, in the code's order, and `Crash`
may come anywhere. The pack is written in place, so an install has a moment in
which the pack does not load; a crash there leaves `pack = "torn"` and every later
install is refused (`Skip`). A candidate is its shape (type and supporting cases).

### 2.4 Recovery and RecoveryHistory (recovery.py)

The machine is a record and every operation an operator from a record to a record,
so that the loop and the history module use the same definitions. `OnFailure` is
`RecoveryStateMachine.on_failure` with the ladder of `decide` inside it. Only the
last `Horizon` signatures can bear on a decision, so no more are kept.
`RecoveryHistory` feeds the machine every sequence of failures and successes and
keeps the sequence, so that a counter can be compared with what happened.

### 2.5 AgentLoop and SessionLifecycle (loop.py, session.py)

One action per branch of `run()`: the three exits at the head of the loop, the
model turn, the ways a reply can come out (tool calls, an answer, nothing, a
`ProviderError`, another exception: `Escape`, which a failing escalation factory
or context builder takes as well), the verdict, the recovery decision, each tool
call with its read of the cancel event. `_finish` is `Finish`, its swallowed
refusal included: it appends to `endings` even when the session is already
terminal, which is what `OneHonestEnding` is about. The dashboard's thread sets
`cancel` at any moment and the clock sets `late`.

An answer is named by the turn that gave it, so "the answer that was verified" is a
comparison of numbers. `SessionLifecycle` keeps `state`, `reason`, the candidate
and the final answer. Its legal moves are the transition table of `session.py` with
the answers tied to them. `AgentLoop` implements it under `pending <- Candidate`.

### 2.6 ToolGate (registry.py, permissions.py, server.py)

The session's thread takes a call through `Request` (policy and audit), `Ask` (a
fresh slot and event; `AskNobody` where there is no confirmer or it raises), `Hear` or `GiveUpWaiting` (the two returns of `event.wait`),
`Conclude` (under the lock: read the answer, clear the slot), `FindNoWorkspace`
(the tool needs a workspace and there is none), `ReadCancel`, `Submit`, and the handler's end or its timeout. An HTTP thread is `Show` (the page
displays the pending request), `Click` (`confirm_session` under the lock) and `Ring`
(the event, set outside the lock). A handler that timed out stays in `running`.
Requests are numbered; slot and event belong to a request. `timely` is a history
variable: the requests whose event was set while the session waited for it.

### 2.7 EventFeed (events.py, server.py)

`emit()` is `Emit` (number, history), `CopySubscribers`, one `Deliver` per callback
and `Emitted`. `subscribe` is `CopyHistory`, `Replay`, `Attach`, serialized against
other feeds by the app's lock and against nothing on the emitting side. The writer
of a feed is `Send`, `Starve` (a second without an event), then `EndStream` or
`Heartbeat`, the two outcomes of its look at `done`. `Disconnect` leaves the callback
attached, as the code does. `Over` counts the events whose `emit()` has returned;
`quiet` is a history variable, what `Over` was when a feed last found its queue empty,
which is all a feed that ends is sure to have written.

### 2.8 ProcessManager (processes.py)

A caller is a tool handler on its pool thread. A session makes one call at a time and
`stop` ends within 15 s, but `wait_for_process` waits 30 s by default, which is also
the timeout of its tool (`registry.py:75`): the handler may linger (`registry.py:412-420`)
beside the calls that follow. `MayCall` is that rule. A call is a walk through places:
`get` (its `refresh`: `SeesExit` or `SeesNothing`, then `Mark`), then by tool `Look`,
`Kill`/`Reap`/`MarkStopped`, `StopFirst` with `Respawn`, or `Wait`/`WaitEnds`/
`MarkExited`. State and exit code are two assignments in the code and two steps here
(`SetCode`). `Exit` lets a process end by itself at any moment. A kill is best effort
and may do nothing; `ReapTimesOut` and `WaitTimesOut` are the two timeouts.

A process is what ended it (`code`, "none" while it lives) beside what the manager says
of it (`state`, `exit_code`). `replaces` remembers the handle that a restart stopped.

### 2.9 Signatures and CommandCapture (signatures.py, flaky.py, auto_capture.py)

`Signatures` works on characters, because quoting, slashes and white space are what
the key is about: `Canonical` is `canonical()`, `FailureKey` the key under which a
failed command is recorded, `Matches` what `match_cases` compares a passing command
with. `CommandCapture` takes keys as given: a failing command is one atomic
`RunFails` (that is `RecordLock`'s result), a passing one loads the sidecar, changes
its copy and saves it (`RunPasses`, `LoadFlakes`, `SaveFlakes`), and others may do
the same in between. `due` remembers the passes that happened.

### 2.10 TaskLedger (task.py)

`Add`, `MarkDone` and `Delete` load and compute at once, `SaveTasks` replaces the
file. `nr` numbers tasks for good, since an id is free again after the last task is
deleted.

### 2.11 ArchiveWatch (watch.py)

A cycle is `Scan` (hash everything), one `DigestNote` or `PassOther` per changed
file, `SaveLedger`. What the code does not catch is `Abort`: the daemon dies before
its ledger is saved, and `Restart` goes on from the file. `Write` is everybody else,
at any moment. `forward` records that no file has returned to an earlier content.

### 2.12 ExperienceStore and TrainingCorpus (experience.py, session_learning.py, curation.py, training.py)

`Lesson` is what a finished session leaves: outcome, proof and steps; `Claim` is what
the model records through its tool, without proof. Both are merged into the row of
their goal (`Reinforced`). `RecordLesson` holds the lock from the load through `WriteTemp` to
`Replace`; `Clean` (`curate()`) has the same steps without it, and all of them write
one temporary name.
`TrainingCorpus` adds `Curate` (a verdict per row into the export) and the two reads
of the export (`ReadRecords`, `WriteCorpus`): eligibility, the cap by rounds over
tasks (`Spend`, `Round`, `Quota`, `KeptReal`) and the failed prefixes. Which of a task's
trajectories are kept (the cleanest) and in which order the tasks come is left open.

### 2.13 Apprenticeship and Mastery (apprenticeship.py, benchmark.py, curriculum.py)

A lab session is `BeginSession`, `FirstAttempt` or `DeafAtFirst`, `Teach`, `Retry`;
what passes is merged into the main store. `Mastery` has `RecordOutcome` with its
bounded window, and `GenerateTasks` with the draws it is allowed (`Drawing`, one
`DrawUnless` for each).

### 2.14 VerifiedPanel (verification.py, multi_agent.py, execution.py)

`Verdicts` is a plan applied to what its commands return, one `RunStep` after the other,
checked over every plan of two steps. A panel is `Open`, then for independent proposals `Propose`, `Vote` and
`Judge`, for the other shapes `Begin`, `Critique` and `Conclude`, and `Return` at the
end of each.

### 2.15 ModelContext and ToolProtocol (context.py, providers.py, training.py)

A message is its role, its length, the length a reduction leaves and what it is
about. `Say` and `ToolResult` are the appends of the loop, in its order. `Built` is
`ContextBuilder.build`: `Fixed` (prompt, goal, memory), then one `Consider` for each
message of the history, newest first, as the recursive function `Kept`. `Contents` is the
native request. `ToolProtocol` is the one
place besides `Signatures` with characters: `Format` writes calls (four replacements, one
after the other, then the pairs), `Parse` reads them. Each loop of the reader is a function
over the places of the text with one step of its own: `ScanStep` is the body of
`_scan_tool_call`, `CallStep` that of `_parse_textual_tool_calls`, `PairStep` one match of
the expression for a pair, `UnescapeStep` one character of `_unescape_value`. A head of a
call is one character, and so are a key and a literal; blanks that a model may add, the
quotes and bare values of the older dialect and other literals are not written by
`format_tool_call` and left out. `ProtocolAssumption` is what the text before the calls must be
for it to hold no call of its own; a text may have quotes and heads that are never closed.

### 2.16 FileTools (fs_tools.py)

`WriteFile` and `EditFile` look (`Look`); the call then writes a temporary file
(`PutTemp`), renames it (`Replace`) and moves the time stamp off the second of the old
text (`Settle`). `Import` is a Python
program that the agent runs: it takes the bytecode when the second matches.
`OtherWrites` is any other program, `Tick` the clock.

### 2.17 Drills and CorpusLane (ep1.py)

`Drills` has the catalog as data: the shapes of scripts (`Repair`, `Chain`, `Guess`,
`WrongTurn`, ...) and the fixtures they repair, a file being a sequence of lines and
an anchor a sequence of whole lines. `Bar` is `validate_demonstration` with its
simulation of edits; `Act` plays a step through what the tools do (`Hits`,
`Replaced`, `SuitePasses`). `Drafts` are scripts that no catalog contains, so that
the bar meets what it must refuse. `CorpusLane` has a task as its goal, whether its
first read fails (`guessing`) and whether its recovery strategy opens with a read
(`leading`): the 136 scripts of the curriculum share 50 goals, the drills have one each.
The two builders are their passes: `Repair`, `DropGuesses`, `MarkStale`, `Cover`, then
`SkipCovered` or `Run` and `Tag` task by task, each a load, a change and a save, with
`CommandDies`, `Upgrade` of the format and `RecordSession` between them. A record
remembers which script made it under which version, since that is what must not happen
twice.

### 2.18 TranscriptMine (opencode_mine.py, zcode_mine.py, labdb_mine.py)

A transcript is a sequence of parts. `ListSessions`, `ReadVolume`, `ReadGoal` and `ReadErrors` are
the separate queries of one run, between which the other agent goes on writing
(`Grow`); `Collect` is its keeping of a transcript whose session it drops. `Scanned` is
the error-patch scan, `LabScanned` the one of the colony's miner with its own run
`MineKept`. `Recorded` is the merge by the store.

### 2.19 ArchiveMine (archive_mine.py)

A run goes kind by kind: `ReadSource`, `MissSource`, `WarnOfSource`, `PassOver` and
`DieOfSource` are the five things a source can do to it; `PassOver` is a repository
whose `git log` fails, counted as scanned, with nothing read and nobody warned. Then `WriteSpare` and `Replace`.
`ParseDecisions`, `ParseGitLog` and `ParseTranscript` work on lines of a kind and a
name, `Deduped` is `_dedup_cases`.

### 2.20 AskLoop (ollama_bridge.py, tools.py, lookup.py, escalation.py, digest.py)

Text is the set of phrases that are told apart. `Retrieve` orders cases and passages,
`Generate` is a reply of the model (an answer, tool calls, nothing), `Fallback` the
text made of what was found, `Low` the reading of that text for doubt. `Escalate` and
`RecordAnswer` close the loop through `record()`. `Digest`, `LoadDigest` and `SaveDigest`
are two or more runs of `qa digest` over one file.

### 2.21 Verdict (server.py, ep1.py, evaluation.py, benchmark.py)

`StartVerdict`, `StartEvaluation` and `StartDrip` register a job; it runs its list
(`Benchmark`), each run a row in the one store, or dies of an exception (`FailJob`);
`Summarize` and `Finish` are its end. A summary computes `Metrics` from the rows that came since the job
began, whoever wrote or dropped any (`OtherRecords`, `OtherDrops`). `Regressions` and
`Improvements` are `evaluation.compare`.

## 3. The runs

Run one with `tlc -config <cfg> <module>`, the names as in `PROJECT.json`. State
counts are of distinct states.

### 3.1 Runs that pass

| run | what is in it | states | properties |
|---|---|---|---|
| `lock` | 3 writers, 2 signatures, 1 call each, Windows, crashes and stalls | 790 960 | `TypeOK`, `NoRecordLost`, `MutualExclusion`, `Serialized` (refinement of `CaseLog`), `PatienceIsBounded` |
| `gate` | 2 clicks, 2 requests, 5 kinds of tool, one without its workspace | 76 803 | `TypeOK`, `RunsOnlyIfApproved`, `AnswersReachOpenRequests`, `StopEndsWork`, `EveryCallReturns` |
| `runtime` | processes and recovery, event feeds, the watcher | 328 515 | `TypesOK`, `HonestStatus`, `RestartReplaces`, `SignalsAreEarned`, `FeedIsFaithful`, `LedgerNeverAhead`, `PartsComplete` |
| `agent` | the loop; requests, textual calls, file tools, panels, lab, levels, demonstrations, mines | 513 323 | `TypesOK`, `CompletionIsVerified`, `AskIsLastResort`, `RequestsAreSound`, `ChangesAreAccounted`, `PanelIsHonest`, `LessonsAreEarned`, `PracticeIsSound`, `StopEndsWork`, `ImplementsLifecycle`, `LoopTerminates` |
| `records` | rule review; teachers, tasks, capture, keys, experience and corpus, lanes, archive mine, jobs, questions, digest | 755 010 | `TypesOK`, `ShapesListedOnce`, `IdsNameOneCandidate`, `CasesConserved`, `TasksSurvive`, `PassesAreEarned`, `LessonsKept`, `CorpusIsSound`, `LaneIsSound`, `DerivedIsSound`, `LeavesOnlyDecided`, `ReviewedStaysReviewed` |

The last three put components that share no state into one run. A variable `part`,
chosen at `Init`, says which of them moves (`In(p, A)`); the others keep still and, if
they could begin in several ways, begin in one. So the states are the union of theirs
and not the product. `MCRuntimeParts`, `MCAgentParts` and `MCRecords` extend the modules
that the theorems are about, so that a run and a theorem speak of the very same
definition, and take the others by `INSTANCE`. A property that belongs to a module which
keeps still is there without a guard: its initial states satisfy it. Several properties
are conjunctions under one name, of a module's own or of several modules':

| property | is the conjunction of |
|---|---|
| `SignalsAreEarned` | `CyclingIsThrash`, `RepeatIsSameFailure`, `EnvironmentChecksBounded`, `AskIsLastResort` (`RecoveryHistory`) |
| `FeedIsFaithful` | `FeedInOrder`, `AttachedMissesNothing` (`EventFeed`) |
| `PartsComplete` | `CallsReturn` (`ProcessManager`), `FeedEnds` (`EventFeed`), `WatchedNotesGetDigested` (`ArchiveWatch`) |
| `RequestsAreSound` | `WholeIsSendable`, `BuiltIsSendable`, `ContextKeepsEvidence` (`ModelContext`) |
| `ChangesAreAccounted` | `EditIsImported`, `EntriesCoverFile` (`FileTools`) |
| `PracticeIsSound` | `PlansAreHonest` (`VerifiedPanel`), `LevelIsOfHistory`, `ShortfallIsTold` (`Mastery`), `CatalogVerifies`, `DeclaredIsWhatFails`, `RejectionMeansLook` (`Drills`), `CallsSurviveText` (`ToolProtocol`), `PairsAreCycles`, `FixesFollowFailures`, `CountsAddUp` (`TranscriptMine`) |
| `ShapesListedOnce` | `QueuedOnce`, `RejectedOnce` (`RuleReview`) |
| `CasesConserved` | `CountsConserved`, `TwinsAreTyped` (`TeacherLoop`) |
| `TasksSurvive` | `TasksLoad`, `TasksKept` (`TaskLedger`) |
| `PassesAreEarned` | `FlakesAreEarned`, `PassesKept` (`CommandCapture`) |
| `CorpusIsSound` | `TaughtIsVerified`, `OneExport`, `TasksTakeTurns` (`TrainingCorpus`) |
| `LaneIsSound` | `TagsAreEarned`, `TaughtOnce`, `LaneIsIdempotent`, `SessionsKept` (`CorpusLane`) |
| `DerivedIsSound` | `AnswersAgree`: `PassesFindFailures` (`Signatures`), `DiagnosesWin`, `ReportsKept` (`ArchiveMine`), `HonestyIsHandedOn`, `LoopCloses`, `DigestedOnce` (`AskLoop`); and `FiguresAgree`: `MetricsAreOfVerdict`, `RatesAreRates`, `JobsAreHonest` (`Verdict`) |

`PanelIsHonest` (`VerifiedPanel`), `LessonsAreEarned` (`Apprenticeship`), `LessonsKept`
(`ExperienceStore`) and `LedgerNeverAhead` (`ArchiveWatch`) are single properties.

### 3.2 Why the bounds are enough

* `lock`: the hard case needs a holder that dies and two waiters that both saw its
  lock. Three writers are that case; the proofs cover any number.
* `gate`: one approval that arrives for a request that has timed out needs two
  requests; two answers to one slot need two clicks. The five tools are one per way
  through the policy (allowed, denied, asked by level, asked by declaration, and a
  rule that allows what the declaration asks for); the one asked by declaration also
  lacks its workspace, which is looked at after the approval.
* `runtime`, processes: every property is about one process, a restart involves two,
  and a race needs one lingering wait and one other call. With three handlers (531 079
  states) and with three processes (1 200 241 states) it holds as well.
* `runtime`, recovery: every history of 7 events. The widest window in a decision is 5
  events, and 7 is the first length at which a success can fall out of it while a
  failure before it still counts for `Repeats`. Thresholds are the defaults of
  `RecoveryPolicy`.
* `runtime`, feeds: 2 feeds, 3 events. A history of 2 of 3 events makes the oldest
  drop out during a replay. Two feeds let one attach while another is being called.
* `runtime`, watcher: two notes and another file, three versions of which one cannot be
  read, three writes: a file can change between scan and digest, return to what it was,
  and a cycle can fail between two notes.
* `agent`, loop: 4 turns, 2 calls a turn. Three equal failures, an alternate, an
  escalation and a last turn meet within 4 turns because each turn may fail twice in
  its calls. `MaxAlternates` is 1 and the window 4 so that every rung is reached within
  them. The session has a verifier and an escalation; the proofs cover those without.
* `agent`, requests: messages that fit, that must be cut and that exceed the budget
  alone, with a budget that holds two of them. Textual calls: every argument of three
  of the characters that quoting, escaping and the scanner treat specially, after
  prose with none, a quote or a bracket of its own.
* `agent`, files: two overlapping calls and one program that imports, three texts and
  three seconds, since a stale import needs two edits within a second.
* `agent`, panels: every plan of two steps, two solutions, three participants, two
  panels in a row. Lab: two tasks, two teachers, three sessions. Levels: two skills,
  three levels and a window of three, the first in which a streak can fall out.
* `agent`, demonstrations: the whole catalog by shape, and every draft of up to 4 steps.
* `agent`, mines: every transcript of three that differ in where the failure, the patch
  and the goal stand, each growing by one part of any kind between the queries.
* `records`, review: two shapes are needed for two candidates that could share an id,
  two detectors for two writes from one read. Ids to 2 let a queue of one shrink and
  grow again; the three properties are proved for every bound. Shapes and processes
  are interchangeable (`SYMMETRY`).
* `records`, teachers: a base with none, one and two rows of a signature meets files
  with a row that is live, one that is new, twins, and none. Alone, four occurrences
  are enough for a session to type a twin, a merge to remove it and a record to reuse
  the id. Overlap needs two teachers and no more occurrences than two.
* `records`, the others: two processes at a time, which is what an overlap needs, and
  the fewest rows with which their rules differ (three tasks added, three keys of two
  commands, four goals of three tasks, three builds with two troubles, two mines with
  one change between them, two runs of a benchmark and one foreign row, a question over
  two cases with a third recorded meanwhile).

### 3.3 Runs that show a disagreement

| run | property | what TLC finds |
|---|---|---|
| `lock_reclaim` | `NoRecordLost`, on POSIX | the reclaim unlinks a fresh lock; an acknowledged row is overwritten |
| `loop_escapes` | `EndsInTerminalState` | an exception that is no `ProviderError` leaves the session RUNNING for ever |
| `gate_sight` | `ApprovedBySight` | a click on a request that has timed out approves the next one, unseen |
| `review_again` | `RejectedNotReproposed` | `qa detect` queues a shape the parents have rejected |
| `stale_code` | `ImportsAreFresh` | a second edit within the second of the bytecode is not what the next import runs |
| `feed_end` | `FeedsAreDrained` | a feed ends with the last events of a run still in its queue |
| `context_verbatim` | `LatestIsVerbatim` | the latest tool result is reduced or cut in a request |

Section 6 says what the text of the repository is in each case.

### 3.4 Deadlock

Every cfg but the one of `RuleReview` says `CHECK_DEADLOCK FALSE`: writers run out of
calls, sessions end, feeds are finished and bounded histories stop, which is what they
are for. Liveness properties take its place where something must get done.
`RuleReview` never stops, and deadlock is checked.

## 4. Fairness

* `RecordLock`: `WF` on each waiter's own steps and on its clock. The retry loop
  runs on a live thread and reads a monotonic clock. A holder need not take a step: it may
  die, or stall for good. `PatienceIsBounded` has one hypothesis, `[]<>~Hung`: no live
  holder sits for ever on an aged lock that Windows will not unlink. There the code
  `continue`s past its deadline (`store.py:77-82`), so that without the hypothesis the
  property is false. On POSIX `Hung` cannot hold.
* `AgentLoop`: `WF(Step)`. The thread is scheduled, and every call it makes returns:
  the provider's requests, tools, the verifier's commands and the confirmer have
  timeouts. Neither a stop nor the deadline is assumed to come.
* `ToolGate`: `WF(Proceed)`, the session's own steps with its two timers (`event.wait`
  and the handler's `timeout_seconds`). `HandlerEnds` and every step of a human are
  outside it, so `EveryCallReturns` holds for a handler that hangs and a page that
  nobody looks at.
* `ProcessManager`: `WF` on each handler's steps; `proc.wait` has a timeout in `stop` and
  in `wait`. No process is assumed to end and no kill to take.
* `EventFeed`: `WF` on the session's thread and on each feed's thread. Disconnects
  are not assumed; `FeedEnds` is about a client that stays.
* `ArchiveWatch`: `WF(Daemon)`, the steps of the daemon's own loop (scan, digest, save).
  A daemon that died is started again by a person, which is assumed of nobody:
  `WatchedNotesGetDigested` speaks of the runs in which it is not left dead for good.

No strong fairness is used anywhere. The other modules have safety properties only:
a command of the companion is one call by a person, and nothing there must go on.

## 5. The proofs

`tlapm <module>_proofs.tla` checks each file to the last leaf. The only assumptions
are the named `ASSUME`s of the modules and the hypotheses named in 5.1. Most `ASSUME`s
give the types and signs of the constants. The others say what the code gives: a session
ends at the first verification that passes and earlier rows agree with themselves
(`StoreAssumption`, `RowsAssumption`), goals are finitely many (`CorpusAssumption`), every
drill of the catalog has a goal of its own (`LaneAssumption`), a cut is never longer than
what was cut (`ContextAssumption`), a file to import loads (`TeacherAssumption`), a plan is a
list of steps (`PanelAssumption`), the lowest level is not above the highest, as by the
defaults, which no caller changes (`MasteryAssumption`), and the limits of the ladder are at least
one or two (`LadderAssumption`). `ProtocolAssumption`, the text before the calls holds no call, is a
hypothesis of the theorems about them; `MCAgentParts` assumes it of its texts.

### 5.1 RecordLock_proofs

`IInv == TypeOK /\ HolderCreated /\ LocalIsCurrent /\ NeverReclaimed`.

* `TypeCorrect`: `TypeOK`, for any number of writers and calls, and any crashes and
  stalls. Its core is the lemma `RecordedLoads`: a file that loads still loads after
  one `record()`, whichever copy it started from.
* `LockExcludes` and `RecordsSerialize`: under `Windows \/ Calm`, where `Calm` is
  `~Crashes /\ ~Stalls`, nobody shares the lock and the store implements `CaseLog`.
  Mutual exclusion is not inductive. What makes it so is `HolderCreated` (whoever has
  the lock file open created the one that exists): on Windows because an open file
  resists the unlink, otherwise because without ageing nobody reclaims
  (`NeverReclaimed`). `LocalIsCurrent` (the copy about to be saved is the file) then
  makes every `Save` a `Record` of the abstract store.
* `NoneIsLost`: under the same hypothesis and with finitely many writers, no
  acknowledged record is lost. `NoRecordLost` compares what is acknowledged with
  what the file counts, and between a save and its acknowledgement the file is ahead.
  `SeenCovers` is the strengthening: the file counts what is acknowledged and, one by
  one, the writers that have saved and not yet returned. `SeenOnce` says what one
  `record()` adds to the count of a signature, and the cardinality theorems say what
  leaves the set of those writers.

The hypothesis cannot be dropped: run `lock_reclaim` is its counterexample. The
theorems also cover what the `lock` run does not instantiate, POSIX without
crashes and stalls.

### 5.2 AgentLoop_proofs

`IInv` has nine conjuncts. `StateFollowsPc` ties the session's state to the place in
`run()`. `LiveSession` and `EndedSession` say what an unfinished and a finished
record look like; together they are what excludes a second `_finish`. `TurnCounted`,
`ChecksArePast` and `UnderTest` make the candidate the answer of this very turn,
newer than every answer checked before it; `CompletionIsVerified` needs both.
`OnFailureMeans` summarises the recovery machine for the cases of `Next`: when it may
ask a human, when it escalates, and that it stays a machine.

* `TypeCorrect`, `CompletesVerified`, `EndsOnce`, `AsksLast`: invariants, for every
  limit and every choice of verifier, recovery and escalation.
* `StopsWork`: the action property `StopEndsWork`.
* `LoopImplementsLifecycle`: the refinement of `SessionLifecycle`, safety part. Each
  action maps to a step or a stutter (`StepMaps`, with one lemma for each way of
  ending).

### 5.3 ToolGate_proofs

`IInv == TypeOK /\ SlotIsOpen /\ AsksAsPolicySays /\ StartedWasAllowed /\
WrittenForRequest`. `SlotIsOpen` says that the slot is open exactly while the thread
waits and holds the last answer written to the current request. With it, reading the
slot after the timeout is reading `LastWord`, and an answer can only be written to
the request that waits. `AsksAsPolicySays` carries what `timely` needs: an event that
ends the wait was set during it, since nothing can be announced for a request before its
slot is open. So an approval written between the timeout and `Conclude` starts nothing.

* `TypeCorrect`, `RunsApproved` (`RunsOnlyIfApproved`), `AnswersReachOpen`
  (`AnswersReachOpenRequests`), `StopsWork` (`StopEndsWork`), for any tools, requests
  and HTTP threads.

### 5.4 RuleReview_proofs

`IInv == TypeOK /\ QueuedOnce /\ CopiesDistinct /\ RejectedOnce /\ AsksWhatIsOpen`.
`CopiesDistinct` says that every copy some process may write back lists a shape
once. `AsksWhatIsOpen` says that the session asks only about shapes that are neither
rejected on disk nor refused in memory, which holds because there is one session at
a time and rejections are saved in one step.

* `TypeCorrect` and `ShapesOnce` (`ShapesListedOnce`), for any detectors and shapes, any
  overlap and any crash.
* `IdsNameOne` (`IdsNameOneCandidate`) and `DecidedBeforeLeaving` (`LeavesOnlyDecided`),
  for processes that do not overlap, as the properties say. `AInv` adds to `IInv` what
  that gives: at most one process is at work (`OneWorker`), what was scanned is
  numbered above the queue (`ScansAreFresh`), and the copy a session decides on is the
  queue itself (`SessionIsFresh`). New ids are above all old ones because a bounded set
  of numbers has a largest one (`Largest`).

### 5.5 ProcessManager_proofs

`IInv == TableInv /\ CallsInv /\ CodeFollows /\ Settled`. `TableInv` is about the
processes alone: what is reported as ended is dead, a reported code is the process's
own, and what a process replaces was started before it and is dead. `Settled` names the
places at which a handler knows that its process has ended; it is what lets a status be
written in a later step than the one that read it. `CodeFollows` accounts for the moment
between the two assignments. Every action is one of four changes of the table (`RowKeeps`
three times, `AppendKeeps`) with one change of `call` (`CallKeeps`).

* `TypeCorrect`, `StatusIsHonest` (`HonestStatus`), `RestartsReplace`
  (`RestartReplaces`), for any number of handlers and processes. `MayCall` is not used:
  they hold for handlers that overlap in any way.

### 5.6 Runtime_proofs

*ArchiveWatch.* `LedgerClaimsDigested` (`LedgerNeverAhead`), for any files, versions and
writers: every hash of a note in the daemon's memory and on disk is of a content that was
digested, or of an older one, as long as no file returns to an earlier content.
`WInv == FilesOK /\ NewestIsLatest /\ LedgersCovered`: a digest reads the file after the
scan that hashed it, so what it reads is at least as new as the hash that will be stored.

*EventFeed.* `FeedTypeCorrect` and `FeedsStayFaithful` (`FeedIsFaithful`), for any number
of feeds and events and any length of history.
`FInv == FeedTypeOK /\ AttachedOnce /\ ReplayInOrder /\ \A f \in Feeds : FeedGiven(f)`.
`AttachedOnce`: a feed is in the list of subscribers, and in the copy a delivery works
through, at most once. `ReplayInOrder`: a replay is a run of sequence numbers of events
emitted before. `FeedGiven` says what an attached feed has been given: its replay, and
after it the events up to `Reached` without a gap, which is all that were emitted, but for
the one whose delivery to it is still to come. They begin with the first event after the
attachment, or with the one that was under delivery at that moment. `GivenIsFaithful` reads
the order and the completeness of what is given off that. What an ended feed has *written*
is another matter: `WrittenWhenQuiet` says that it is everything up to the poll that found
nothing. It holds at that poll because the queue is empty and written and given are the
same, and later because neither the replay nor what was written or counted then changes.
That it need not be everything is run `feed_end`.

*RecoveryHistory.* `HistoryTypeCorrect` and `CountersAreEarned` (`SignalsAreEarned`), for
any failures, thresholds and horizon and for histories of any length; the run checks
histories of 7. `RInv` relates each counter of the machine to the history it has seen:
`SignaturesAreNewest` (the window is the newest part of the failures),
`StreakIsFailures` (the streak is the failures since the last success), `ChecksCounted`
(environment checks that no success has followed, told apart below two) and
`AlternatesCounted` (the alternates in the history). `RepeatsInHistory`
and `CyclingInHistory` then read a decision in terms of the history: what is called a
repeat is the same failure again, what is called thrash is two failures in turn.

*Together.* `PartsTyped` (`TypesOK` of `MCRuntimeParts`): the composition keeps the types
of all four components. Whichever part runs, its step is one of its own component and a
stutter of the other three (`PartsStepKeeps`), so the four inductive invariants carry over.

### 5.7 AgentParts_proofs

*FileTools.* `FileTypeCorrect` and `ToolsAccount` (`ChangesAreAccounted`), for any number
of overlapping calls, texts and seconds. `FileInv` has `LooksAreCurrent` (without overlap,
what a call saw is the file it replaces), `LedgerFollows` (the newest entry is the text of
the file, except between a rename and its entry) and `BytecodeFollows`, which follows the
bytecode through one edit after an import: it is of the file; between the rename and
`Settle` it is of what the call saw, whose second `Settle` then avoids; after that the file
has another second. A second edit is where it stops, and where run `stale_code` goes on.

*VerifiedPanel.* `PanelsStayHonest` (`PanelIsHonest`), for any solutions and any list of
participants, equal names included. `PanelInv` adds `WorksOnProposed` (a chain works on a
text that was proposed; the votes of an independent panel are on its proposals, in
order) and `NotSaidYet`. `PlansStayHonest` (`PlansAreHonest`) is about one run of a plan, of
any length and with any outcomes. `Found` says what i steps have found: the plan is still
passing if no mandatory step has failed, it is aborted if one has and the plan stops there,
and the skipped steps are exactly those behind such a failure; `StepFinds` takes it one
step on.

*Mastery.* `LevelsStayTrue` (`MasteryTypeOK`, `LevelIsOfHistory`), for any skills, streaks and
levels, and `ShortfallsAreTold` (`ShortfallIsTold`), for any goals, patience and number of
tasks. `MasteryInv` says that the window is the end of the history (`WindowMoves`: cutting
what was cut before gives the same) and the level the one of the history. A transition looks
at the last `UpStreak` or `DownFailures` outcomes only, and the window has at least as many
whenever the history has (`WindowDecides`); so the window decides what the history would.
`LevelMoves` says that the level of a longer history is one transition on. A run that draws
tasks is a recursion over its draws, and `Accounted` holds after each of them
(`DrawAccounts`): the tasks and the repeated goals make up the draws, no draw is saved
while tasks are missing, and every task has a goal of its own.

*Apprenticeship.* `MemoryIsEarned` (`LessonsAreEarned`), for any tasks, teachers and
students. `Credited`: whatever was earned is counted in the report.

*ModelContext.* `RequestsStaySound` (`RequestsAreSound`), for any lengths, budget and bounds,
a budget too small for the prompt included. It is about both requests: the whole history, as
the loop sends it without a builder, and what `ContextBuilder.build` makes of it.
That the whole can be sent is an invariant of
the session: `CallsAnswered` (every turn's calls have their results before the model speaks
again, those of the last turn as far as none is owed), and a session that asks does not end
with the model (`WholeHolds`). It carries over to the contents because no message vanishes:
a turn without text has calls (`SentOneByOne`), and a sequence of one content per message is
flattened to these contents (`FlattenOfOnes`).
What is built is the recursion `Kept`. `KeptExists` shows that a function with the defining
equation exists (`RunExists`, which builds it prefix by prefix), and `SizeRuns` the same of
the length of a request, which grows by what is appended (`SizeOfAppend`). `KeptKeepsEvidence`
argues from a least counterexample: what was kept stays kept, since `Consider` only appends
(`ConsiderTyped`), and the step that meets the latest result appends it in a form shortened
only for want of room (`LatestFormFits`); what lacks room lacks it still when more is kept
(`RoomShrinks`). `EvidenceHolds` is that for the whole history. The message considered last
is the oldest, the goal: it is appended, and then a user turn ends the request, or there was
no room for it (`BuiltEnds`).

*ToolProtocol.* `CallsAreReadBack`: any calls, with string values of any characters, after any
text that holds no call, are read as they were written; `CallsAlwaysSurvive`
(`CallsSurviveText`) is what follows for the calls of the run. The argument goes through the
reader from the inside. Four replacements one after the other are one escape per character
(`EscapedGrows`), and undoing them one by one gives the text back (`EscapesUndone`): the
backslash has to be replaced first. Inside quotes the scan stays inside along an escaped
text and leaves at the closing quote (`EscapedStaysInside`, `StringEnds`), so quotes,
parentheses or a whole call in a value are not seen. A balanced text is one that the scan
passes without leaving its depth; a value, a pair, the arguments and the calls before a place are
balanced (`QuotedIsBalanced`, `PieceIsBalanced`, `BodyIsBalanced`, `BlockIsBalanced`), so the
parenthesis that closes a head is the one written for it (`ClosingFound`), and a head in the
text before stays open whatever follows (`HeadIsMissed`). Where the pieces of a joined
text lie is `FlattenPlaces`. `PairsRead` and `CallsRead` are then inductions over the pairs and over
the calls, by a least counterexample: having read i of them the reader stands behind the
i-th, and passes over every place in between (`PairIdle`, `CallIdle`).

### 5.8 Records_proofs

*CommandCapture.* `CaptureTypeCorrect` and `PassesCounted` (`PassesAreEarned`), for any
shells and keys. `PassesKept` says what the sidecar holds when all are at rest; the
invariant must say where a pass is meanwhile. `PassesCovered`: what the sidecar has, or
what a copy about to replace it has, and one for every shell that holds a pass (`Holders`),
is no more than is due. `SingleExact`: where runs do not overlap it is exactly that.

*ExperienceStore, TrainingCorpus.* `CorpusTypeCorrect`, `LessonsStay` (`LessonsKept`),
`CorporaStaySound` (`CorpusIsSound`), for any finite set of goals, any tasks and cap, any
recorders, cleaners and sessions.
`RowsEarned`: in every copy of the store, the two in the temporary name and the hands of a
process included, a row has a proof exactly if its steps were proved; so eligibility, which
reads the proof, teaches proved steps. `LessonsHeld`: where clean-ups keep apart, at most
one recorder is at work, and every copy that may become the store has what was told.
The shares of the tasks are two recursions, a round over the tasks and the rounds of a
budget. `RunExists` shows that such a recursion has the values one more step gives
(`RoundRuns`, `QuotaRuns`); along it, `TurnsTaken` says who had a turn in the round that
follows r whole ones, and `Shared` that nobody was given more than r + 1 and nobody who is
short less than r. `GroupsAreTurns` says that the groups are each task with a real
trajectory, once (finite cardinalities), which is where the finiteness of `Goals` is
needed: an export is a file. A budget that ends in the middle of a round is why the
difference may be one.

*TaskLedger.* `TasksTyped` and `TasksStay` (`TasksSurvive`), for any clerks. `LedgerExact`:
one at a time, the file, or the copy that will replace it, has exactly the tasks added and
not deleted. That a deletion keeps the order of ids and takes just one number away is
`RowDeleted`, which speaks of the sequence in two pieces (`Joining`, `RowRemoved`).

*TeacherLoop.* `TeacherTypeCorrect`, `CasesAreConserved` (`CasesConserved`) and the action
property `ReviewsStay` (`ReviewedStaysReviewed`), for any teachers, signatures, files to
import and number of occurrences.
`TeacherInv == TeacherTyped /\ TwinsKnown /\ SoloExact`. `TeacherTyped` includes that the
file, and whatever a teacher holds, loads. `TwinsKnown`: a signature that is twice in the
file or in somebody's hands was typed in by a person. `SoloExact`: where teachers do not
overlap, the file counts what is owed, and the copy in hand counts what it will owe and has
every reviewed case of the file still reviewed.

Two operators of this module are folds over sequences: `Total` (occurrences) and
`MergedWith` (the import). A fold is defined by a recursive function, and what such a
function returns must be shown to exist before anything can be said of it. `FoldExists`
does so: `FoldLeft` on a sequence has, at each position, the value that one more step gives
to the one before. The induction that this and the lemmas after it need is one over the
positions up to a bound, which `UpTo` proves from a least counterexample (`LeastOf`), since
the library's induction theorem cannot be instantiated. `Sums` is that statement for `Total`; `TotalAppended`, `TotalChanged`,
`TotalSame` and `TotalRemoved` say what each operation adds. `MergedWithFacts` goes
through the imported file (along `MergedAlong`) with one invariant for the base so far: it
loads, counts what has been folded in, makes no twins, and `GoesOn` from the base before, that is, has the same rows
under the same ids, reviewed where they were, and after them only new signatures.
`GoesOn` is what one `record()`, one typed case and one folded case have in common.

*CorpusLane.* `LanesStaySound` (`LaneIsSound`), for any drills and scripts, any number of
versions and builds, and any crashes, failed runs and recorded sessions between two steps.
`LaneInv == LaneTyped /\ (calm => CalmInv)`. `JobFits`: what a command has loaded is what is
on file, and the row it is about to tag is the last one. `RowsFit`: a row of a drill is
tagged as authored and one of a script is not, so the two commands never take each other's
rows. `Cleaned` says pass by pass what a build has cleaned up so far; at `cover` it is
`TaughtOnce`. Idempotence is `DrillsOnce` and `ScriptsOnce`, which hold while nothing but
sessions has come between (`Smooth`): a demonstration on file is tagged or about to be, so the
next build counts it as covered, and a task that is not covered has no demonstration
before its turn. Several scripts share a goal, and covering one covers all of them: so what
is once is a script under a version, not a goal.

### 5.9 Model-checked only

* Liveness, for it rests on fairness and `ENABLED`: `PatienceIsBounded`,
  `LoopTerminates`, `EveryCallReturns`, `PartsComplete`.
* `PracticeIsSound`: its parts about `VerifiedPanel` and `Mastery` are theorems (5.7). So
  is that of the textual protocol. The bar of the demonstrations and the scans of the mines
  are folds over texts, and what they return for every input would each need an argument of
  its own, like those of `FoldExists` and `RunExists`; the runs enumerate the inputs
  within a bound. `CatalogVerifies` is about one fixed catalog, which the run has whole.
* `DerivedIsSound`: the keys of `Signatures`, the mined files and the retrieval of `AskLoop`
  for the same reason; the figures of `Verdict` besides. A recursion of the model has to be
  argued about one by one: this was done for `FoldLeft`, `Kept`, `Round`, `Quota`, `Verdicts`,
  `LevelAfter`, `Drawing` and the reader and writer of `ToolProtocol`.
* `TypesOK` of `MCAgentParts` and `MCRecords`: its parts are theorems for `AgentLoop`,
  `FileTools`, `Mastery`, `ModelContext` (inside `ContextInv`), `RuleReview`, `TeacherLoop`, `TaskLedger`,
  `CommandCapture`, `TrainingCorpus` and `CorpusLane` (inside `LaneInv`); those of the
  modules that the two points above are about are only checked.

## 6. Where the code and its documentation disagree

### 6.1 Shown by a run

* **A fresh lock is reclaimed** (`store.py:79`, run `lock_reclaim`). `stat()` and
  `unlink()` name a path and not a file. Two waiters see the lock of a dead holder as
  stale; one unlinks it and takes the lock, the other then unlinks that. Both save,
  and one acknowledged row is gone. `store.py:200-201` promises the opposite. It needs
  POSIX semantics and a holder that died or stalled for 30 s.
* **An exception leaves a session running** (`loop.py:263`, run `loop_escapes`). Only
  `ProviderError` is caught around `generate()`. `docs/s37-spec.md:75` guarantees a
  terminal state. A context builder or an escalation factory that raises has the same
  effect (`loop.py:491`).
* **A click approves a request nobody saw** (`server.py:433`, run `gate_sight`). A
  confirmation carries no request id. A click on a request that has timed out since
  it was shown lands in the next one's slot.
* **A rejected rule is proposed again** (`detect.py:152`, run `review_again`).
  `adjudicate.py:5-6` says a rejected shape is not re-proposed; `run_detection`
  compares with the queue only, and the rejection hides the shape later.
* **An edit does not run** (`agent/fs_tools.py:52`, run `stale_code`). A write moves the
  time stamp off the second of the text it replaces. With bytecode of second 1, the
  first edit is moved to second 2, and another one within second 1 is compared with
  that and left in second 1, the second of the bytecode.
* **A feed ends with events in its queue** (`agent/server.py:589`, run `feed_end`). The
  writer looks at `done` after its poll has timed out and does not look at the queue
  again. The last events of a run that finishes in between never reach the client.
  `docs/s52-spec.md:55-56` says that the stream ends when the queue is drained.
* **The latest result is not always verbatim** (`agent/context.py:254-258`, run
  `context_verbatim`). A result longer than 4000 characters, or one that does not fit,
  is reduced and at last cut to 800. `agent/context.py:14-15` and
  `docs/s56-spec.md:37-38` say that it is always kept verbatim.

### 6.2 Observed while modelling, without a run of their own

* `store.py:82`: the reclaim path `continue`s without looking at the deadline. If the
  unlink fails every time (a stale lock whose holder is alive on Windows), the waiter
  spins past its 10 s. That such a holder lets go in the end is the hypothesis of
  `PatienceIsBounded`.
* `skills/archive_mine.py:342`: `export_mined` writes id 0 in every row and `load()`
  refuses ids below 1 (`store.py:118-119`), so that what `qa mine` writes cannot be
  imported, against `archive_mine.py:3-4,12`.
* `skills/archive_mine.py:299`: a repository whose `git log` fails is counted as scanned,
  and neither read nor warned of.
* `agent/context.py:208`: the builder leaves every message of role system out but the first,
  reminders included, and the advice of the brain is one (`agent/loop.py:425-434`): with a
  builder it reaches no request.
* `agent/context.py`: a request with a budget may end with a turn of the model, where nothing
  had room after it, not even the goal once more (`BuiltIsSendable` says just that).
  Gemini refuses such a request.
* `recovery.py:13` says that the ladder never de-escalates; a verification failure
  after an exhausted ladder gets the first rung again.
* `recovery.py:159`: exhaustion with a recovery machine ends with reason "terminate"
  where `docs/s37-spec.md:55-56` and `docs/s58-spec.md:55` name the old reasons.
* `server.py:424-425`, `385`: a click that wins the lock just after the timeout and
  before `Conclude` answers "confirmed" while the request is denied. The denial is
  safe; the page is told otherwise.
* `docs/s45-spec.md:41-43` says that `stopped` is "killed by the agent" and that crash
  detection is reading `exited`. `processes.py:201` (a lingering wait) and 114 (a
  `refresh` that has just seen the code) overwrite `stopped` with `exited`, so a server
  the agent stopped can be listed as one that crashed. `WaitEnds`, then `MarkStopped`,
  then `MarkExited` in the model.
* `permissions.py:18-19` says that confirmation outcomes land in the audit trail;
  `registry.py` emits an event for them and adds no entry.
* `server.py:445-447`: an event emitted between the copy of the history and the
  attachment of the callback reaches neither. `AttachedMissesNothing` is stated from
  the attachment on because of it.
* `auto_capture.py:115` catches `ValueError` only, so a `StoreLockedError` ends
  `qa run` with a traceback where `auto_capture.py:91-92` says that the child's exit
  code is never masked.
* `escalation.py:100-101` says a `by` value is required; `None` is accepted.
* `teach.py:6-7` says the pack is re-validated after each write; it is validated
  before the write, and written in place.
* `store.py:208-217`: a new occurrence overwrites a confirmed diagnosis and, when it
  is auto-captured, the reviewer's name. Auto-captured cases are never pending for
  school although their diagnosis says they await a teacher.
* After the last row is merged away its id goes to the next new case, and the
  `merged_from` note of the target then names that case.
* An import of an empty file without `--merge` replaces the base with nothing.
* A session that dies between the install of a rule and the write of the queue asks
  about the candidate again, and the rule can be installed twice.
* `agent/context.py:281-283`: the report says that the latest tool result was kept
  verbatim if any tool message it kept is short, whichever that is.
* `tools.py:10` bounds the calls of one question by `MAX_TOOL_CALLS`; the bound is on
  rounds (`ollama_bridge.py:376`), and a reply may hold several calls. On a fallback the
  results of tools are dropped, and citations name the first context only.
* `agent/qa_brain.py:123-124` takes the first of two twins where `lookup.py` answers that
  the signature is ambiguous.
* `signatures.py:39` says that `canonical()` is idempotent; it is not for every text with
  several separators or quotes.
* `training.py:40-49`: the holdout is compared by raw signature where
  `accuracy.py:91-96` makes it canonical, and a holdout file that cannot be read excludes
  nothing.
* `skills/digest.py`: the old content of a changed document stays, equal contents keep
  their first source, and overlapping runs lose passages.
* `agent/providers.py:407`: a textual call holds values that the parser does not read
  back; `CallsSurviveText` says which values do survive.
* `agent/fs_tools.py:188` calls its output byte-faithful; line ends change from CRLF to
  LF. Overlapping calls share the temporary name of `fs_tools.py:208`.
* `agent/multi_agent.py:135`: participants of equal names overwrite each other's
  proposals. A judge's own text is returned without being verified.
* `agent/apprenticeship.py:168-171` keeps lessons apart by a goal of their own; the lesson
  of a second teacher has the same one and merges into the first.
* `agent/curriculum.py:432-437`: a recommendation rests on the bounded window only.
* `agent/ep1.py:546` is a "one-time" repair that every build of the lane runs, and it
  stamps the present version on authored rows of any version. `ep1.py:600-602` says that
  only two drills open with a failing read; three authored ones do, so every build
  supersedes and records them again, against `ep1.py:2327-2330`.
* `agent/ep1.py:2261-2262`: a mutation proof "must WRITE the test file"; the check passes
  when the fixture has it. At run time `write_file` then refuses, the file being there.
* The bar does not simulate `write_file` and lets through edits that change nothing,
  which `fs_tools.py:232-233` refuses. Some persist drills take 14 turns, more than the 12
  of a verdict (`ep1.py:3323`).
* `agent/ep1.py:484-485`: `success_rate` leaves "recovered" out, and metrics are of all
  rows of the model that came in meanwhile. `RatesAreRates` and `MetricsAreOfVerdict`
  say under which conditions they are what they are called.
* `agent/opencode_mine.py:269`: all sessions without a goal share one goal, so the store
  merges them into one row. `labdb_mine.py:14-17` speaks of merging instead of double
  counting; `times_seen` counts twice.
* `skills/archive_mine.py`: a source that is not UTF-8 ends the whole run.
* `watch.py`: a note that returns to an earlier content between two cycles can be
  skipped, and one that is not UTF-8 ends the daemon.
* `agent/execution.py:191-197`: a command that ends while it is being killed is reported
  as timed out with exit code 0.
* `agent/server.py:304-311`: a job's thread starts before the job is registered.

## 7. What is left out

* **Inside the modelled components.** Times, excerpts, and the text of messages, events
  and observations. Schema validation of tool arguments is one nondeterministic outcome
  (`Invalid`). Directory browsing and HTTP parsing of the server, the trimming of the
  audit trail, `unsubscribe`, which nobody calls, the order of the lines of the rule
  queue, port and health probes of processes. Read-only operations (`export`, reports,
  searches).
* **Parts without state of their own.** The router and the reminders of the context, the
  path arithmetic of the workspace, code intelligence, the report of `qa`, the parser and
  the read-only commands of the command line, the export of the fine-tuning kit.
* **I/O and wrappers.** HTTP with its retries in the providers and the bridge (their
  outcomes are the replies of `AgentLoop`, `AskLoop`), git and the environment report,
  web, browser, computer and vision tools (they run behind `ToolGate`), the front end (its
  polls and clicks are the HTTP threads), the fine-tuning script, which needs a GPU.
* **Details.** A plan's `must_contain` and `must_not_contain` are one condition of
  `StepPasses`, and exit code 0 stands for the expected one. The bar's reading of the text
  of a mutation proof (`ep1.py:2275-2281`: the target's name and an `assert` in the test)
  is left out, and so are blanks between the end of a textual call and its bracket. The
  newest row of `CorpusLane` is the last one recorded, where the code compares time stamps
  of a second. How the agent's brain finds its advice, the replay of the holdout and the
  scores made of it are left out; that there is advice is a message of `ModelContext`.
* **Fixtures.** `Drills` has the catalog by shape, with the names and numbers of each drill
  abstracted to what its edits and tests tell apart.

## 8. What could come next

* Proofs: the single run of `Verdict`, the scans of the mines, and the types of the remaining modules, with which the `TypesOK` of the other
  two compositions would follow from those of its parts.
* Modules: the router's tiers with their fallbacks, the audit trail with its bound.
* Larger compositions: `VerifiedPanel` under the verification steps of `AgentLoop`, and
  `AgentLoop` writing the rows that `TrainingCorpus` starts from.
