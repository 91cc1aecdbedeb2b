------------------------------ MODULE FileTools ------------------------------
(***************************************************************************)
(* One file under write_file and edit_file (agent/fs_tools.py): a handler  *)
(* looks at the file, writes a temporary one, renames it over the file and *)
(* enters what it did in the change ledger.  A handler that outlasts its   *)
(* tool's timeout lingers beside the next one, and programs the agent runs *)
(* write the file too.  The file is Python source, whose bytecode counts   *)
(* as fresh while the second of the modification time (and the size, which *)
(* never changes here) is the one it was compiled from.                    *)
(***************************************************************************)
EXTENDS Integers, Sequences, SequencesExt

CONSTANTS Hands,    \* handlers that may overlap
          MaxTexts, \* bound: texts written, every one a new one
          MaxClock  \* bound: seconds that pass

ASSUME FileAssumption == MaxTexts \in Nat /\ MaxClock \in Nat \ {0}

VARIABLES file,    \* [text, mtime], text 0 when there is none
          temp,    \* temp[tool]: the file under its temporary name
          hand,    \* hand[h]: the call under way
          ledger,  \* ChangeLedger.entries: [before, after]
          texts,   \* texts written so far
          clock,
          pyc,     \* the bytecode: [text, mtime] it was compiled from
          since,   \* who has changed the file since an import ran what is there
          lost,    \* texts replaced by a call that had not seen them, or may not
          foreign, \* the file is as another program left it
          alone    \* calls and other programs never overlap

fileVars == <<file, temp, hand, ledger, texts, clock, pyc, since, lost, foreign, alone>>

Absent == [text |-> 0, mtime |-> 0]
Idle == [at |-> "idle", tool |-> "edit", over |-> TRUE, text |-> 0, seen |-> Absent]

FileInit == /\ file = Absent /\ temp = [t \in {"write", "edit"} |-> Absent]
            /\ hand = [h \in Hands |-> Idle]
            /\ ledger = <<>> /\ texts = 0 /\ clock = 1 /\ pyc = Absent
            /\ since = <<>> /\ lost = {} /\ foreign = TRUE /\ alone \in BOOLEAN

Quiet == \A h \in Hands : hand[h].at = "idle"
MayStart == texts < MaxTexts /\ (alone => Quiet)

(* Fault: overwrite is not asked for. *)
OverwritesAnyway(overwrite) == TRUE

(* write_file refuses an existing file unless it is told to overwrite it. *)
Overwrites(overwrite) == overwrite \/ file = Absent

Look(h, tool, overwrite) ==
    /\ hand[h].at = "idle" /\ MayStart
    /\ texts' = texts + 1
    /\ hand' = [hand EXCEPT ![h] = [at |-> "put", tool |-> tool, over |-> overwrite,
                                 text |-> texts', seen |-> file]]
    /\ UNCHANGED <<file, temp, ledger, clock, pyc, since, lost, foreign, alone>>

WriteFile(h) == \E overwrite \in BOOLEAN : Overwrites(overwrite) /\ Look(h, "write", overwrite)

(* edit_file needs a file; its new text is made of the one it has read. *)
EditFile(h) == file # Absent /\ Look(h, "edit", TRUE)

PutTemp(h) ==
    /\ hand[h].at = "put"
    /\ temp' = [temp EXCEPT ![hand[h].tool] = [text |-> hand[h].text, mtime |-> clock]]
    /\ hand' = [hand EXCEPT ![h].at = "replace"]
    /\ UNCHANGED <<file, ledger, texts, clock, pyc, since, lost, foreign, alone>>

(* os.replace: the temporary file keeps its modification time; without one *)
(* the call fails.                                                         *)
Replace(h) ==
    LET new == temp[hand[h].tool]
    IN /\ hand[h].at = "replace"
       /\ IF new = Absent
          THEN /\ hand' = [hand EXCEPT ![h] = Idle]
               /\ UNCHANGED <<file, temp, since, lost, foreign>>
          ELSE /\ file' = new /\ temp' = [temp EXCEPT ![hand[h].tool] = Absent]
               /\ lost' = IF file = Absent \/ (hand[h].over /\ file = hand[h].seen) THEN lost ELSE lost \cup {file.text}
               /\ hand' = [hand EXCEPT ![h].at = "settle"]
               /\ since' = Append(since, "tool") /\ foreign' = FALSE
       /\ UNCHANGED <<ledger, texts, clock, pyc, alone>>

(* _ensure_fresh_mtime: off the second of the text that was replaced, by   *)
(* 1.05 s, which is one second or two.                                     *)
Touched(seen) == IF seen # Absent /\ file.mtime = seen.mtime
                 THEN {file.mtime + 1, file.mtime + 2} ELSE {file.mtime}

(* The new hash is that of the file as it is by now; when it has gone, the *)
(* call fails and the ledger has no entry.                                 *)
Settle(h) ==
    /\ hand[h].at = "settle"
    /\ IF file = Absent THEN UNCHANGED <<file, ledger>>
       ELSE /\ \E mtime \in Touched(hand[h].seen) : file' = [file EXCEPT !.mtime = mtime]
            /\ ledger' = Append(ledger, [before |-> hand[h].seen.text, after |-> file.text])
    /\ hand' = [hand EXCEPT ![h] = Idle]
    /\ UNCHANGED <<temp, texts, clock, pyc, since, lost, foreign, alone>>

(* A command the agent runs writes the file, or removes it. *)
OtherWrites ==
    /\ MayStart /\ texts' = texts + 1
    /\ file' \in {Absent, [text |-> texts', mtime |-> clock]}
    /\ since' = Append(since, "other") /\ foreign' = TRUE
    /\ UNCHANGED <<temp, hand, ledger, clock, pyc, lost, alone>>

(* What an import runs: the bytecode, if it counts as fresh. *)
Imported == IF pyc # Absent /\ pyc.mtime = file.mtime THEN pyc.text ELSE file.text

Import ==
    /\ file # Absent /\ (alone => Quiet)
    /\ pyc' = [text |-> Imported, mtime |-> file.mtime]
    /\ since' = IF Imported = file.text THEN <<>> ELSE since
    /\ UNCHANGED <<file, temp, hand, ledger, texts, clock, lost, foreign, alone>>

Tick == /\ clock < MaxClock /\ clock' = clock + 1
        /\ UNCHANGED <<file, temp, hand, ledger, texts, pyc, since, lost, foreign, alone>>

FileNext == \/ \E h \in Hands : WriteFile(h) \/ EditFile(h) \/ PutTemp(h) \/ Replace(h) \/ Settle(h)
            \/ OtherWrites \/ Import \/ Tick
FileSpec == FileInit /\ [][FileNext]_fileVars

-----------------------------------------------------------------------------
FileTypeOK ==
    /\ {file.text, pyc.text} \cup {temp[t].text : t \in DOMAIN temp} \subseteq 0..texts
    /\ texts \in 0..MaxTexts /\ clock \in 1..MaxClock /\ lost \subseteq 1..texts
    /\ \A h \in Hands : hand[h].at \in {"idle", "put", "replace", "settle"}

(* A tool's change after an import is what the next import runs, although  *)
(* it falls into the second the bytecode was compiled in                   *)
(* (fs_tools._ensure_fresh_mtime).                                         *)
EditIsImported ==
    alone /\ Quiet /\ since = <<"tool">> /\ file # Absent => Imported = file.text

(* Whatever the tools change between two imports, the second runs the code *)
(* that is there ("Guarantee the written file's mtime differs from the     *)
(* recorded one").  Two edits within the second of the bytecode break it.  *)
ImportsAreFresh ==
    alone /\ Quiet /\ "other" \notin Range(since) /\ file # Absent => Imported = file.text

(* One call at a time: nothing is lost that no call had seen, and a file   *)
(* that no other program has touched since is the last entry of the ledger *)
(* (ChangeLedger, write_file, edit_file).                                  *)
EntriesCoverFile ==
    alone => /\ lost = {}
             /\ Quiet /\ ~foreign => ledger # <<>> /\ Last(ledger).after = file.text

(* A tool's change is what the next import runs, and the ledger accounts   *)
(* for every change.                                                       *)
ChangesAreAccounted == EditIsImported /\ EntriesCoverFile
=============================================================================
