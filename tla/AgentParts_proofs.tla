-------------------------- MODULE AgentParts_proofs --------------------------
(***************************************************************************)
(* What the agent changes, what it calls verified, what it learns and what *)
(* it shows its model, for any number of those who take part: the file     *)
(* tools account for every change, a panel calls only what has passed      *)
(* verified, a plan passes only with every mandatory step, a student's     *)
(* level is that of its whole history, memory takes only lessons that      *)
(* helped, a request keeps the evidence whatever the budget, and the calls *)
(* a model is taught are read as they were written.                        *)
(***************************************************************************)
EXTENDS FileTools, VerifiedPanel, Mastery, Apprenticeship, ModelContext, ToolProtocol,
        SequenceTheorems, FiniteSetTheorems, WellFoundedInduction, TLAPS

-----------------------------------------------------------------------------
(* FileTools.                                                              *)

(* A copy of the file, or none; a handler and the copy it has seen. *)
Copies == {Absent} \cup [text : 1..texts, mtime : Nat]
Calls  == [at : {"idle", "put", "replace", "settle"}, tool : {"write", "edit"},
           over : BOOLEAN, text : 0..texts, seen : Copies]

FilesTyped ==
    /\ file \in Copies /\ pyc \in Copies
    /\ temp \in [{"write", "edit"} -> Copies]
    /\ hand \in [Hands -> Calls]
    /\ \A h \in Hands : hand[h].at # "idle" => hand[h].text \in 1..texts
    /\ texts \in 0..MaxTexts /\ clock \in 1..MaxClock /\ lost \subseteq 1..texts

Settling == \E h \in Hands : hand[h].at = "settle"

(* One call at a time: nobody changes the file between a call's look and   *)
(* its rename, so that it replaces what it has seen, or may replace.       *)
LooksAreCurrent ==
    alone => /\ \A g, h \in Hands : hand[g].at # "idle" /\ hand[h].at # "idle" => g = h
             /\ \A h \in Hands : hand[h].at \in {"put", "replace"} =>
                    hand[h].seen = file /\ (hand[h].over \/ file = Absent)
             /\ \A h \in Hands : hand[h].at = "settle" => file # Absent /\ since # <<>>
             /\ lost = {}

(* Between the rename and the entry the ledger is one change behind. *)
LedgerFollows ==
    alone /\ ~foreign /\ ~Settling => ledger # <<>> /\ Last(ledger).after = file.text

(* What the bytecode was compiled from, along one change after an import:  *)
(* it is the file; it is what the call has seen that changes it; the file  *)
(* has left its second.                                                    *)
BytecodeFollows ==
    alone /\ pyc # Absent =>
        /\ since = <<>> => file = pyc
        /\ \A h \in Hands : hand[h].at = "settle" /\ since = <<"tool">> => hand[h].seen = pyc
        /\ ~Settling /\ since = <<"tool">> /\ file # Absent =>
               pyc.mtime # file.mtime \/ pyc.text = file.text

HistoryTyped == since \in Seq({"tool", "other"}) /\ ledger \in Seq([before : Nat, after : Nat])

FileInv == FilesTyped /\ HistoryTyped /\ LooksAreCurrent /\ LedgerFollows /\ BytecodeFollows

(* Initially there are no files, no calls and no changes. *)
LEMMA InitFileInv == FileInit => FileInv
<1> SUFFICES ASSUME FileInit PROVE FileInv
  OBVIOUS
<1> USE DEF FileInit
<1>1. FilesTyped
  BY FileAssumption DEF FilesTyped, Copies, Calls, Idle, Absent
<1>2. HistoryTyped
  BY DEF HistoryTyped
<1>3. LooksAreCurrent /\ LedgerFollows /\ BytecodeFollows
  BY DEF LooksAreCurrent, LedgerFollows, BytecodeFollows, Idle, Settling
<1> QED BY <1>1, <1>2, <1>3 DEF FileInv

(* More texts make more copies. *)
LEMMA CopiesGrow ==
  ASSUME texts \in Nat, texts' \in Nat, texts <= texts'
  PROVE  Copies \subseteq Copies' /\ 1..texts \subseteq 1..(texts') /\ 0..texts \subseteq 0..(texts')
  BY DEF Copies

(* A handler looks at the file and begins a call. *)
LEMMA LookKeeps ==
  ASSUME FileInv, NEW h \in Hands, NEW tool \in {"write", "edit"}, NEW over \in BOOLEAN,
         over \/ file = Absent, Look(h, tool, over)
  PROVE  FileInv'
<1> USE FileAssumption DEF Look, FileInv
<1>t. texts \in Nat /\ texts' \in Nat /\ texts <= texts' /\ texts' \in 1..MaxTexts
  BY DEF FilesTyped, MayStart
<1>g. Copies \subseteq Copies' /\ 1..texts \subseteq 1..(texts') /\ 0..texts \subseteq 0..(texts')
  BY <1>t, CopiesGrow
<1>1. FilesTyped'
  <2>1. [at |-> "put", tool |-> tool, over |-> over, text |-> texts', seen |-> file] \in Calls'
    BY <1>t, <1>g DEF Calls, FilesTyped
  <2>2. hand' \in [Hands -> Calls']
    BY <2>1, <1>g DEF FilesTyped, Calls
  <2>3. \A g \in Hands : hand'[g].at # "idle" => hand'[g].text \in 1..(texts')
    BY <1>t, <1>g DEF FilesTyped
  <2>4. temp' \in [{"write", "edit"} -> Copies'] /\ file' \in Copies' /\ pyc' \in Copies'
    BY <1>g DEF FilesTyped
  <2>5. lost' \subseteq 1..(texts') /\ clock' \in 1..MaxClock
    BY <1>g DEF FilesTyped
  <2> QED BY <2>2, <2>3, <2>4, <2>5, <1>t DEF FilesTyped
<1>2. HistoryTyped'
  BY DEF HistoryTyped
<1>3. Settling' <=> Settling
  BY DEF Settling, FilesTyped
<1>4. LooksAreCurrent'
  BY DEF LooksAreCurrent, FilesTyped, MayStart, Quiet
<1>5. LedgerFollows' /\ BytecodeFollows'
  BY <1>3 DEF LedgerFollows, BytecodeFollows, FilesTyped
<1> QED BY <1>1, <1>2, <1>4, <1>5

(* The temporary file is written. *)
LEMMA PutKeeps ==
  ASSUME FileInv, NEW h \in Hands, PutTemp(h)
  PROVE  FileInv'
<1> USE FileAssumption DEF PutTemp, FileInv
<1>u. texts' = texts /\ Copies' = Copies /\ Calls' = Calls
  BY DEF Copies, Calls
<1>1. FilesTyped'
  <2>1. [text |-> hand[h].text, mtime |-> clock] \in Copies
    BY DEF FilesTyped, Copies
  <2>2. temp' \in [{"write", "edit"} -> Copies]
    BY <2>1 DEF FilesTyped
  <2>3. hand' \in [Hands -> Calls]
    BY DEF FilesTyped, Calls
  <2>4. \A g \in Hands : hand'[g].at # "idle" => hand'[g].text \in 1..texts
    BY DEF FilesTyped
  <2> QED BY <2>2, <2>3, <2>4, <1>u DEF FilesTyped
<1>2. HistoryTyped'
  BY DEF HistoryTyped
<1>3. Settling' <=> Settling
  BY DEF Settling, FilesTyped
<1>4. LooksAreCurrent'
  BY DEF LooksAreCurrent, FilesTyped, Calls
<1>5. LedgerFollows' /\ BytecodeFollows'
  BY <1>3 DEF LedgerFollows, BytecodeFollows, FilesTyped, Calls
<1> QED BY <1>1, <1>2, <1>4, <1>5

(* The rename: the ledger falls behind, and the bytecode may be of the     *)
(* second of the new file.                                                 *)
LEMMA ReplaceKeeps ==
  ASSUME FileInv, NEW h \in Hands, Replace(h)
  PROVE  FileInv'
<1> USE FileAssumption DEF FileInv
<1> DEFINE new == temp[hand[h].tool]
<1>u. texts' = texts /\ Copies' = Copies /\ Calls' = Calls
  BY DEF Replace, Copies, Calls
<1>n. hand[h] \in Calls /\ new \in Copies /\ hand[h].at = "replace"
  BY DEF FilesTyped, Calls, Replace
<1>1. CASE new = Absent
  <2>0. /\ hand' = [hand EXCEPT ![h] = Idle]
        /\ UNCHANGED <<file, temp, since, lost, foreign, ledger, texts, clock, pyc, alone>>
    BY <1>1 DEF Replace
  <2>1. FilesTyped'
    <3>1. Idle \in Calls
      BY DEF Idle, Calls, Copies, FilesTyped
    <3>2. hand' \in [Hands -> Calls] /\ \A g \in Hands : hand'[g].at # "idle" => hand'[g].text \in 1..texts
      BY <2>0, <3>1 DEF FilesTyped, Idle
    <3> QED BY <2>0, <3>2, <1>u DEF FilesTyped
  <2>2. HistoryTyped'
    BY <2>0 DEF HistoryTyped
  <2>3. Settling' <=> Settling
    BY <2>0, <1>n DEF Settling, FilesTyped, Idle
  <2>4. LooksAreCurrent'
    BY <2>0 DEF LooksAreCurrent, FilesTyped, Idle
  <2>5. LedgerFollows' /\ BytecodeFollows'
    BY <2>0, <2>3, <1>n DEF LedgerFollows, BytecodeFollows, FilesTyped, Idle
  <2> QED BY <2>1, <2>2, <2>4, <2>5
<1>2. CASE new # Absent
  <2>0. /\ file' = new /\ temp' = [temp EXCEPT ![hand[h].tool] = Absent]
        /\ lost' = IF file = Absent \/ (hand[h].over /\ file = hand[h].seen) THEN lost ELSE lost \cup {file.text}
        /\ hand' = [hand EXCEPT ![h].at = "settle"]
        /\ since' = Append(since, "tool") /\ foreign' = FALSE
        /\ UNCHANGED <<ledger, texts, clock, pyc, alone>>
    BY <1>2 DEF Replace
  <2>1. FilesTyped'
    <3>1. hand' \in [Hands -> Calls]
      BY <2>0 DEF FilesTyped, Calls
    <3>2. \A g \in Hands : hand'[g].at # "idle" => hand'[g].text \in 1..texts
      BY <2>0, <1>n DEF FilesTyped
    <3>3. temp' \in [{"write", "edit"} -> Copies]
      BY <2>0 DEF FilesTyped, Copies
    <3>4. file # Absent => file.text \in 1..texts
      BY DEF FilesTyped, Copies
    <3>5. lost' \subseteq 1..texts
      BY <2>0, <3>4 DEF FilesTyped
    <3> QED BY <2>0, <3>1, <3>2, <3>3, <3>5, <1>n, <1>u DEF FilesTyped
  <2>2. HistoryTyped'
    BY <2>0 DEF HistoryTyped
  <2>3. Settling' /\ since' # <<>> /\ file' # Absent
    BY <2>0, <1>2 DEF Settling, FilesTyped, HistoryTyped
  <2>4. LooksAreCurrent'
    <3>1. (hand[h].seen = file /\ (hand[h].over \/ file = Absent)) \/ ~alone
      BY <1>n DEF LooksAreCurrent
    <3>2. alone => lost' = {}
      BY <2>0, <3>1 DEF LooksAreCurrent
    <3> QED BY <2>0, <2>3, <3>2, <1>n DEF LooksAreCurrent, FilesTyped
  <2>5. LedgerFollows'
    BY <2>3 DEF LedgerFollows
  <2>6. BytecodeFollows'
    <3> SUFFICES ASSUME alone, pyc # Absent, NEW g \in Hands, hand'[g].at = "settle", since' = <<"tool">>
                 PROVE  hand'[g].seen = pyc
      BY <2>0, <2>3 DEF BytecodeFollows
    <3>1. since = <<>>
      <4>1. since' = Append(since, "tool") /\ since \in Seq({"tool", "other"})
        BY <2>0 DEF HistoryTyped
      <4>2. Len(since') = Len(since) + 1 /\ Len(since') = 1 /\ Len(since) \in Nat
        BY <4>1
      <4>3. Len(since) = 0
        BY <4>2
      <4> QED BY <4>1, <4>3
    <3>2. g = h
      BY <2>0, <1>n DEF LooksAreCurrent, FilesTyped
    <3> QED BY <2>0, <3>1, <3>2, <1>n DEF BytecodeFollows, LooksAreCurrent, FilesTyped
  <2> QED BY <2>1, <2>2, <2>4, <2>5, <2>6
<1> QED BY <1>1, <1>2

(* The entry in the ledger, and the file moved off the second of the text  *)
(* it replaced.                                                            *)
LEMMA SettleKeeps ==
  ASSUME FileInv, NEW h \in Hands, Settle(h)
  PROVE  FileInv'
<1> USE FileAssumption DEF FileInv
<1>u. texts' = texts /\ Copies' = Copies /\ Calls' = Calls
  BY DEF Settle, Copies, Calls
<1>n. hand[h] \in Calls /\ hand[h].at = "settle" /\ file \in Copies
  BY DEF FilesTyped, Calls, Settle
<1>0. /\ hand' = [hand EXCEPT ![h] = Idle]
      /\ UNCHANGED <<temp, texts, clock, pyc, since, lost, foreign, alone>>
  BY DEF Settle
<1>1. hand' \in [Hands -> Calls] /\ \A g \in Hands : hand'[g].at # "idle" => hand'[g].text \in 1..texts
  <2>1. Idle \in Calls
    BY DEF Idle, Calls, Copies, FilesTyped
  <2> QED BY <1>0, <2>1 DEF FilesTyped, Idle
<1>q. alone => ~Settling'
  BY <1>0, <1>n DEF Settling, LooksAreCurrent, FilesTyped, Idle
<1>2. CASE file = Absent
  <2>0. UNCHANGED <<file, ledger>>
    BY <1>2 DEF Settle
  <2>1. ~alone
    BY <1>2, <1>n DEF LooksAreCurrent
  <2>2. FilesTyped'
    BY <1>0, <2>0, <1>1, <1>u DEF FilesTyped
  <2>3. HistoryTyped'
    BY <1>0, <2>0 DEF HistoryTyped
  <2> QED BY <2>1, <2>2, <2>3, <1>0 DEF LooksAreCurrent, LedgerFollows, BytecodeFollows
<1>3. CASE file # Absent
  <2>t. file \in [text : 1..texts, mtime : Nat] /\ hand[h].seen \in Copies
    BY <1>3, <1>n DEF Copies, Calls
  <2>s. hand[h].seen.text \in Nat
    BY <2>t DEF Copies, Absent, FilesTyped
  <2>0. PICK mtime \in Touched(hand[h].seen) :
           /\ file' = [file EXCEPT !.mtime = mtime]
           /\ ledger' = Append(ledger, [before |-> hand[h].seen.text, after |-> file.text])
    BY <1>3 DEF Settle
  <2>m. mtime \in Nat
    <3>1. file.mtime \in Nat
      BY <2>t
    <3> QED BY <3>1 DEF Touched
  <2>f. file' \in [text : 1..texts, mtime : Nat] /\ file'.text = file.text /\ file'.mtime = mtime
    BY <2>0, <2>t, <2>m
  <2>a. file' # Absent
    <3>1. file'.text \in 1..texts /\ texts \in Nat
      BY <2>f DEF FilesTyped
    <3>2. file'.text # 0
      BY <3>1
    <3> QED BY <3>2 DEF Absent
  <2>2. FilesTyped'
    <3>1. file' \in Copies'
      BY <2>f, <1>u DEF Copies
    <3> QED BY <1>0, <1>1, <1>u, <3>1 DEF FilesTyped
  <2>3. HistoryTyped'
    <3>1. file.text \in Nat
      BY <2>t DEF FilesTyped
    <3> QED BY <2>0, <1>0, <2>s, <3>1 DEF HistoryTyped
  <2>4. LooksAreCurrent'
    BY <1>0, <1>n, <1>q DEF LooksAreCurrent, FilesTyped, Idle, Settling
  <2>5. LedgerFollows'
    <3>1. file.text \in Nat /\ ledger \in Seq([before : Nat, after : Nat])
      BY <2>t DEF FilesTyped, HistoryTyped
    <3> DEFINE entry == [before |-> hand[h].seen.text, after |-> file.text]
    <3>2. entry \in [before : Nat, after : Nat] /\ entry.after = file.text
      BY <3>1, <2>s
    <3> HIDE DEF entry
    <3>3. ledger' = Append(ledger, entry)
      BY <2>0 DEF entry
    <3>4. ledger' # <<>> /\ Last(ledger') = entry
      BY <3>1, <3>2, <3>3 DEF Last
    <3> QED BY <3>2, <3>4, <2>f DEF LedgerFollows
  <2>6. BytecodeFollows'
    <3> SUFFICES ASSUME alone, pyc # Absent, since = <<"tool">>
                 PROVE  pyc.mtime # file'.mtime \/ pyc.text = file'.text
      BY <1>0, <1>q, <1>n DEF BytecodeFollows, LooksAreCurrent, Settling
    <3>1. hand[h].seen = pyc
      BY <1>n DEF BytecodeFollows
    <3>2. file.mtime \in Nat
      BY <2>t
    <3>3. mtime # pyc.mtime
      <4>1. CASE file.mtime = pyc.mtime
        <5>1. mtime \in {file.mtime + 1, file.mtime + 2}
          BY <2>0, <3>1, <4>1 DEF Touched
        <5> QED BY <5>1, <4>1, <3>2
      <4>2. CASE file.mtime # pyc.mtime
        BY <2>0, <3>1, <4>2 DEF Touched
      <4> QED BY <4>1, <4>2
    <3> QED BY <3>3, <2>f
  <2> QED BY <2>2, <2>3, <2>4, <2>5, <2>6
<1> QED BY <1>2, <1>3

(* Other programs come between calls, or anywhere. *)
LEMMA OtherKeeps ==
  ASSUME FileInv, OtherWrites
  PROVE  FileInv'
<1> USE FileAssumption DEF OtherWrites, FileInv
<1>t. texts \in Nat /\ texts' \in Nat /\ texts <= texts' /\ texts' \in 1..MaxTexts
  BY DEF FilesTyped, MayStart
<1>g. Copies \subseteq Copies' /\ 1..texts \subseteq 1..(texts') /\ 0..texts \subseteq 0..(texts')
  BY <1>t, CopiesGrow
<1>1. FilesTyped'
  <2>1. hand' \in [Hands -> Calls']
    BY <1>g DEF FilesTyped, Calls
  <2>2. file' \in Copies'
    BY <1>t DEF Copies, FilesTyped
  <2>3. \A g \in Hands : hand'[g].at # "idle" => hand'[g].text \in 1..(texts')
    BY <1>g DEF FilesTyped
  <2>4. temp' \in [{"write", "edit"} -> Copies'] /\ pyc' \in Copies' /\ lost' \subseteq 1..(texts')
    BY <1>g DEF FilesTyped
  <2> QED BY <2>1, <2>2, <2>3, <2>4, <1>t DEF FilesTyped
<1>2. HistoryTyped' /\ since' # <<>> /\ since' # <<"tool">>
  <2>1. since' = Append(since, "other") /\ since \in Seq({"tool", "other"}) /\ "other" # "tool"
    BY DEF HistoryTyped
  <2>2. since' # <<>>
    BY <2>1
  <2>3. ASSUME since' = <<"tool">> PROVE FALSE
    <3>1. since'[Len(since) + 1] = "other" /\ Len(since') = Len(since) + 1 /\ Len(since) \in Nat
      BY <2>1
    <3>2. Len(since') = 1 /\ since'[1] = "tool"
      <4>1. Len(<<"tool">>) = 1 /\ <<"tool">>[1] = "tool"
        OBVIOUS
      <4> QED BY <2>3, <4>1, Zenon
    <3>3. Len(since) + 1 = 1
      BY <3>1, <3>2
    <3> QED BY <3>1, <3>2, <3>3
  <2>4. HistoryTyped'
    BY <2>1 DEF HistoryTyped
  <2> QED BY <2>2, <2>3, <2>4
<1>3. alone => \A g \in Hands : hand[g].at = "idle"
  BY DEF MayStart, Quiet
<1>4. LooksAreCurrent'
  BY <1>3, <1>2 DEF LooksAreCurrent
<1>5. LedgerFollows'
  BY DEF LedgerFollows
<1>6. BytecodeFollows'
  BY <1>2 DEF BytecodeFollows
<1> QED BY <1>1, <1>2, <1>4, <1>5, <1>6

(* An import compiles what it runs, the file or what counts as it. *)
LEMMA ImportKeeps ==
  ASSUME FileInv, Import
  PROVE  FileInv'
<1> USE FileAssumption DEF FileInv
<1>0. /\ file # Absent /\ (alone => Quiet)
      /\ pyc' = [text |-> Imported, mtime |-> file.mtime]
      /\ since' = IF Imported = file.text THEN <<>> ELSE since
      /\ UNCHANGED <<file, temp, hand, ledger, texts, clock, lost, foreign, alone>>
  BY DEF Import
<1>u. texts' = texts /\ Copies' = Copies /\ Calls' = Calls
  BY <1>0 DEF Copies, Calls
<1>t. file \in [text : 1..texts, mtime : Nat]
  BY <1>0 DEF FilesTyped, Copies
<1>n. Imported \in 0..texts /\ (pyc # Absent => Imported \in 1..texts)
      /\ (pyc = Absent => Imported = file.text)
  <2>1. pyc # Absent => pyc.text \in 1..texts
    BY DEF FilesTyped, Copies
  <2>2. file.text \in 1..texts /\ texts \in Nat
    BY <1>t DEF FilesTyped
  <2> QED BY <2>1, <2>2 DEF Imported
<1>1. FilesTyped'
  <2>1. Imported \in 1..texts
    BY <1>n, <1>t
  <2>2. pyc' \in Copies'
    BY <1>0, <1>t, <1>u, <2>1 DEF Copies
  <2> QED BY <1>0, <1>u, <2>2 DEF FilesTyped
<1>2. HistoryTyped'
  BY <1>0 DEF HistoryTyped
<1>q. alone => ~Settling
  BY <1>0 DEF Settling, Quiet
<1>4. LooksAreCurrent'
  BY <1>0 DEF LooksAreCurrent, Quiet
<1>5. LedgerFollows'
  BY <1>0 DEF LedgerFollows, Settling
<1>6. BytecodeFollows'
  <2> SUFFICES ASSUME alone PROVE BytecodeFollows'
    BY <1>0 DEF BytecodeFollows
  <2>1. \A h \in Hands : hand'[h].at # "settle"
    BY <1>0, <1>q DEF Settling
  <2>2. since = <<>> \/ since = <<"tool">> => Imported = file.text
    <3>1. CASE pyc = Absent
      BY <3>1, <1>n
    <3>2. CASE pyc # Absent
      BY <3>2, <1>q, <1>0 DEF BytecodeFollows, Imported
    <3> QED BY <3>1, <3>2
  <2>3. since' = <<>> => Imported = file.text
    BY <1>0, <2>2
  <2>4. since' = <<>> => file' = pyc'
    BY <1>0, <1>t, <2>3
  <2>5. since' # <<"tool">>
    BY <1>0, <2>2
  <2> QED BY <2>1, <2>4, <2>5 DEF BytecodeFollows
<1> QED BY <1>1, <1>2, <1>4, <1>5, <1>6

(* Time passes; or nothing does. *)
LEMMA TickKeeps ==
  ASSUME FileInv, Tick \/ UNCHANGED fileVars
  PROVE  FileInv'
<1> USE FileAssumption DEF FileInv
<1>1. UNCHANGED <<file, temp, hand, ledger, texts, pyc, since, lost, foreign, alone>>
  BY DEF Tick, fileVars
<1>2. clock' \in 1..MaxClock
  <2>1. CASE Tick
    BY <2>1 DEF Tick, FilesTyped
  <2>2. CASE UNCHANGED fileVars
    BY <2>2 DEF fileVars, FilesTyped
  <2> QED BY <2>1, <2>2
<1>3. FilesTyped'
  BY <1>1, <1>2 DEF FilesTyped, Copies, Calls
<1>4. HistoryTyped' /\ LooksAreCurrent' /\ LedgerFollows' /\ BytecodeFollows'
  BY <1>1 DEF HistoryTyped, LooksAreCurrent, LedgerFollows, BytecodeFollows, Settling
<1> QED BY <1>3, <1>4

(* Every step of the handlers, of other programs and of time. *)
LEMMA FilesKeep == FileSpec => []FileInv
<1>1. FileInv /\ [FileNext]_fileVars => FileInv'
  <2> SUFFICES ASSUME FileInv, [FileNext]_fileVars PROVE FileInv'
    OBVIOUS
  <2>1. ASSUME NEW h \in Hands, WriteFile(h) PROVE FileInv'
    BY <2>1, LookKeeps DEF WriteFile, Overwrites
  <2>2. ASSUME NEW h \in Hands, EditFile(h) PROVE FileInv'
    BY <2>2, LookKeeps DEF EditFile
  <2> QED BY <2>1, <2>2, PutKeeps, ReplaceKeeps, SettleKeeps, OtherKeeps, ImportKeeps, TickKeeps
             DEF FileNext
<1> QED BY <1>1, InitFileInv, PTL DEF FileSpec

(* What the file tools keep has its type: at no time is there a text that  *)
(* was not written, in the file, in a temporary one or in the bytecode.    *)
THEOREM FileTypeCorrect == FileSpec => []FileTypeOK
<1>1. FileInv => FileTypeOK
  <2> SUFFICES ASSUME FileInv PROVE FileTypeOK
    OBVIOUS
  <2>1. \A c \in Copies : c.text \in 0..texts
    BY FileAssumption DEF Copies, Absent, FileInv, FilesTyped
  <2>2. {file.text, pyc.text} \cup {temp[t].text : t \in DOMAIN temp} \subseteq 0..texts
    BY <2>1 DEF FileInv, FilesTyped
  <2>3. \A h \in Hands : hand[h].at \in {"idle", "put", "replace", "settle"}
    BY DEF FileInv, FilesTyped, Calls
  <2> QED BY <2>2, <2>3 DEF FileInv, FilesTyped, FileTypeOK
<1> QED BY <1>1, FilesKeep, PTL

(* For any texts and any number of handlers: where calls do not overlap,   *)
(* none replaces what it has not seen, a file the tools left is the last   *)
(* entry of the ledger, and the first change after an import is what the   *)
(* next one runs.                                                          *)
THEOREM ToolsAccount == FileSpec => []ChangesAreAccounted
<1>1. FileInv => ChangesAreAccounted
  <2> SUFFICES ASSUME FileInv PROVE ChangesAreAccounted
    OBVIOUS
  <2>1. Quiet => ~Settling
    BY DEF Quiet, Settling
  <2>2. EditIsImported
    BY <2>1 DEF EditIsImported, FileInv, BytecodeFollows, Imported
  <2>3. EntriesCoverFile
    BY <2>1 DEF EntriesCoverFile, FileInv, LooksAreCurrent, LedgerFollows
  <2> QED BY <2>2, <2>3 DEF ChangesAreAccounted
<1> QED BY <1>1, FilesKeep, PTL

-----------------------------------------------------------------------------
(* VerifiedPanel.                                                          *)

Votes == Solutions \X BOOLEAN

PanelTyped ==
    /\ mode \in Modes \cup {"none", "returned"}
    /\ proposals \in Seq(Solutions) /\ votes \in Seq(Votes)

(* A chain works on the last text that was proposed; in an independent     *)
(* panel the votes are on the proposals, in their order.                   *)
WorksOnProposed ==
    /\ mode = "chain" /\ proposals # <<>> => running \in Range(proposals)
    /\ mode = "independent" => /\ Len(votes) <= Len(proposals)
                               /\ \A i \in 1..Len(votes) : votes[i][1] = proposals[i]

(* A session that is under way has not said anything yet. *)
NotSaidYet == mode \in Modes => done = NoSession

PanelInv == PanelTyped /\ WorksOnProposed /\ NotSaidYet /\ PanelIsHonest

(* A nonempty set of numbers has a least one. *)
LEMMA Least ==
  ASSUME NEW S \in SUBSET Nat, S # {}
  PROVE  \E m \in S : \A n \in S : m <= n
<1> DEFINE R == OpToRel(<, Nat)
<1>1. \A x, y \in Nat : y < x => <<y, x>> \in R
  BY DEF OpToRel
<1>2. IsWellFoundedOn(R, Nat)
  BY NatLessThanWellFounded
<1> HIDE DEF R
<1>3. PICK x \in S : \A y \in S : ~(<<y, x>> \in R)
  BY <1>2, WFMin
<1>4. \A y \in S : ~(y < x)
  BY <1>1, <1>3
<1> QED BY <1>3, <1>4

(* Induction along the numbers up to n. *)
LEMMA UpTo ==
    ASSUME NEW n \in Nat, NEW S, 0 \in S, \A k \in 0..n : k \in S /\ k < n => k + 1 \in S
    PROVE  \A k \in 0..n : k \in S
<1> DEFINE missing == {k \in 0..n : k \notin S}
<1> SUFFICES ASSUME missing # {} PROVE FALSE
  OBVIOUS
<1>1. missing \subseteq Nat
  OBVIOUS
<1>2. PICK m \in missing : \A k \in missing : m <= k
  BY <1>1, Least
<1>3. m \in 0..n /\ m \notin S /\ m # 0
  BY <1>2
<1>4. m - 1 \in 0..n /\ m - 1 < n /\ (m - 1) + 1 = m /\ ~(m <= m - 1)
  BY <1>3
<1>5. m - 1 \in S
  BY <1>2, <1>4
<1> QED
  BY <1>3, <1>4, <1>5

(* A recursion along the numbers up to n has the values that one more step *)
(* gives.                                                                  *)
RunsBy(f, n, b, step) ==
    f = [i \in 0..n |-> IF i = 0 THEN b ELSE step[<<f[i - 1], i>>]]

LEMMA RunExists ==
    ASSUME NEW n \in Nat, NEW V, NEW b \in V, NEW step \in [V \X (1..n) -> V]
    PROVE  \E f \in [0..n -> V] : RunsBy(f, n, b, step)
<1> DEFINE built == {k \in 0..n : \E f \in [0..k -> V] : RunsBy(f, k, b, step)}
<1>1. 0 \in built
  <2> DEFINE f == [i \in 0..0 |-> b]
  <2>1. f \in [0..0 -> V] /\ 0 \in 0..n /\ \A i \in 0..0 : i = 0
    OBVIOUS
  <2>2. RunsBy(f, 0, b, step)
    BY <2>1 DEF RunsBy
  <2> QED
    BY <2>1, <2>2
<1>2. ASSUME NEW k \in 0..n, k \in built, k < n PROVE k + 1 \in built
  <2>1. PICK f \in [0..k -> V] : RunsBy(f, k, b, step)
    BY <1>2
  <2> DEFINE x == step[<<f[k], k + 1>>]
             g == [i \in 0..(k + 1) |-> IF i = k + 1 THEN x ELSE f[i]]
  <2>2. /\ k \in 0..k /\ k + 1 \in 1..n /\ k + 1 \in 0..n /\ k + 1 # 0 /\ (k + 1) - 1 = k
        /\ \A i \in 0..(k + 1) : i = k + 1 \/ (i \in 0..k /\ i # k + 1)
        /\ \A i \in 0..(k + 1) : i # 0 => i - 1 \in 0..(k + 1) /\ i - 1 # k + 1
    BY <1>2
  <2>3. x \in V
    BY <2>2
  <2> HIDE DEF x
  <2>4. g \in [0..(k + 1) -> V]
    BY <2>2, <2>3
  <2>5. \A i \in 0..k : f[i] = IF i = 0 THEN b ELSE step[<<f[i - 1], i>>]
    BY <2>1 DEF RunsBy
  <2>6. ASSUME NEW i \in 0..(k + 1)
        PROVE  g[i] = IF i = 0 THEN b ELSE step[<<g[i - 1], i>>]
    <3>1. i # 0 => g[i - 1] = f[i - 1]
      BY <2>2
    <3>2. CASE i = k + 1
      <4>1. i # 0 /\ i - 1 = k /\ g[i] = x
        BY <2>2, <3>2
      <4>2. g[i - 1] = f[k]
        BY <3>1, <4>1
      <4> HIDE DEF g
      <4> QED
        BY <3>2, <4>1, <4>2 DEF x
    <3>3. CASE i # k + 1
      <4>1. g[i] = f[i] /\ i \in 0..k
        BY <2>2, <3>3
      <4> HIDE DEF g
      <4> QED
        BY <2>5, <3>1, <4>1
    <3> QED
      BY <3>2, <3>3
  <2>7. g = [i \in 0..(k + 1) |-> g[i]]
    OBVIOUS
  <2> HIDE DEF g
  <2>8. g = [i \in 0..(k + 1) |-> IF i = 0 THEN b ELSE step[<<g[i - 1], i>>]]
    BY <2>6, <2>7
  <2>9. RunsBy(g, k + 1, b, step)
    BY <2>8 DEF RunsBy
  <2> QED
    BY <2>2, <2>4, <2>9
<1> HIDE DEF built
<1>3. n \in 0..n /\ \A k \in 0..n : k \in built
  BY <1>1, <1>2, UpTo
<1> QED
  BY <1>3 DEF built

(* What a sequence holds, and what is added to it. *)
LEMMA RangeIsOfSeq ==
  ASSUME NEW T, NEW s \in Seq(T)
  PROVE  Range(s) = {s[i] : i \in 1..Len(s)} /\ Range(s) \subseteq T
  BY DEF Range

LEMMA RangeGrows ==
  ASSUME NEW T, NEW s \in Seq(T), NEW x \in T
  PROVE  Range(s) \subseteq Range(Append(s, x)) /\ x \in Range(Append(s, x))
<1>1. Len(Append(s, x)) = Len(s) + 1 /\ Append(s, x) \in Seq(T) /\ Len(s) \in Nat
  OBVIOUS
<1>2. \A i \in 1..Len(s) : Append(s, x)[i] = s[i] /\ i \in 1..Len(Append(s, x))
  OBVIOUS
<1>3. Append(s, x)[Len(s) + 1] = x /\ Len(s) + 1 \in 1..Len(Append(s, x))
  OBVIOUS
<1> HIDE DEF Range
<1>4. Range(s) = {s[i] : i \in 1..Len(s)} /\ Range(Append(s, x)) = {Append(s, x)[i] : i \in 1..Len(Append(s, x))}
  BY <1>1, RangeIsOfSeq
<1> QED BY <1>2, <1>3, <1>4

LEMMA RangeOfOne ==
  ASSUME NEW x PROVE Range(<<x>>) = {x}
  BY DEF Range

(* Initially no session has said anything. *)
LEMMA InitPanelInv == PanelInit => PanelInv
<1> SUFFICES ASSUME PanelInit PROVE PanelInv
  OBVIOUS
<1>1. PanelTyped
  BY DEF PanelInit, PanelTyped
<1>2. WorksOnProposed /\ NotSaidYet
  BY DEF PanelInit, WorksOnProposed, NotSaidYet, Modes
<1>3. PanelIsHonest
  BY DEF PanelInit, PanelIsHonest, NoSession
<1> QED BY <1>1, <1>2, <1>3 DEF PanelInv

(* A participant begins, proposes or reviews; the session is still open. *)
LEMMA ProposalsKeep ==
  ASSUME PanelInv, (\E m \in Modes : Open(m)) \/ Propose \/ Begin \/ Critique
  PROVE  PanelInv'
<1> USE DEF PanelInv
<1>n. ~NoSession.verified
  BY DEF NoSession
<1>1. CASE \E m \in Modes : Open(m)
  <2>1. PICK m \in Modes : Open(m)
    BY <1>1
  <2>2. PanelTyped'
    BY <2>1 DEF Open, PanelTyped
  <2>3. WorksOnProposed'
    BY <2>1 DEF Open, WorksOnProposed
  <2>4. NotSaidYet' /\ PanelIsHonest'
    BY <2>1, <1>n DEF Open, NotSaidYet, PanelIsHonest
  <2> QED BY <2>2, <2>3, <2>4
<1>2. CASE Propose
  <2>1. PICK text \in Solutions : proposals' = Append(proposals, text)
    BY <1>2 DEF Propose
  <2>2. PanelTyped'
    BY <1>2, <2>1 DEF Propose, PanelTyped
  <2>3. WorksOnProposed'
    <3>1. /\ proposals \in Seq(Solutions) /\ votes \in Seq(Votes) /\ Len(votes) <= Len(proposals)
          /\ \A i \in 1..Len(votes) : votes[i][1] = proposals[i]
      BY <1>2 DEF Propose, PanelTyped, WorksOnProposed
    <3>2. Len(votes) <= Len(proposals') /\ \A i \in 1..Len(votes) : votes[i][1] = proposals'[i]
      BY <2>1, <3>1
    <3> QED BY <1>2, <3>2 DEF Propose, WorksOnProposed
  <2>4. NotSaidYet' /\ PanelIsHonest'
    BY <1>2, <1>n DEF Propose, NotSaidYet, PanelIsHonest, Modes
  <2> QED BY <2>2, <2>3, <2>4
<1>3. CASE Begin
  <2>1. PICK text \in Solutions : proposals' = <<text>> /\ running' = text
    BY <1>3 DEF Begin
  <2>2. PanelTyped'
    BY <1>3, <2>1 DEF Begin, PanelTyped
  <2>3. WorksOnProposed'
    BY <1>3, <2>1, RangeOfOne DEF Begin, WorksOnProposed
  <2>4. NotSaidYet' /\ PanelIsHonest'
    BY <1>3, <1>n DEF Begin, NotSaidYet, PanelIsHonest, Modes
  <2> QED BY <2>2, <2>3, <2>4
<1>4. CASE Critique
  <2>0. mode \in Modes \ {"independent"} /\ proposals # <<>> /\ UNCHANGED <<mode, votes, done, tally>>
    BY <1>4 DEF Critique
  <2>1. ASSUME mode # "chain" PROVE PanelTyped' /\ WorksOnProposed'
    <3>1. UNCHANGED <<proposals, running>>
      BY <1>4, <2>1 DEF Critique
    <3> QED BY <3>1, <2>0 DEF PanelTyped, WorksOnProposed
  <2>2. ASSUME mode = "chain" PROVE PanelTyped' /\ WorksOnProposed'
    <3>1. PICK text \in Solutions :
             /\ running' = text
             /\ proposals' = IF text = running THEN proposals ELSE Append(proposals, text)
      BY <1>4, <2>2 DEF Critique
    <3>2. proposals \in Seq(Solutions) /\ proposals' \in Seq(Solutions)
      BY <3>1 DEF PanelTyped
    <3>3. running' \in Range(proposals')
      <4>1. CASE text = running
        BY <4>1, <3>1, <2>0, <2>2 DEF WorksOnProposed
      <4>2. CASE text # running
        BY <4>2, <3>1, <3>2, RangeGrows
      <4> QED BY <4>1, <4>2
    <3>4. PanelTyped'
      BY <3>2, <2>0 DEF PanelTyped
    <3>5. WorksOnProposed'
      BY <3>3, <2>0 DEF WorksOnProposed
    <3> QED BY <3>4, <3>5
  <2>3. PanelTyped' /\ WorksOnProposed'
    BY <2>1, <2>2
  <2>4. NotSaidYet' /\ PanelIsHonest'
    BY <2>0, <1>n DEF NotSaidYet, PanelIsHonest, Modes
  <2> QED BY <2>3, <2>4
<1> QED BY <1>1, <1>2, <1>3, <1>4

(* A verdict of the verifier on one proposal of an independent panel. *)
LEMMA VoteKeeps == ASSUME PanelInv, Vote PROVE PanelInv'
<1> USE DEF PanelInv
<1>0. /\ mode = "independent" /\ Len(proposals) = Len(Names) /\ Len(votes) < Len(Names)
      /\ UNCHANGED <<mode, proposals, critics, running, done, tally>>
  BY DEF Vote
<1>1. PICK ok \in BOOLEAN : votes' = Append(votes, <<proposals[Len(votes) + 1], ok>>)
  BY DEF Vote, Verifier
<1>t. /\ proposals \in Seq(Solutions) /\ votes \in Seq(Votes) /\ Len(votes) \in Nat
      /\ Len(proposals) \in Nat /\ Len(votes) < Len(proposals)
      /\ \A i \in 1..Len(votes) : votes[i][1] = proposals[i]
  BY <1>0 DEF PanelTyped, WorksOnProposed
<1> DEFINE vote == <<proposals[Len(votes) + 1], ok>>
<1>2. vote \in Votes /\ vote[1] = proposals[Len(votes) + 1]
  <2>1. proposals[Len(votes) + 1] \in Solutions
    BY <1>t
  <2> QED BY <2>1 DEF Votes
<1>3. votes' = Append(votes, vote)
  BY <1>1
<1> HIDE DEF vote
<1>4. PanelTyped'
  BY <1>0, <1>2, <1>3 DEF PanelTyped
<1>5. WorksOnProposed'
  <2>1. Len(votes') = Len(votes) + 1 /\ Len(votes') <= Len(proposals)
    BY <1>t, <1>2, <1>3
  <2>2. \A i \in 1..Len(votes') : votes'[i][1] = proposals[i]
    BY <1>t, <1>2, <1>3
  <2> QED BY <1>0, <2>1, <2>2 DEF WorksOnProposed
<1>6. NotSaidYet' /\ PanelIsHonest'
  <2>1. done' = NoSession /\ ~NoSession.verified
    BY <1>0 DEF NotSaidYet, NoSession, Modes
  <2> QED BY <2>1 DEF NotSaidYet, PanelIsHonest
<1> QED BY <1>4, <1>5, <1>6

(* The shapes with one solution: what was verified is what is final. *)
LEMMA ConcludeKeeps == ASSUME PanelInv, Conclude PROVE PanelInv'
<1> USE DEF PanelInv
<1>1. PICK text \in IF mode = "chain" THEN {running} ELSE Solutions, ok \in BOOLEAN :
         /\ votes' = << <<text, ok>> >>
         /\ proposals' = IF mode = "chain" THEN proposals ELSE Append(proposals, text)
         /\ done' = [verified |-> ok, final |-> text, by |-> "order", consensus |-> FALSE,
                     split |-> ~ok /\ mode # "chain"]
  BY DEF Conclude, Verifier
<1>2. mode' = "returned" /\ proposals # <<>>
  BY DEF Conclude
<1>3. proposals' \in Seq(Solutions) /\ text \in Range(proposals') /\ text \in Solutions
  <2>0. proposals \in Seq(Solutions)
    BY DEF PanelTyped
  <2>1. CASE mode = "chain"
    BY <2>0, <2>1, <1>1, <1>2, RangeIsOfSeq DEF WorksOnProposed
  <2>2. CASE mode # "chain"
    BY <2>0, <2>2, <1>1, RangeGrows
  <2> QED BY <2>1, <2>2
<1>4. <<text, ok>> \in Votes
  BY <1>3 DEF Votes
<1>5. votes' \in Seq(Votes) /\ <<text, ok>> \in Range(votes')
  BY <1>1, <1>4, RangeOfOne
<1>6. PanelTyped' /\ WorksOnProposed' /\ NotSaidYet'
  BY <1>2, <1>3, <1>5 DEF PanelTyped, WorksOnProposed, NotSaidYet, Modes
<1>7. (done'.verified <=> ok) /\ done'.final = text
  BY <1>1
<1>8. PanelIsHonest'
  <2>1. CASE ok
    <3>1. ok = TRUE
      BY <2>1
    <3>2. <<text, TRUE>> \in Range(votes')
      BY <3>1, <1>5
    <3> QED BY <3>2, <1>3, <1>7 DEF PanelIsHonest
  <2>2. CASE ~ok
    BY <2>2, <1>7 DEF PanelIsHonest
  <2> QED BY <2>1, <2>2
<1> QED BY <1>6, <1>8

(* The end of an independent panel: some proposal has passed, or none is    *)
(* called verified; the first that did is one of them.                     *)
LEMMA JudgeKeeps == ASSUME PanelInv, NEW judge \in Judges, Judge(judge) PROVE PanelInv'
<1> USE DEF PanelInv
<1>0. /\ mode = "independent" /\ mode' = "returned"
      /\ UNCHANGED <<proposals, critics, running, votes>>
  BY DEF Judge
<1>1. PICK text \in Finals(judge) :
         done' = [verified |-> Accepted # {}, final |-> text, by |-> judge,
                  consensus |-> Cardinality(Range(proposals)) = 1,
                  split |-> ~(Cardinality(Range(proposals)) = 1)]
  BY DEF Judge
<1>t. /\ proposals \in Seq(Solutions) /\ votes \in Seq(Votes) /\ Len(votes) <= Len(proposals)
      /\ \A i \in 1..Len(votes) : votes[i][1] = proposals[i]
  BY <1>0 DEF PanelTyped, WorksOnProposed
<1>2. \A i \in 1..Len(votes) : votes[i][2] =>
         /\ votes[i] = <<votes[i][1], TRUE>> /\ votes[i] \in Range(votes)
         /\ votes[i][1] \in Range(proposals)
  <2> SUFFICES ASSUME NEW i \in 1..Len(votes), votes[i][2]
               PROVE  /\ votes[i] = <<votes[i][1], TRUE>> /\ votes[i] \in Range(votes)
                      /\ votes[i][1] \in Range(proposals)
    OBVIOUS
  <2>1. votes[i] \in Votes
    BY <1>t
  <2>2. votes[i] = <<votes[i][1], TRUE>>
    <3>1. PICK a \in Solutions, b \in BOOLEAN : votes[i] = <<a, b>>
      BY <2>1 DEF Votes
    <3>2. b = TRUE
      BY <3>1
    <3> QED BY <3>1, <3>2
  <2>3. votes[i] \in Range(votes)
    BY <1>t, RangeIsOfSeq
  <2>4. i \in 1..Len(proposals)
    BY <1>t
  <2>5. proposals[i] \in Range(proposals)
    BY <1>t, <2>4, RangeIsOfSeq
  <2> QED BY <2>2, <2>3, <2>5, <1>t
<1>3. \A w \in Range(votes) : w[2] => w = <<w[1], TRUE>> /\ w[1] \in Range(proposals)
  <2> SUFFICES ASSUME NEW w \in Range(votes), w[2]
               PROVE  w = <<w[1], TRUE>> /\ w[1] \in Range(proposals)
    OBVIOUS
  <2>1. PICK i \in 1..Len(votes) : w = votes[i]
    BY <1>t, RangeIsOfSeq
  <2>2. votes[i][2]
    BY <2>1
  <2> QED BY <2>1, <2>2, <1>2
<1>4. \A a \in Accepted : <<a, TRUE>> \in Range(votes) /\ a \in Range(proposals)
  BY <1>3 DEF Accepted
<1>5. ASSUME Accepted # {}, judge # "writes" PROVE text \in Accepted
  <2> DEFINE passed == {i \in DOMAIN votes : votes[i][2]}
  <2>1. passed # {}
    BY <1>5, <1>t, RangeIsOfSeq DEF Accepted
  <2>2. CASE judge = "order"
    <3>1. passed \subseteq Nat
      BY <1>t
    <3>2. \E i \in passed : \A j \in passed : i <= j
      BY <2>1, <3>1, Least
    <3>3. PICK i \in passed : text = votes[i][1]
      BY <1>1, <2>1, <2>2, <3>2 DEF Finals
    <3>4. i \in 1..Len(votes) /\ votes[i][2]
      BY <1>t
    <3>5. votes[i] \in Range(votes)
      BY <3>4, <1>2
    <3> QED BY <3>3, <3>4, <3>5 DEF Accepted
  <2>3. CASE judge = "picks"
    BY <1>1, <2>1, <2>3 DEF Finals
  <2> QED BY <2>2, <2>3, <1>5, PanelAssumption
<1>6. PanelIsHonest'
  <2>1. (done'.verified <=> Accepted # {}) /\ done'.final = text /\ done'.by = judge
    BY <1>1
  <2> SUFFICES ASSUME Accepted # {}
               PROVE  /\ \E s \in Range(proposals) : <<s, TRUE>> \in Range(votes)
                      /\ judge # "writes" => /\ <<text, TRUE>> \in Range(votes)
                                             /\ text \in Range(proposals)
    BY <2>1, <1>0 DEF PanelIsHonest
  <2> QED BY <1>4, <1>5
<1> QED BY <1>0, <1>6 DEF PanelTyped, WorksOnProposed, NotSaidYet, Modes

(* For any participants, plans and judges: what a panel calls verified was *)
(* passed by the verifier and proposed by a participant, agreement or not. *)
THEOREM PanelsStayHonest == PanelSpec => []PanelIsHonest
<1>1. PanelInv /\ [PanelNext]_panelVars => PanelInv'
  <2> SUFFICES ASSUME PanelInv, [PanelNext]_panelVars PROVE PanelInv'
    OBVIOUS
  <2>1. ASSUME Return PROVE PanelInv'
    BY <2>1 DEF Return, PanelInv, PanelTyped, WorksOnProposed, NotSaidYet, PanelIsHonest, Modes
  <2>2. ASSUME UNCHANGED panelVars PROVE PanelInv'
    BY <2>2 DEF panelVars, PanelInv, PanelTyped, WorksOnProposed, NotSaidYet, PanelIsHonest
  <2> QED BY <2>1, <2>2, ProposalsKeep, VoteKeeps, ConcludeKeeps, JudgeKeeps DEF PanelNext
<1>2. PanelInv => PanelIsHonest
  BY DEF PanelInv
<1> QED BY <1>1, <1>2, InitPanelInv, PTL DEF PanelSpec

-----------------------------------------------------------------------------
(* The plans. *)

VerdictsSoFar == [steps : Seq({"pass", "fail", "skipped"}), ok : BOOLEAN, aborted : BOOLEAN]

PlanBegins == [steps |-> <<>>, ok |-> TRUE, aborted |-> FALSE]

LEMMA RunStepTyped ==
    ASSUME NEW acc \in VerdictsSoFar, NEW plan \in Plans, NEW i \in DOMAIN plan.steps,
           NEW run
    PROVE  RunStep(acc, plan, plan.steps[i], run) \in VerdictsSoFar
<1>1. /\ acc.steps \in Seq({"pass", "fail", "skipped"})
      /\ acc.ok \in BOOLEAN /\ acc.aborted \in BOOLEAN
  BY DEF VerdictsSoFar
<1>2. /\ Append(acc.steps, "skipped") \in Seq({"pass", "fail", "skipped"})
      /\ Append(acc.steps, "pass") \in Seq({"pass", "fail", "skipped"})
      /\ Append(acc.steps, "fail") \in Seq({"pass", "fail", "skipped"})
  BY <1>1
<1>3. ASSUME NEW s \in Seq({"pass", "fail", "skipped"})
      PROVE  [acc EXCEPT !.steps = s] \in VerdictsSoFar
  BY DEF VerdictsSoFar
<1>4. plan.stops \in BOOLEAN /\ plan.steps[i].optional \in BOOLEAN
  <2>0. plan \in [stops : BOOLEAN, steps : Seq([optional : BOOLEAN, contains : BOOLEAN])]
    BY PanelAssumption
  <2>1. plan.stops \in BOOLEAN /\ plan.steps \in Seq([optional : BOOLEAN, contains : BOOLEAN])
    BY <2>0
  <2>2. plan.steps[i] \in [optional : BOOLEAN, contains : BOOLEAN]
    <3>1. \A T : \A s \in Seq(T) : \A j \in DOMAIN s : s[j] \in T
      OBVIOUS
    <3> QED
      BY <2>1, <3>1
  <2> QED
    BY <2>1, <2>2
<1>5. CASE acc.aborted
  BY <1>2, <1>3, <1>5 DEF RunStep
<1>6. CASE ~acc.aborted
  <2> DEFINE passes == StepPasses(plan.steps[i], run)
             word == IF passes THEN "pass" ELSE "fail"
  <2>1. RunStep(acc, plan, plan.steps[i], run) =
            [steps   |-> Append(acc.steps, word),
             ok      |-> acc.ok /\ (passes \/ plan.steps[i].optional),
             aborted |-> ~passes /\ ~plan.steps[i].optional /\ plan.stops]
    BY <1>6 DEF RunStep
  <2>2. passes \in BOOLEAN /\ word \in {"pass", "fail"}
    BY DEF StepPasses
  <2> HIDE DEF passes
  <2>3. Append(acc.steps, word) \in Seq({"pass", "fail", "skipped"})
    BY <1>2, <2>2
  <2> HIDE DEF word
  <2> QED
    BY <2>1, <2>3 DEF VerdictsSoFar
<1> QED
  BY <1>5, <1>6

(* A plan is run one step after the other. *)
LEMMA PlanRuns ==
    ASSUME NEW plan \in Plans, NEW runs
    PROVE  \E f \in [0..Len(plan.steps) -> VerdictsSoFar] :
              /\ f[0] = PlanBegins /\ Verdicts(plan, runs) = f[Len(plan.steps)]
              /\ \A i \in 1..Len(plan.steps) :
                    f[i] = RunStep(f[i - 1], plan, plan.steps[i], runs[i])
<1> DEFINE n == Len(plan.steps)
           Next1(acc, i) == RunStep(acc, plan, plan.steps[i], runs[i])
           step == [p \in VerdictsSoFar \X (1..n) |-> Next1(p[1], p[2])]
           Is(f) == f = [i \in 0..n |-> IF i = 0 THEN PlanBegins ELSE Next1(f[i - 1], i)]
           the == CHOOSE f : Is(f)
<1>1. n \in Nat /\ DOMAIN plan.steps = 1..n
  BY PanelAssumption
<1>2. PlanBegins \in VerdictsSoFar
  BY DEF PlanBegins, VerdictsSoFar
<1>3. Verdicts(plan, runs) = the[n]
  BY DEF Verdicts, PlanBegins
<1> HIDE DEF n
<1>4. \A acc \in VerdictsSoFar, i \in 1..n : Next1(acc, i) \in VerdictsSoFar
  BY <1>1, RunStepTyped
<1> HIDE DEF Next1
<1>5. step \in [VerdictsSoFar \X (1..n) -> VerdictsSoFar]
  BY <1>4
<1>6. \A acc \in VerdictsSoFar, i \in 1..n : step[<<acc, i>>] = Next1(acc, i)
  OBVIOUS
<1> HIDE DEF step
<1>7. PICK g \in [0..n -> VerdictsSoFar] : RunsBy(g, n, PlanBegins, step)
  BY <1>1, <1>2, <1>5, RunExists
<1>8. Is(g)
  <2>1. ASSUME NEW i \in 0..n PROVE g[i] = IF i = 0 THEN PlanBegins ELSE Next1(g[i - 1], i)
    <3>1. CASE i = 0
      BY <1>7, <3>1 DEF RunsBy
    <3>2. CASE i # 0
      <4>1. i \in 1..n /\ i - 1 \in 0..n
        BY <1>1, <3>2
      <4>2. g[i - 1] \in VerdictsSoFar /\ g[i] = step[<<g[i - 1], i>>]
        BY <1>7, <3>2, <4>1 DEF RunsBy
      <4> QED
        BY <1>6, <3>2, <4>1, <4>2
    <3> QED
      BY <3>1, <3>2
  <2>2. g = [i \in 0..n |-> g[i]]
    OBVIOUS
  <2> QED
    BY <2>1, <2>2
<1> HIDE DEF Is
<1>9. Is(the)
  BY <1>8
<1> HIDE DEF the
<1>10. \A i \in 0..n : the[i] = IF i = 0 THEN PlanBegins ELSE Next1(the[i - 1], i)
  BY <1>9 DEF Is
<1>11. \A i \in 0..n : the[i] \in VerdictsSoFar
  <2> DEFINE fine == {i \in 0..n : the[i] \in VerdictsSoFar}
  <2>1. 0 \in fine
    BY <1>1, <1>2, <1>10
  <2>2. ASSUME NEW k \in 0..n, k \in fine, k < n PROVE k + 1 \in fine
    <3>1. k + 1 \in 0..n /\ k + 1 # 0 /\ (k + 1) - 1 = k /\ k + 1 \in 1..n
      BY <1>1, <2>2
    <3>2. the[k + 1] = Next1(the[k], k + 1)
      BY <1>10, <3>1
    <3> QED
      BY <1>4, <2>2, <3>1, <3>2
  <2> HIDE DEF fine
  <2>3. \A k \in 0..n : k \in fine
    BY <1>1, <2>1, <2>2, UpTo
  <2> QED
    BY <2>3 DEF fine
<1>12. the = [i \in 0..n |-> the[i]]
  BY <1>9 DEF Is
<1>13. the \in [0..n -> VerdictsSoFar]
  BY <1>11, <1>12
<1>14. 0 \in 0..n /\ \A i \in 1..n : i \in 0..n /\ i # 0
  BY <1>1
<1>15. the[0] = PlanBegins /\ \A i \in 1..n : the[i] = Next1(the[i - 1], i)
  BY <1>10, <1>14
<1> QED
  BY <1>3, <1>13, <1>15 DEF Next1, n

(* A mandatory step that was run and did not pass. *)
Failed(r, plan, j) == r.steps[j] = "fail" /\ ~plan.steps[j].optional

(* What a plan has found when i of its steps are behind it. *)
Found(r, plan, runs, i) ==
    /\ r \in VerdictsSoFar /\ Len(r.steps) = i
    /\ r.ok <=> \A j \in 1..i : ~Failed(r, plan, j)
    /\ r.aborted <=> plan.stops /\ \E j \in 1..i : Failed(r, plan, j)
    /\ \A j \in 1..i : r.steps[j] = "pass" => StepPasses(plan.steps[j], runs[j])
    /\ \A j \in 1..i : r.steps[j] = "skipped" <=>
                          plan.stops /\ \E k \in 1..i : k < j /\ Failed(r, plan, k)

LEMMA StepFinds ==
    ASSUME NEW plan \in Plans, NEW runs, NEW i \in Nat, i + 1 \in DOMAIN plan.steps,
           NEW r, Found(r, plan, runs, i)
    PROVE  Found(RunStep(r, plan, plan.steps[i + 1], runs[i + 1]), plan, runs, i + 1)
<1> DEFINE new == RunStep(r, plan, plan.steps[i + 1], runs[i + 1])
           passes == StepPasses(plan.steps[i + 1], runs[i + 1])
           word == IF r.aborted THEN "skipped" ELSE IF passes THEN "pass" ELSE "fail"
           bad == word = "fail" /\ ~plan.steps[i + 1].optional
<1>1. /\ r \in VerdictsSoFar /\ r.steps \in Seq({"pass", "fail", "skipped"}) /\ Len(r.steps) = i
      /\ r.ok \in BOOLEAN /\ r.aborted \in BOOLEAN
  BY DEF Found, VerdictsSoFar
<1>2. new \in VerdictsSoFar
  BY <1>1, RunStepTyped
<1>3. new.steps = Append(r.steps, word)
  <2>1. CASE r.aborted
    <3>1. new = [r EXCEPT !.steps = Append(@, "skipped")]
      BY <2>1 DEF RunStep
    <3> QED
      BY <1>1, <2>1, <3>1 DEF VerdictsSoFar
  <2>2. CASE ~r.aborted
    BY <2>2 DEF RunStep
  <2> QED
    BY <2>1, <2>2
<1>4. /\ r.aborted => new.ok = r.ok /\ new.aborted = r.aborted
      /\ ~r.aborted => /\ new.ok = (r.ok /\ (passes \/ plan.steps[i + 1].optional))
                       /\ new.aborted = (~passes /\ ~plan.steps[i + 1].optional /\ plan.stops)
  <2>1. CASE r.aborted
    <3>1. new = [r EXCEPT !.steps = Append(@, "skipped")]
      BY <2>1 DEF RunStep
    <3> QED
      BY <1>1, <2>1, <3>1 DEF VerdictsSoFar
  <2>2. CASE ~r.aborted
    BY <2>2 DEF RunStep
  <2> QED
    BY <2>1, <2>2
<1>5. word \in {"pass", "fail", "skipped"}
  OBVIOUS
<1> HIDE DEF new, word
<1>6. /\ Len(new.steps) = i + 1 /\ new.steps[i + 1] = word
      /\ \A j \in 1..i : new.steps[j] = r.steps[j] /\ j \in 1..(i + 1) /\ j < i + 1 /\ ~(i + 1 < j)
      /\ \A j \in 1..(i + 1) : j \in 1..i \/ j = i + 1
      /\ i + 1 \in 1..(i + 1) /\ ~(i + 1 < i + 1)
  BY <1>1, <1>3, <1>5
<1> DEFINE F(j) == Failed(r, plan, j)
           G(j) == Failed(new, plan, j)
<1>7. (\A j \in 1..i : G(j) <=> F(j)) /\ (G(i + 1) <=> bad)
  BY <1>6 DEF Failed
<1>8. /\ r.ok <=> \A j \in 1..i : ~F(j)
      /\ r.aborted <=> plan.stops /\ \E j \in 1..i : F(j)
  BY DEF Found
<1> HIDE DEF F, G, passes
<1>9. new.ok <=> \A j \in 1..(i + 1) : ~G(j)
  <2>1. (\A j \in 1..(i + 1) : ~G(j)) <=> (r.ok /\ ~bad)
    BY <1>6, <1>7, <1>8
  <2>2. CASE r.aborted
    BY <1>4, <1>8, <2>1, <2>2 DEF word
  <2>3. CASE ~r.aborted
    BY <1>4, <2>1, <2>3 DEF word
  <2> QED
    BY <2>2, <2>3
<1>10. new.aborted <=> plan.stops /\ \E j \in 1..(i + 1) : G(j)
  <2>1. (\E j \in 1..(i + 1) : G(j)) <=> (\E j \in 1..i : F(j)) \/ bad
    BY <1>6, <1>7
  <2>2. CASE r.aborted
    BY <1>4, <1>8, <2>1, <2>2
  <2>3. CASE ~r.aborted
    BY <1>4, <1>8, <2>1, <2>3 DEF word
  <2> QED
    BY <2>2, <2>3
<1>11. ASSUME NEW j \in 1..(i + 1), new.steps[j] = "pass"
       PROVE  StepPasses(plan.steps[j], runs[j])
  <2>1. CASE j \in 1..i
    BY <1>6, <1>11, <2>1 DEF Found
  <2>2. CASE j = i + 1
    BY <1>6, <1>11, <2>2 DEF word, passes
  <2> QED
    BY <1>6, <2>1, <2>2
<1>12. ASSUME NEW j \in 1..(i + 1)
       PROVE  new.steps[j] = "skipped" <=> plan.stops /\ \E k \in 1..(i + 1) : k < j /\ G(k)
  <2>1. CASE j \in 1..i
    <3>1. r.steps[j] = "skipped" <=> plan.stops /\ \E k \in 1..i : k < j /\ F(k)
      BY <2>1 DEF Found, F
    <3>2. (\E k \in 1..(i + 1) : k < j /\ G(k)) <=> \E k \in 1..i : k < j /\ F(k)
      BY <1>6, <1>7, <2>1
    <3> QED
      BY <1>6, <2>1, <3>1, <3>2
  <2>2. CASE j = i + 1
    <3>1. (\E k \in 1..(i + 1) : k < j /\ G(k)) <=> \E k \in 1..i : F(k)
      BY <1>6, <1>7, <2>2
    <3>2. word = "skipped" <=> r.aborted
      BY DEF word
    <3> QED
      BY <1>6, <1>8, <2>2, <3>1, <3>2
  <2> QED
    BY <1>6, <2>1, <2>2
<1> QED
  BY <1>2, <1>6, <1>9, <1>10, <1>11, <1>12 DEF Found, G, new

(* A plan that passes ran every mandatory step to a pass, in time; behind a *)
(* failure that stops it nothing runs, for plans of any length and any      *)
(* outcomes of their commands (verification.VerificationPlan.run).          *)
THEOREM PlansStayHonest == PlansAreHonest
<1> SUFFICES ASSUME NEW plan \in Plans, NEW runs \in RunsOf(plan)
             PROVE  LET r == Verdicts(plan, runs)
                        failed == {i \in DOMAIN plan.steps :
                                      r.steps[i] = "fail" /\ ~plan.steps[i].optional}
                    IN /\ r.ok => \A i \in DOMAIN plan.steps :
                                    plan.steps[i].optional \/ (r.steps[i] = "pass" /\ ~runs[i].late)
                       /\ \A i \in DOMAIN plan.steps :
                             r.steps[i] = "skipped" <=> plan.stops /\ \E j \in failed : j < i
  BY DEF PlansAreHonest
<1> DEFINE n == Len(plan.steps)
           r == Verdicts(plan, runs)
<1>1. n \in Nat /\ DOMAIN plan.steps = 1..n
  BY PanelAssumption
<1>2. PICK f \in [0..n -> VerdictsSoFar] :
          /\ f[0] = PlanBegins /\ r = f[n]
          /\ \A i \in 1..n : f[i] = RunStep(f[i - 1], plan, plan.steps[i], runs[i])
  BY PlanRuns
<1> HIDE DEF n, r
<1> DEFINE fine == {i \in 0..n : Found(f[i], plan, runs, i)}
<1>3. 0 \in fine
  <2>1. 0 \in 0..n /\ 1..0 = {} /\ f[0] \in VerdictsSoFar /\ Len(<<>>) = 0
    BY <1>1, <1>2
  <2>2. Found(f[0], plan, runs, 0)
    BY <1>2, <2>1 DEF Found, PlanBegins
  <2> QED
    BY <2>1, <2>2
<1>4. ASSUME NEW k \in 0..n, k \in fine, k < n PROVE k + 1 \in fine
  <2>1. k + 1 \in 1..n /\ k + 1 \in 0..n /\ (k + 1) - 1 = k /\ k \in Nat
    BY <1>1, <1>4
  <2>2. f[k + 1] = RunStep(f[k], plan, plan.steps[k + 1], runs[k + 1])
    BY <1>2, <2>1
  <2>3. Found(f[k], plan, runs, k)
    BY <1>4
  <2>4. Found(f[k + 1], plan, runs, k + 1)
    BY <1>1, <2>1, <2>2, <2>3, StepFinds
  <2> QED
    BY <2>1, <2>4
<1> HIDE DEF fine
<1>5. n \in 0..n /\ \A k \in 0..n : k \in fine
  <2>1. n \in 0..n
    BY <1>1
  <2>2. \A k \in 0..n : k \in fine /\ k < n => k + 1 \in fine
    BY <1>4
  <2>3. \A k \in 0..n : k \in fine
    BY <1>1, <1>3, <2>2, UpTo
  <2> QED
    BY <2>1, <2>3
<1>6. Found(r, plan, runs, n)
  BY <1>2, <1>5 DEF fine
<1>7. \A i \in 1..n : r.steps[i] \in {"pass", "fail", "skipped"}
  BY <1>6 DEF Found, VerdictsSoFar
<1>8. ASSUME r.ok, NEW i \in 1..n
      PROVE  plan.steps[i].optional \/ (r.steps[i] = "pass" /\ ~runs[i].late)
  <2>1. \A j \in 1..n : ~Failed(r, plan, j)
    BY <1>6, <1>8 DEF Found
  <2>2. r.steps[i] # "skipped"
    BY <1>6, <2>1 DEF Found
  <2>3. r.steps[i] = "fail" => plan.steps[i].optional
    BY <2>1 DEF Failed
  <2>4. r.steps[i] = "pass" => ~runs[i].late
    BY <1>6 DEF Found, StepPasses
  <2> QED
    BY <1>7, <2>2, <2>3, <2>4
<1>9. \A i \in 1..n : r.steps[i] = "skipped" <=>
          plan.stops /\ \E j \in {k \in 1..n : Failed(r, plan, k)} : j < i
  BY <1>6 DEF Found
<1> QED
  BY <1>1, <1>8, <1>9 DEF r, Failed

-----------------------------------------------------------------------------
(* Mastery. *)

Histories == Seq(BOOLEAN)
Reach == UpStreak + DownFailures

(* The last n outcomes of a history. *)
LEMMA NewestIs ==
    ASSUME NEW s \in Histories, NEW n \in 0..Len(s)
    PROVE  /\ Newest(s, n) \in Histories /\ Len(Newest(s, n)) = n
           /\ \A i \in 1..n : Newest(s, n)[i] = s[Len(s) - n + i]
<1>1. Len(s) \in Nat /\ n \in Nat /\ Len(s) - n + 1 \in 1..(Len(s) + 1) /\ n <= Len(s)
  BY DEF Histories
<1>2. /\ SubSeq(s, Len(s) - n + 1, Len(s)) \in Seq(BOOLEAN)
      /\ Len(SubSeq(s, Len(s) - n + 1, Len(s))) = n
      /\ \A i \in 1..n : SubSeq(s, Len(s) - n + 1, Len(s))[i] = s[(Len(s) - n + 1) + i - 1]
  BY <1>1 DEF Histories
<1> QED
  BY <1>1, <1>2 DEF Newest, Histories

LEMMA KeepsIs ==
    ASSUME NEW s \in Histories
    PROVE  /\ Keeps(s) \in Histories /\ Len(Keeps(s)) <= Reach /\ Len(Keeps(s)) <= Len(s)
           /\ Len(s) <= Reach => Keeps(s) = s
           /\ Len(s) > Reach => Len(Keeps(s)) = Reach
           /\ \A i \in 1..Len(Keeps(s)) : Keeps(s)[i] = s[Len(s) - Len(Keeps(s)) + i]
<1>1. Reach \in Nat /\ Len(s) \in Nat
  BY MasteryAssumption DEF Reach, Histories
<1>2. CASE Len(s) <= Reach
  BY <1>1, <1>2 DEF Keeps, Reach
<1>3. CASE Len(s) > Reach
  <2> DEFINE k == Newest(s, Reach)
  <2>1. Keeps(s) = k /\ Reach \in 0..Len(s)
    BY <1>1, <1>3 DEF Keeps, Reach
  <2>2. k \in Histories /\ Len(k) = Reach /\ \A i \in 1..Reach : k[i] = s[Len(s) - Reach + i]
    BY <2>1, NewestIs
  <2> HIDE DEF k
  <2> QED
    BY <1>1, <1>3, <2>1, <2>2
<1> QED
  BY <1>1, <1>2, <1>3

(* What decides about a level is in the window. *)
LEMMA StreaksAreKept ==
    ASSUME NEW s \in Histories, NEW n \in 0..Reach, NEW outcome
    PROVE  (Len(Keeps(s)) >= n /\ AllAre(Newest(Keeps(s), n), outcome)) <=>
               (Len(s) >= n /\ AllAre(Newest(s, n), outcome))
<1> DEFINE k == Keeps(s)
<1>1. /\ k \in Histories /\ Len(k) <= Len(s) /\ Len(k) \in Nat /\ Len(s) \in Nat /\ Reach \in Nat
      /\ (Len(k) >= n <=> Len(s) >= n)
      /\ \A i \in 1..Len(k) : k[i] = s[Len(s) - Len(k) + i]
  <2>1. /\ k \in Histories /\ Len(k) <= Len(s)
        /\ (Len(s) <= Reach => k = s) /\ (Len(s) > Reach => Len(k) = Reach)
        /\ \A i \in 1..Len(k) : k[i] = s[Len(s) - Len(k) + i]
    BY KeepsIs
  <2> HIDE DEF k
  <2>2. Reach \in Nat /\ Len(k) \in Nat /\ Len(s) \in Nat
    BY <2>1, MasteryAssumption DEF Histories, Reach
  <2>3. Len(k) >= n <=> Len(s) >= n
    BY <2>1, <2>2
  <2> QED
    BY <2>1, <2>2, <2>3
<1> HIDE DEF k
<1>2. CASE Len(s) >= n
  <2>1. n \in 0..Len(k) /\ n \in 0..Len(s)
    BY <1>1, <1>2
  <2>2. /\ Len(Newest(k, n)) = n /\ \A i \in 1..n : Newest(k, n)[i] = k[Len(k) - n + i]
        /\ Len(Newest(s, n)) = n /\ \A i \in 1..n : Newest(s, n)[i] = s[Len(s) - n + i]
        /\ DOMAIN Newest(k, n) = 1..n /\ DOMAIN Newest(s, n) = 1..n
    BY <1>1, <2>1, NewestIs DEF Histories
  <2>3. ASSUME NEW i \in 1..n PROVE Newest(k, n)[i] = Newest(s, n)[i]
    <3>1. Len(k) - n + i \in 1..Len(k) /\ Len(s) - Len(k) + (Len(k) - n + i) = Len(s) - n + i
      BY <1>1, <2>1
    <3> QED
      BY <1>1, <2>2, <3>1
  <2>4. AllAre(Newest(k, n), outcome) <=> AllAre(Newest(s, n), outcome)
    BY <2>2, <2>3 DEF AllAre
  <2> QED
    BY <1>1, <2>4 DEF k
<1>3. CASE ~(Len(s) >= n)
  BY <1>1, <1>3 DEF k
<1> QED
  BY <1>2, <1>3

LEMMA WindowDecides ==
    ASSUME NEW s \in Histories, NEW l
    PROVE  Transition(l, Keeps(s)) = Transition(l, s)
<1>1. UpStreak \in 0..Reach /\ DownFailures \in 0..Reach
  BY MasteryAssumption DEF Reach
<1> QED
  BY <1>1, StreaksAreKept DEF Transition

(* The window of a longer history comes from the window before. *)
LEMMA WindowMoves ==
    ASSUME NEW s \in Histories, NEW x \in BOOLEAN
    PROVE  /\ Append(Keeps(s), x) \in Histories /\ Append(s, x) \in Histories
           /\ Keeps(Append(Keeps(s), x)) = Keeps(Append(s, x))
<1> DEFINE k == Keeps(s)
           a == Append(k, x)
           b == Append(s, x)
<1>1. /\ k \in Histories /\ Len(k) <= Len(s) /\ Len(k) \in Nat /\ Len(s) \in Nat
      /\ Reach \in Nat \ {0} /\ (Len(s) <= Reach => k = s) /\ (Len(s) > Reach => Len(k) = Reach)
      /\ \A i \in 1..Len(k) : k[i] = s[Len(s) - Len(k) + i]
  BY KeepsIs, MasteryAssumption DEF Histories, Reach
<1> HIDE DEF k
<1>2. /\ a \in Histories /\ b \in Histories /\ Len(a) = Len(k) + 1 /\ Len(b) = Len(s) + 1
      /\ a[Len(k) + 1] = x /\ b[Len(s) + 1] = x
      /\ \A i \in 1..Len(k) : a[i] = k[i]
      /\ \A i \in 1..Len(s) : b[i] = s[i]
  BY <1>1 DEF Histories
<1>3. \A i \in 1..Len(a) : a[i] = b[Len(b) - Len(a) + i]
  <2> SUFFICES ASSUME NEW i \in 1..Len(a) PROVE a[i] = b[Len(b) - Len(a) + i]
    OBVIOUS
  <2>1. CASE i = Len(k) + 1
    BY <1>1, <1>2, <2>1
  <2>2. CASE i # Len(k) + 1
    <3>1. i \in 1..Len(k) /\ Len(s) - Len(k) + i \in 1..Len(s)
          /\ Len(b) - Len(a) + i = Len(s) - Len(k) + i
      BY <1>1, <1>2, <2>2
    <3> QED
      BY <1>1, <1>2, <3>1
  <2> QED
    BY <2>1, <2>2
<1> HIDE DEF a, b
<1>4. CASE Len(s) <= Reach
  BY <1>1, <1>2, <1>4 DEF a, b, k
<1>5. CASE Len(s) > Reach
  <2> DEFINE ka == Keeps(a)
             kb == Keeps(b)
  <2>1. /\ Len(a) > Reach /\ Len(b) > Reach /\ Len(a) \in Nat /\ Len(b) \in Nat
    BY <1>1, <1>2, <1>5
  <2>2. /\ ka \in Histories /\ kb \in Histories /\ Len(ka) = Reach /\ Len(kb) = Reach
        /\ \A i \in 1..Reach : ka[i] = a[Len(a) - Reach + i] /\ kb[i] = b[Len(b) - Reach + i]
    <3>1. /\ ka \in Histories /\ Len(ka) = Reach
          /\ \A i \in 1..Len(ka) : ka[i] = a[Len(a) - Len(ka) + i]
      BY <1>2, <2>1, KeepsIs
    <3>2. /\ kb \in Histories /\ Len(kb) = Reach
          /\ \A i \in 1..Len(kb) : kb[i] = b[Len(b) - Len(kb) + i]
      BY <1>2, <2>1, KeepsIs
    <3> QED
      BY <3>1, <3>2
  <2> HIDE DEF ka, kb
  <2>3. ASSUME NEW i \in 1..Reach PROVE ka[i] = kb[i]
    <3>1. Len(a) - Reach + i \in 1..Len(a)
          /\ Len(b) - Len(a) + (Len(a) - Reach + i) = Len(b) - Reach + i
      BY <1>1, <2>1
    <3> QED
      BY <1>3, <2>2, <3>1
  <2>4. ka = kb
    BY <2>2, <2>3 DEF Histories
  <2> QED
    BY <1>2, <2>4 DEF ka, kb, a, b, k
<1> QED
  BY <1>1, <1>4, <1>5

Levels == MinLevel..MaxLevel

LEMMA TransitionTyped ==
    ASSUME NEW l \in Levels, NEW recent
    PROVE  Transition(l, recent) \in Levels
<1>1. MinLevel \in Nat /\ MaxLevel \in Nat /\ MinLevel <= MaxLevel /\ l \in MinLevel..MaxLevel
  BY MasteryAssumption DEF Levels
<1>2. /\ (IF l + 1 < MaxLevel THEN l + 1 ELSE MaxLevel) \in Levels
      /\ (IF l - 1 > MinLevel THEN l - 1 ELSE MinLevel) \in Levels
  BY <1>1 DEF Levels
<1>3. Transition(l, recent) \in {IF l + 1 < MaxLevel THEN l + 1 ELSE MaxLevel,
                                IF l - 1 > MinLevel THEN l - 1 ELSE MinLevel, l}
  BY DEF Transition
<1> QED
  BY <1>2, <1>3

(* The level of a history is reached one outcome after the other. *)
LEMMA HistoryRuns ==
    ASSUME NEW history \in Histories
    PROVE  \E f \in [0..Len(history) -> Levels] :
              /\ f[0] = MinLevel /\ LevelAfter(history) = f[Len(history)]
              /\ \A n \in 1..Len(history) : f[n] = Transition(f[n - 1], SubSeq(history, 1, n))
<1> DEFINE n == Len(history)
           Moved(l, i) == Transition(l, SubSeq(history, 1, i))
           step == [p \in Levels \X (1..n) |-> Moved(p[1], p[2])]
           Is(f) == f = [i \in 0..n |-> IF i = 0 THEN MinLevel ELSE Moved(f[i - 1], i)]
           the == CHOOSE f : Is(f)
<1>1. n \in Nat
  BY DEF Histories
<1>2. MinLevel \in Levels
  BY MasteryAssumption DEF Levels
<1>3. LevelAfter(history) = the[n]
  BY DEF LevelAfter
<1> HIDE DEF n
<1>4. \A l \in Levels, i \in 1..n : Moved(l, i) \in Levels
  BY TransitionTyped
<1> HIDE DEF Moved
<1>5. step \in [Levels \X (1..n) -> Levels]
  BY <1>4
<1>6. \A l \in Levels, i \in 1..n : step[<<l, i>>] = Moved(l, i)
  OBVIOUS
<1> HIDE DEF step
<1>7. PICK g \in [0..n -> Levels] : RunsBy(g, n, MinLevel, step)
  BY <1>1, <1>2, <1>5, RunExists
<1>8. Is(g)
  <2>1. ASSUME NEW i \in 0..n PROVE g[i] = IF i = 0 THEN MinLevel ELSE Moved(g[i - 1], i)
    <3>1. CASE i = 0
      BY <1>7, <3>1 DEF RunsBy
    <3>2. CASE i # 0
      <4>1. i \in 1..n /\ i - 1 \in 0..n
        BY <1>1, <3>2
      <4>2. g[i - 1] \in Levels /\ g[i] = step[<<g[i - 1], i>>]
        BY <1>7, <3>2, <4>1 DEF RunsBy
      <4> QED
        BY <1>6, <3>2, <4>1, <4>2
    <3> QED
      BY <3>1, <3>2
  <2>2. g = [i \in 0..n |-> g[i]]
    OBVIOUS
  <2> QED
    BY <2>1, <2>2
<1> HIDE DEF Is
<1>9. Is(the)
  BY <1>8
<1> HIDE DEF the
<1>10. \A i \in 0..n : the[i] = IF i = 0 THEN MinLevel ELSE Moved(the[i - 1], i)
  BY <1>9 DEF Is
<1>11. \A i \in 0..n : the[i] \in Levels
  <2> DEFINE fine == {i \in 0..n : the[i] \in Levels}
  <2>1. 0 \in fine
    BY <1>1, <1>2, <1>10
  <2>2. ASSUME NEW k \in 0..n, k \in fine, k < n PROVE k + 1 \in fine
    <3>1. k + 1 \in 0..n /\ k + 1 # 0 /\ (k + 1) - 1 = k /\ k + 1 \in 1..n
      BY <1>1, <2>2
    <3>2. the[k + 1] = Moved(the[k], k + 1)
      BY <1>10, <3>1
    <3> QED
      BY <1>4, <2>2, <3>1, <3>2
  <2> HIDE DEF fine
  <2>3. \A k \in 0..n : k \in fine
    BY <1>1, <2>1, <2>2, UpTo
  <2> QED
    BY <2>3 DEF fine
<1>12. the = [i \in 0..n |-> the[i]]
  BY <1>9 DEF Is
<1>13. the \in [0..n -> Levels]
  BY <1>11, <1>12
<1>14. 0 \in 0..n /\ \A i \in 1..n : i \in 0..n /\ i # 0
  BY <1>1
<1>15. the[0] = MinLevel /\ \A i \in 1..n : the[i] = Moved(the[i - 1], i)
  BY <1>10, <1>14
<1> QED
  BY <1>3, <1>13, <1>15 DEF Moved, n

LEMMA LevelMoves ==
    ASSUME NEW s \in Histories, NEW x \in BOOLEAN
    PROVE  /\ LevelAfter(s) \in Levels
           /\ LevelAfter(Append(s, x)) = Transition(LevelAfter(s), Append(s, x))
<1> DEFINE n == Len(s)
           b == Append(s, x)
<1>1. n \in Nat /\ b \in Histories /\ Len(b) = n + 1
  BY DEF Histories
<1>2. ASSUME NEW i \in 1..n PROVE SubSeq(b, 1, i) = SubSeq(s, 1, i)
  <2>1. i \in Nat /\ i <= n /\ 1 <= i
    BY <1>1
  <2> QED
    BY <1>1, <2>1 DEF Histories
<1>3. SubSeq(b, 1, n + 1) = b
  BY <1>1 DEF Histories
<1>4. PICK f \in [0..n -> Levels] :
          /\ f[0] = MinLevel /\ LevelAfter(s) = f[n]
          /\ \A i \in 1..n : f[i] = Transition(f[i - 1], SubSeq(s, 1, i))
  BY HistoryRuns
<1> HIDE DEF n, b
<1>5. PICK g \in [0..(n + 1) -> Levels] :
          /\ g[0] = MinLevel /\ LevelAfter(b) = g[n + 1]
          /\ \A i \in 1..(n + 1) : g[i] = Transition(g[i - 1], SubSeq(b, 1, i))
  BY <1>1, HistoryRuns
<1> DEFINE same == {i \in 0..n : f[i] = g[i]}
<1>6. 0 \in same
  BY <1>1, <1>4, <1>5
<1>7. ASSUME NEW k \in 0..n, k \in same, k < n PROVE k + 1 \in same
  <2>1. k + 1 \in 1..n /\ k + 1 \in 1..(n + 1) /\ k + 1 \in 0..n /\ (k + 1) - 1 = k
    BY <1>1, <1>7
  <2>2. f[k + 1] = Transition(f[k], SubSeq(s, 1, k + 1))
    BY <1>4, <2>1
  <2>3. g[k + 1] = Transition(g[k], SubSeq(b, 1, k + 1))
    BY <1>5, <2>1
  <2> QED
    BY <1>2, <1>7, <2>1, <2>2, <2>3
<1> HIDE DEF same
<1>8. n \in 0..n /\ \A k \in 0..n : k \in same
  <2>1. n \in 0..n
    BY <1>1
  <2>2. \A k \in 0..n : k \in same /\ k < n => k + 1 \in same
    BY <1>7
  <2>3. \A k \in 0..n : k \in same
    BY <1>1, <1>6, <2>2, UpTo
  <2> QED
    BY <2>1, <2>3
<1>9. f[n] = g[n] /\ f[n] \in Levels
  BY <1>8 DEF same
<1>10. n + 1 \in 1..(n + 1) /\ (n + 1) - 1 = n
  BY <1>1
<1>11. g[n + 1] = Transition(g[n], b)
  BY <1>3, <1>5, <1>10
<1> QED
  BY <1>4, <1>5, <1>9, <1>11 DEF b

(* What a run has drawn. *)
Draws == [attempts : Nat, goals : SUBSET Drawn, produced : Nat, skipped : Nat,
          exhausted : BOOLEAN]

NoDraws == [attempts |-> 0, goals |-> goals, produced |-> 0, skipped |-> 0,
            exhausted |-> FALSE]

LEMMA DrawTyped ==
    ASSUME NEW acc \in Draws, NEW g \in Drawn, NEW count
    PROVE  DrawUnless(acc, g, count) \in Draws
  BY DEF DrawUnless, Draw, Draws

LEMMA DrawingRuns ==
    ASSUME NEW count \in Nat, NEW draws \in [1..(Patience * count) -> Drawn], goals \subseteq Drawn
    PROVE  \E f \in [0..(Patience * count) -> Draws] :
              /\ f[0] = NoDraws /\ Drawing(count, draws) = f[Patience * count]
              /\ \A i \in 1..(Patience * count) : f[i] = DrawUnless(f[i - 1], draws[i], count)
<1> DEFINE n == Patience * count
           Drew(acc, i) == DrawUnless(acc, draws[i], count)
           step == [p \in Draws \X (1..n) |-> Drew(p[1], p[2])]
           Is(f) == f = [i \in 0..n |-> IF i = 0 THEN NoDraws ELSE Drew(f[i - 1], i)]
           the == CHOOSE f : Is(f)
<1>1. n \in Nat
  BY MasteryAssumption
<1>2. NoDraws \in Draws
  BY DEF NoDraws, Draws
<1>3. Drawing(count, draws) = the[n]
  BY DEF Drawing, NoDraws
<1> HIDE DEF n
<1>4. \A acc \in Draws, i \in 1..n : Drew(acc, i) \in Draws
  BY DrawTyped DEF n
<1> HIDE DEF Drew
<1>5. step \in [Draws \X (1..n) -> Draws]
  BY <1>4
<1>6. \A acc \in Draws, i \in 1..n : step[<<acc, i>>] = Drew(acc, i)
  OBVIOUS
<1> HIDE DEF step
<1>7. PICK g \in [0..n -> Draws] : RunsBy(g, n, NoDraws, step)
  BY <1>1, <1>2, <1>5, RunExists
<1>8. Is(g)
  <2>1. ASSUME NEW i \in 0..n PROVE g[i] = IF i = 0 THEN NoDraws ELSE Drew(g[i - 1], i)
    <3>1. CASE i = 0
      BY <1>7, <3>1 DEF RunsBy
    <3>2. CASE i # 0
      <4>1. i \in 1..n /\ i - 1 \in 0..n
        BY <1>1, <3>2
      <4>2. g[i - 1] \in Draws /\ g[i] = step[<<g[i - 1], i>>]
        BY <1>7, <3>2, <4>1 DEF RunsBy
      <4> QED
        BY <1>6, <3>2, <4>1, <4>2
    <3> QED
      BY <3>1, <3>2
  <2>2. g = [i \in 0..n |-> g[i]]
    OBVIOUS
  <2> QED
    BY <2>1, <2>2
<1> HIDE DEF Is
<1>9. Is(the)
  BY <1>8
<1> HIDE DEF the
<1>10. \A i \in 0..n : the[i] = IF i = 0 THEN NoDraws ELSE Drew(the[i - 1], i)
  BY <1>9 DEF Is
<1>11. \A i \in 0..n : the[i] \in Draws
  <2> DEFINE fine == {i \in 0..n : the[i] \in Draws}
  <2>1. 0 \in fine
    BY <1>1, <1>2, <1>10
  <2>2. ASSUME NEW k \in 0..n, k \in fine, k < n PROVE k + 1 \in fine
    <3>1. k + 1 \in 0..n /\ k + 1 # 0 /\ (k + 1) - 1 = k /\ k + 1 \in 1..n
      BY <1>1, <2>2
    <3>2. the[k + 1] = Drew(the[k], k + 1)
      BY <1>10, <3>1
    <3> QED
      BY <1>4, <2>2, <3>1, <3>2
  <2> HIDE DEF fine
  <2>3. \A k \in 0..n : k \in fine
    BY <1>1, <2>1, <2>2, UpTo
  <2> QED
    BY <2>3 DEF fine
<1>12. the = [i \in 0..n |-> the[i]]
  BY <1>9 DEF Is
<1>13. the \in [0..n -> Draws]
  BY <1>11, <1>12
<1>14. 0 \in 0..n /\ \A i \in 1..n : i \in 0..n /\ i # 0
  BY <1>1
<1>15. the[0] = NoDraws /\ \A i \in 1..n : the[i] = Drew(the[i - 1], i)
  BY <1>10, <1>14
<1> QED
  BY <1>3, <1>13, <1>15 DEF Drew, n

(* After i chances to draw. *)
Accounted(acc, count, i) ==
    /\ acc.produced <= count /\ acc.produced + acc.skipped = acc.attempts /\ acc.attempts <= i
    /\ acc.produced < count => acc.attempts = i
    /\ acc.attempts = Patience * count => acc.exhausted
    /\ IsFiniteSet(acc.goals) /\ acc.produced <= Cardinality(acc.goals)

LEMMA DrawAccounts ==
    ASSUME NEW acc \in Draws, NEW g \in Drawn, NEW count \in Nat, NEW i \in Nat,
           i < Patience * count, Accounted(acc, count, i)
    PROVE  Accounted(DrawUnless(acc, g, count), count, i + 1)
<1> DEFINE n == Patience * count
           new == DrawUnless(acc, g, count)
<1>0. n \in Nat
  BY MasteryAssumption
<1>1. /\ acc.attempts \in Nat /\ acc.produced \in Nat /\ acc.skipped \in Nat
      /\ acc.exhausted \in BOOLEAN
  BY DEF Draws
<1>2. /\ acc.produced <= count /\ acc.produced + acc.skipped = acc.attempts /\ acc.attempts <= i
      /\ (acc.produced < count => acc.attempts = i) /\ (acc.attempts = n => acc.exhausted)
      /\ IsFiniteSet(acc.goals) /\ acc.produced <= Cardinality(acc.goals)
  BY DEF Accounted
<1>3. Cardinality(acc.goals) \in Nat
  BY <1>2, FS_CardinalityType
<1>4. CASE acc.produced >= count
  <2>1. new = acc
    BY <1>4 DEF DrawUnless
  <2>2. acc.attempts <= i + 1 /\ ~(acc.produced < count)
    BY <1>1, <1>2, <1>4
  <2> HIDE DEF n, new
  <2> QED
    BY <1>2, <2>1, <2>2 DEF Accounted, n, new
<1>5. CASE ~(acc.produced >= count)
  <2> DEFINE fresh == g \notin acc.goals
  <2>1. new = [attempts |-> acc.attempts + 1, goals |-> acc.goals \cup {g},
               produced |-> acc.produced + IF fresh THEN 1 ELSE 0,
               skipped  |-> acc.skipped + IF fresh THEN 0 ELSE 1,
               exhausted |-> acc.exhausted \/ acc.attempts + 1 >= n]
    BY <1>5 DEF DrawUnless, Draw
  <2>2. /\ IsFiniteSet(acc.goals \cup {g})
        /\ Cardinality(acc.goals \cup {g}) = Cardinality(acc.goals) + IF fresh THEN 1 ELSE 0
    BY <1>2, <1>3, FS_AddElement
  <2> HIDE DEF fresh
  <2>3. /\ new.attempts = acc.attempts + 1 /\ new.goals = acc.goals \cup {g}
        /\ new.produced = acc.produced + (IF fresh THEN 1 ELSE 0)
        /\ new.skipped = acc.skipped + (IF fresh THEN 0 ELSE 1)
        /\ new.exhausted = (acc.exhausted \/ acc.attempts + 1 >= n)
    BY <2>1
  <2> HIDE DEF new, n
  <2>4. /\ new.produced <= count /\ new.produced + new.skipped = new.attempts
        /\ new.attempts <= i + 1 /\ (new.produced < count => new.attempts = i + 1)
    BY <1>1, <1>2, <1>5, <2>3
  <2>5. ASSUME new.attempts = n PROVE new.exhausted
    <3>1. acc.attempts + 1 >= n
      BY <1>0, <1>1, <2>3, <2>5
    <3> QED
      BY <2>3, <3>1
  <2>6. IsFiniteSet(new.goals) /\ new.produced <= Cardinality(new.goals)
    BY <1>1, <1>2, <1>3, <2>2, <2>3
  <2> QED
    BY <2>4, <2>5, <2>6 DEF Accounted, n, new
<1> QED
  BY <1>4, <1>5

LEMMA DrawingAccounts ==
    ASSUME NEW count \in Nat \ {0}, NEW draws \in [1..(Patience * count) -> Drawn],
           goals \subseteq Drawn, IsFiniteSet(goals)
    PROVE  LET end == Drawing(count, draws)
           IN end \in Draws /\ Accounted(end, count, Patience * count)
<1> DEFINE n == Patience * count
<1>1. n \in Nat /\ n # 0
  BY MasteryAssumption
<1>2. PICK f \in [0..n -> Draws] :
          /\ f[0] = NoDraws /\ Drawing(count, draws) = f[n]
          /\ \A i \in 1..n : f[i] = DrawUnless(f[i - 1], draws[i], count)
  BY DrawingRuns
<1> DEFINE fine == {i \in 0..n : Accounted(f[i], count, i)}
<1>3. 0 \in fine
  <2>1. Cardinality(goals) \in Nat
    BY FS_CardinalityType
  <2>2. Accounted(NoDraws, count, 0)
    BY <1>1, <2>1 DEF Accounted, NoDraws
  <2> QED
    BY <1>1, <1>2, <2>2
<1>4. ASSUME NEW k \in 0..n, k \in fine, k < n PROVE k + 1 \in fine
  <2>1. k + 1 \in 1..n /\ k + 1 \in 0..n /\ (k + 1) - 1 = k /\ k \in Nat
    BY <1>1, <1>4
  <2>2. f[k + 1] = DrawUnless(f[k], draws[k + 1], count) /\ f[k] \in Draws
    BY <1>2, <2>1
  <2>3. Accounted(f[k], count, k) /\ draws[k + 1] \in Drawn /\ k < Patience * count
    BY <1>4, <2>1
  <2>4. Accounted(f[k + 1], count, k + 1)
    BY <2>1, <2>2, <2>3, DrawAccounts
  <2> QED
    BY <2>1, <2>4
<1> HIDE DEF fine, n
<1>5. n \in 0..n /\ \A k \in 0..n : k \in fine
  <2>1. n \in 0..n
    BY <1>1
  <2>2. \A k \in 0..n : k \in fine /\ k < n => k + 1 \in fine
    BY <1>4
  <2>3. \A k \in 0..n : k \in fine
    BY <1>1, <1>3, <2>2, UpTo
  <2> QED
    BY <2>1, <2>3
<1>6. f[n] \in Draws /\ Accounted(f[n], count, n)
  BY <1>2, <1>5 DEF fine
<1> QED
  BY <1>2, <1>6 DEF n

(* The window is that of the history, the level that of the history, and   *)
(* the last run is accounted for.                                          *)
MasteryInv ==
    /\ outcomes \in [Skills -> Histories] /\ level \in [Skills -> Levels]
    /\ window = [s \in Skills |-> Keeps(outcomes[s])]
    /\ LevelIsOfHistory
    /\ goals \subseteq Drawn /\ IsFiniteSet(goals)
    /\ ShortfallIsTold /\ accounting.exhausted \in BOOLEAN

LEMMA MasteryInvInit == MasteryInit => MasteryInv
<1> SUFFICES ASSUME MasteryInit PROVE MasteryInv
  OBVIOUS
<1>1. <<>> \in Histories /\ Len(<<>>) = 0
  BY DEF Histories
<1>2. Keeps(<<>>) = <<>>
  BY <1>1, MasteryAssumption DEF Keeps
<1>3. LevelAfter(<<>>) = MinLevel
  BY <1>1, HistoryRuns
<1>4. MinLevel \in Levels
  BY MasteryAssumption DEF Levels
<1>5. ShortfallIsTold
  BY FS_EmptySet DEF MasteryInit, NoRun, ShortfallIsTold
<1> QED
  BY <1>1, <1>2, <1>3, <1>4, <1>5, FS_EmptySet DEF MasteryInit, MasteryInv, LevelIsOfHistory, NoRun

LEMMA RecordOutcomeKeeps ==
    ASSUME MasteryInv, NEW s \in Skills, NEW success \in BOOLEAN, RecordOutcome(s, success)
    PROVE  MasteryInv'
<1> DEFINE old == outcomes[s]
           new == Append(old, success)
<1>1. /\ outcomes \in [Skills -> Histories] /\ level \in [Skills -> Levels]
      /\ window = [t \in Skills |-> Keeps(outcomes[t])]
      /\ \A t \in Skills : level[t] = LevelAfter(outcomes[t])
  BY DEF MasteryInv, LevelIsOfHistory
<1>2. old \in Histories /\ new \in Histories /\ window[s] = Keeps(old)
      /\ Keeps(Append(Keeps(old), success)) = Keeps(new)
  BY <1>1, WindowMoves
<1> HIDE DEF old, new
<1>3. /\ outcomes' = [outcomes EXCEPT ![s] = new]
      /\ window' = [window EXCEPT ![s] = Keeps(new)]
      /\ level' = [level EXCEPT ![s] = Transition(level[s], window'[s])]
      /\ UNCHANGED <<goals, accounting>>
  BY <1>1, <1>2 DEF RecordOutcome, old, new
<1>4. window'[s] = Keeps(new)
  BY <1>1, <1>3
<1>5. LevelAfter(new) = Transition(LevelAfter(old), new) /\ LevelAfter(new) \in Levels
  <2>1. LevelAfter(new) = Transition(LevelAfter(old), new)
    BY <1>1, LevelMoves DEF old, new
  <2>2. LevelAfter(old) \in Levels
    BY <1>1 DEF old
  <2> QED
    BY <2>1, <2>2, TransitionTyped
<1>6. Transition(level[s], window'[s]) = LevelAfter(new)
  BY <1>1, <1>2, <1>4, <1>5, WindowDecides DEF old
<1>7. outcomes' \in [Skills -> Histories] /\ level' \in [Skills -> Levels]
  BY <1>1, <1>2, <1>3, <1>5, <1>6
<1>8. window' = [t \in Skills |-> Keeps(outcomes'[t])]
  <2>1. \A t \in Skills : window'[t] = Keeps(outcomes'[t])
    BY <1>1, <1>3
  <2>2. window' = [t \in Skills |-> window'[t]]
    BY <1>1, <1>3
  <2> QED
    BY <2>1, <2>2
<1>9. \A t \in Skills : level'[t] = LevelAfter(outcomes'[t])
  BY <1>1, <1>3, <1>6
<1> QED
  BY <1>3, <1>7, <1>8, <1>9 DEF MasteryInv, LevelIsOfHistory, ShortfallIsTold

LEMMA GenerateTasksKeeps ==
    ASSUME MasteryInv, NEW count \in 1..MaxAsked, NEW draws \in [1..(Patience * count) -> Drawn],
           GenerateTasks(count, draws)
    PROVE  MasteryInv'
<1> DEFINE end == Drawing(count, draws)
<1>1. count \in Nat \ {0} /\ Patience \in Nat
  BY MasteryAssumption
<1>2. end \in Draws /\ Accounted(end, count, Patience * count)
  BY <1>1, DrawingAccounts DEF MasteryInv
<1>3. /\ goals' = end.goals
      /\ accounting' = [requested |-> count, produced |-> end.produced, skipped |-> end.skipped,
                        attempts |-> end.attempts, exhausted |-> end.exhausted]
      /\ UNCHANGED <<outcomes, window, level>>
  BY DEF GenerateTasks
<1> HIDE DEF end
<1>4. goals' \subseteq Drawn /\ IsFiniteSet(goals') /\ end.exhausted \in BOOLEAN
  BY <1>2, <1>3 DEF Draws, Accounted
<1>5. /\ accounting'.requested = count /\ accounting'.produced = end.produced
      /\ accounting'.skipped = end.skipped /\ accounting'.attempts = end.attempts
      /\ accounting'.exhausted = end.exhausted
  BY <1>3
<1>6. ShortfallIsTold'
  <2>1. end.produced < count => end.exhausted /\ end.attempts = Patience * count
    BY <1>2 DEF Accounted
  <2> QED
    BY <1>2, <1>3, <1>5, <2>1 DEF Accounted, ShortfallIsTold
<1> QED
  BY <1>3, <1>4, <1>5, <1>6 DEF MasteryInv, LevelIsOfHistory

LEMMA MasteryInvStep == MasteryInv /\ [MasteryNext]_masteryVars => MasteryInv'
<1>1. ASSUME MasteryInv, UNCHANGED masteryVars PROVE MasteryInv'
  BY <1>1 DEF MasteryInv, LevelIsOfHistory, ShortfallIsTold, masteryVars
<1> QED
  BY <1>1, RecordOutcomeKeeps, GenerateTasksKeeps DEF MasteryNext

LEMMA MasteryInvGives == MasteryInv => MasteryTypeOK
<1> SUFFICES ASSUME MasteryInv, NEW s \in Skills
             PROVE  level[s] \in MinLevel..MaxLevel /\ Len(window[s]) <= UpStreak + DownFailures
  BY DEF MasteryInv, MasteryTypeOK
<1>1. outcomes[s] \in Histories /\ window[s] = Keeps(outcomes[s]) /\ level[s] \in Levels
  BY DEF MasteryInv
<1> QED
  BY <1>1, KeepsIs DEF Levels, Reach

(* For any thresholds, levels and outcomes: the window that is kept decides *)
(* what the whole history would (curriculum.MasteryTracker.record).         *)
THEOREM LevelsStayTrue == MasterySpec => [](MasteryTypeOK /\ LevelIsOfHistory)
<1>1. MasteryInv => MasteryTypeOK /\ LevelIsOfHistory
  BY MasteryInvGives DEF MasteryInv
<1> QED
  BY <1>1, MasteryInvInit, MasteryInvStep, PTL DEF MasterySpec

(* For any goals drawn and any patience: a run that falls short of its tasks *)
(* says so, and has used up its draws (curriculum.SyntheticCurriculum).      *)
THEOREM ShortfallsAreTold == MasterySpec => []ShortfallIsTold
<1>1. MasteryInv => ShortfallIsTold
  BY DEF MasteryInv
<1> QED
  BY <1>1, MasteryInvInit, MasteryInvStep, PTL DEF MasterySpec

-----------------------------------------------------------------------------
(* Apprenticeship.                                                         *)

(* What is earned is credited in the lab's report, and a row keeps lessons *)
(* that were earned.                                                       *)
Credited ==
    /\ earned \subseteq Tasks \X Teachers
    /\ \A e \in earned : report[e[2]].accepted > 0

Sessions == [task : Tasks, teacher : Teachers, student : Listening \cup Deaf]
LabRows  == [tags : Teachers \cup {NoOne}, resolution : Teachers \cup {NoOne}]

LabTyped ==
    /\ at \in {"idle", "first", "teach", "retry"}
    /\ at # "idle" => attempt \in Sessions
    /\ lessons \in [Tasks -> LabRows]
    /\ report \in [Teachers -> [sessions : Nat, accepted : Nat]]

LabInv == LabTyped /\ Credited /\ LessonsAreEarned

(* A session ends: its teacher's row of the report gains, no other loses. *)
LEMMA EndsCredits ==
  ASSUME LabTyped, attempt \in Sessions, NEW accepted \in BOOLEAN, Ends(accepted)
  PROVE  /\ report' \in [Teachers -> [sessions : Nat, accepted : Nat]]
         /\ \A t \in Teachers : report[t].accepted > 0 => report'[t].accepted > 0
         /\ accepted => report'[attempt.teacher].accepted > 0
<1> DEFINE t0 == attempt.teacher
<1> DEFINE row == [sessions |-> report[t0].sessions + 1,
                   accepted |-> report[t0].accepted + IF accepted THEN 1 ELSE 0]
<1>1. t0 \in Teachers /\ report \in [Teachers -> [sessions : Nat, accepted : Nat]]
  BY DEF LabTyped, Sessions
<1>2. report' = [report EXCEPT ![t0] = row]
  BY DEF Ends
<1>3. report[t0].sessions \in Nat /\ report[t0].accepted \in Nat
  BY <1>1
<1>4. row \in [sessions : Nat, accepted : Nat]
  BY <1>3
<1>5. /\ report[t0].accepted > 0 => row.accepted > 0
      /\ accepted => row.accepted > 0
  BY <1>3
<1> HIDE DEF row, t0
<1>6. accepted => report'[t0].accepted > 0
  BY <1>1, <1>2, <1>5
<1> QED BY <1>1, <1>2, <1>4, <1>5, <1>6 DEF t0

(* Sessions that end without a lesson learnt. *)
LEMMA UnlearntKeeps ==
  ASSUME LabInv, UNCHANGED <<lessons, earned>>,
         at' \in {"idle", "first", "teach", "retry"}, at' # "idle" => attempt' \in Sessions,
         report' \in [Teachers -> [sessions : Nat, accepted : Nat]],
         \A t \in Teachers : report[t].accepted > 0 => report'[t].accepted > 0
  PROVE  LabInv'
<1>1. LabTyped'
  BY DEF LabInv, LabTyped
<1>2. Credited'
  BY DEF LabInv, Credited
<1>3. LessonsAreEarned'
  BY <1>2 DEF LabInv, LessonsAreEarned, Credited
<1> QED BY <1>1, <1>2, <1>3 DEF LabInv

(* The retry: what passes is earned, credited and stored at once. *)
LEMMA RetryKeeps ==
  ASSUME LabInv, NEW passes \in BOOLEAN, Retry(passes)
  PROVE  LabInv'
<1> DEFINE tk == attempt.task
<1> DEFINE tc == attempt.teacher
<1>0. at = "retry" /\ Ends(passes) /\ at' = "idle"
  BY DEF Retry, Ends
<1>t. attempt \in Sessions /\ tk \in Tasks /\ tc \in Teachers
  BY <1>0 DEF LabInv, LabTyped, Sessions
<1>1. /\ report' \in [Teachers -> [sessions : Nat, accepted : Nat]]
      /\ \A t \in Teachers : report[t].accepted > 0 => report'[t].accepted > 0
      /\ passes => report'[tc].accepted > 0
  BY <1>0, <1>t, EndsCredits DEF LabInv
<1>2. CASE ~passes
  <2>1. UNCHANGED <<lessons, earned>>
    BY <1>2 DEF Retry, Stores
  <2> QED BY <2>1, <1>0, <1>1, UnlearntKeeps
<1>3. CASE passes
  <2>1. /\ earned' = earned \cup {<<tk, tc>>}
        /\ lessons' = [lessons EXCEPT ![tk] = Merged(lessons[tk])]
    BY <1>3 DEF Retry, Stores
  <2>2. Merged(lessons[tk]) \in LabRows /\ Merged(lessons[tk]).resolution = tc
    BY <1>t DEF Merged, LabRows, LabInv, LabTyped
  <2>3. Merged(lessons[tk]).tags \in {tc, lessons[tk].tags}
        /\ (lessons[tk] = NoRow => Merged(lessons[tk]).tags = tc)
    BY DEF Merged
  <2>4. LabTyped'
    BY <1>0, <1>1, <2>1, <2>2, <1>t DEF LabInv, LabTyped
  <2>5. Credited'
    BY <1>1, <1>3, <1>t, <2>1 DEF LabInv, Credited
  <2> HIDE DEF tk, tc
  <2>6. LessonsAreEarned'
    <3> SUFFICES ASSUME NEW t \in Tasks, lessons'[t] # NoRow,
                        NEW by \in {lessons'[t].resolution, lessons'[t].tags}
                 PROVE  <<t, by>> \in earned'
      BY <2>5 DEF LessonsAreEarned, Credited
    <3>1. CASE t # tk
      BY <3>1, <2>1, <2>4 DEF LabInv, LabTyped, LessonsAreEarned
    <3>2. CASE t = tk
      <4>1. lessons'[t] = Merged(lessons[tk])
        BY <3>2, <2>1, <1>t DEF LabInv, LabTyped
      <4>2. by = tc \/ (lessons[tk] # NoRow /\ by = lessons[tk].tags)
        <5>1. by = Merged(lessons[tk]).resolution \/ by = Merged(lessons[tk]).tags
          BY <4>1
        <5>2. CASE lessons[tk] = NoRow
          BY <5>1, <5>2, <2>2, <2>3
        <5>3. CASE lessons[tk] # NoRow
          BY <5>1, <5>3, <2>2, <2>3
        <5> QED BY <5>2, <5>3
      <4> QED BY <4>2, <3>2, <2>1 DEF LabInv, LessonsAreEarned
    <3> QED BY <3>1, <3>2
  <2> QED BY <2>4, <2>5, <2>6 DEF LabInv
<1> QED BY <1>2, <1>3

(* For any students, teachers and tasks: what memory takes from a teacher  *)
(* has made a student pass who had failed, whatever sessions are rejected. *)
THEOREM MemoryIsEarned == LabSpec => []LessonsAreEarned
<1>1. LabInit => LabInv
  <2> SUFFICES ASSUME LabInit PROVE LabInv
    OBVIOUS
  <2>1. LabTyped /\ Credited
    BY DEF LabInit, LabTyped, Credited, NoRow, LabRows
  <2>2. LessonsAreEarned
    BY DEF LabInit, LessonsAreEarned
  <2> QED BY <2>1, <2>2 DEF LabInv
<1>2. LabInv /\ [LabNext]_labVars => LabInv'
  <2> SUFFICES ASSUME LabInv, [LabNext]_labVars PROVE LabInv'
    OBVIOUS
  <2>t. /\ at # "idle" => attempt \in Sessions
        /\ report \in [Teachers -> [sessions : Nat, accepted : Nat]]
        /\ at \in {"idle", "first", "teach", "retry"}
    BY DEF LabInv, LabTyped
  <2>1. ASSUME BeginSession PROVE LabInv'
    <3>1. UNCHANGED <<lessons, earned, report>> /\ at' = "first" /\ attempt' \in Sessions
      BY <2>1 DEF BeginSession, Sessions
    <3> QED BY <3>1, <2>t, UnlearntKeeps
  <2>2. ASSUME NEW passes \in BOOLEAN, FirstAttempt(passes) PROVE LabInv'
    <3>1. /\ UNCHANGED <<attempt, lessons, earned>> /\ at = "first"
          /\ IF passes THEN Ends(TRUE) ELSE at' = "teach" /\ UNCHANGED report
      BY <2>2 DEF FirstAttempt
    <3>2. CASE passes
      BY <3>1, <3>2, <2>t, EndsCredits, UnlearntKeeps DEF Ends, LabInv
    <3>3. CASE ~passes
      BY <3>1, <3>3, <2>t, UnlearntKeeps
    <3> QED BY <3>2, <3>3
  <2>3. ASSUME DeafAtFirst PROVE LabInv'
    <3>1. UNCHANGED <<attempt, lessons, earned>> /\ at = "first" /\ Ends(FALSE)
      BY <2>3 DEF DeafAtFirst
    <3> QED BY <3>1, <2>t, EndsCredits, UnlearntKeeps DEF Ends, LabInv
  <2>4. ASSUME NEW empty \in BOOLEAN, Teach(empty) PROVE LabInv'
    <3>1. /\ UNCHANGED <<attempt, lessons, earned>> /\ at = "teach"
          /\ IF empty THEN Ends(FALSE) ELSE at' = "retry" /\ UNCHANGED report
      BY <2>4 DEF Teach
    <3>2. CASE empty
      BY <3>1, <3>2, <2>t, EndsCredits, UnlearntKeeps DEF Ends, LabInv
    <3>3. CASE ~empty
      BY <3>1, <3>3, <2>t, UnlearntKeeps
    <3> QED BY <3>2, <3>3
  <2>5. ASSUME UNCHANGED labVars PROVE LabInv'
    BY <2>5, <2>t, UnlearntKeeps DEF labVars
  <2> QED BY <2>1, <2>2, <2>3, <2>4, <2>5, RetryKeeps DEF LabNext
<1>3. LabInv => LessonsAreEarned
  BY DEF LabInv
<1> QED BY <1>1, <1>2, <1>3, PTL DEF LabSpec

-----------------------------------------------------------------------------
(* ModelContext.                                                           *)

(* What has been said of the model's own: its last message closes no call  *)
(* when a request is made, and the calls of every turn are answered before *)
(* the next turn, those of the last one as far as they are not owed.       *)
Says(i) == messages[i].role = "assistant"
IsLastTurn(i) == \A k \in i+1..Len(messages) : ~Says(k)
Answers(i) == {j \in i+1..Len(messages) :
                 messages[j].role = "tool" /\ \A k \in i+1..j : ~Says(k)}
CallsAnswered ==
    \A i \in DOMAIN messages : messages[i].calls > 0 =>
        /\ IsFiniteSet(Answers(i))
        /\ Cardinality(Answers(i)) = messages[i].calls - (IF IsLastTurn(i) THEN owed ELSE 0)

ContextInv ==
    /\ ContextTypeOK
    /\ Len(messages) > 0 /\ messages[1].role = "user" /\ messages[1].about = "goal"
    /\ \A i \in DOMAIN messages : /\ Says(i) /\ messages[i].size = 0 => messages[i].calls > 0
                                  /\ messages[i].calls > 0 => Says(i)
                                  /\ messages[i].short <= messages[i].size
    /\ ~finished => /\ CallsAnswered
                    /\ owed = 0 => ~Says(Len(messages))

(* The messages there are stay, and more come after them. *)
LEMMA SaidStays ==
  ASSUME NEW S, NEW s \in Seq(S), NEW t \in Seq(S)
  PROVE  /\ s \o t \in Seq(S) /\ Len(s \o t) = Len(s) + Len(t) /\ Len(s) \in Nat /\ Len(t) \in Nat
         /\ \A i \in 1..Len(s) : (s \o t)[i] = s[i]
         /\ \A i \in 1..Len(t) : (s \o t)[Len(s) + i] = t[i]
OBVIOUS

LEMMA MsgTyped ==
  ASSUME NEW role \in Roles, NEW about \in Abouts, NEW l \in Lengths \cup {<<0, 0>>}, NEW c \in 0..2
  PROVE  /\ Msg(role, about, l, c) \in Message
         /\ Msg(role, about, l, c).role = role /\ Msg(role, about, l, c).about = about
         /\ Msg(role, about, l, c).calls = c
         /\ Msg(role, about, l, c).size = l[1]
         /\ Msg(role, about, l, c).short <= Msg(role, about, l, c).size
         /\ l \in Lengths => l[1] > 0
<1>1. l \in Nat \X Nat /\ l[2] <= l[1] /\ (l \in Lengths => l[1] > 0)
  <2>1. CASE l \in Lengths
    BY <2>1, ContextAssumption
  <2>2. CASE l = <<0, 0>> /\ l \notin Lengths
    BY <2>2
  <2> QED BY <2>1, <2>2
<1> QED BY <1>1 DEF Msg, Message

LEMMA MessagesTyped ==
  ASSUME ContextInv, NEW i \in DOMAIN messages
  PROVE  messages[i] \in Message /\ messages[i].calls \in 0..2 /\ messages[i].size \in Nat
<1>1. messages \in Seq(Message)
  BY DEF ContextInv, ContextTypeOK
<1>2. messages[i] \in Message
  BY <1>1
<1> QED BY <1>2 DEF Message

LEMMA ContextInitHolds == ContextInit => ContextInv
<1> SUFFICES ASSUME ContextInit PROVE ContextInv
  OBVIOUS
<1>1. PICK l \in Lengths : messages = <<Msg("user", "goal", l, 0)>>
  BY DEF ContextInit
<1> DEFINE m == Msg("user", "goal", l, 0)
<1>2. /\ m \in Message /\ m.role = "user" /\ m.about = "goal" /\ m.calls = 0
      /\ m.short <= m.size
  BY MsgTyped DEF Roles, Abouts
<1>3. owed = 0 /\ finished = FALSE /\ MaxMessages \in Nat
  BY ContextAssumption DEF ContextInit
<1>4. messages \in Seq(Message) /\ Len(messages) = 1 /\ messages[1] = m
  <2> HIDE DEF m
  <2> QED BY <1>1, <1>2 DEF m
<1> HIDE DEF m
<1>5. DOMAIN messages = {1} /\ Len(messages) = 1
  BY <1>4
<1>6. CallsAnswered
  BY <1>2, <1>4, <1>5 DEF CallsAnswered
<1>7. ContextTypeOK
  <2>1. finished \in BOOLEAN
    BY <1>3
  <2> QED BY <1>3, <1>4, <2>1 DEF ContextTypeOK
<1> QED BY <1>2, <1>3, <1>4, <1>5, <1>6, <1>7 DEF ContextInv, Says

(* A step of the loop adds one message or two.                             *)
LEMMA SaysMore ==
  ASSUME ContextInv, NEW t \in Seq(Message), messages' = messages \o t, Len(t) \in 1..2
  PROVE  /\ messages' \in Seq(Message) /\ Len(messages) \in Nat
         /\ Len(messages') = Len(messages) + Len(t)
         /\ \A i \in 1..Len(messages) : messages'[i] = messages[i]
         /\ messages'[Len(messages) + 1] = t[1]
         /\ Len(t) = 2 => messages'[Len(messages) + 2] = t[2]
<1>1. messages \in Seq(Message)
  BY DEF ContextInv, ContextTypeOK
<1>2. \A i \in 1..Len(t) : messages'[Len(messages) + i] = t[i]
  BY <1>1, SaidStays
<1> QED BY <1>1, <1>2, SaidStays

(* What comes after a turn without a result leaves its answers as they are. *)
LEMMA AnswersStay ==
  ASSUME ContextInv, NEW i \in 1..Len(messages), Len(messages') \in Nat,
         Len(messages) <= Len(messages'),
         \A j \in 1..Len(messages) : messages'[j] = messages[j],
         \A j \in Len(messages)+1..Len(messages') : messages'[j].role # "tool"
  PROVE  Answers(i)' = Answers(i)
<1>1. Len(messages) \in Nat
  BY DEF ContextInv, ContextTypeOK
<1>2. \A k \in (i + 1)..Len(messages) : Says(k)' = Says(k)
  BY <1>1 DEF Says
<1>3. ASSUME NEW j \in (i + 1)..Len(messages) PROVE j \in Answers(i)' <=> j \in Answers(i)
  <2>1. /\ messages'[j].role = messages[j].role /\ j \in (i + 1)..Len(messages')
        /\ \A k \in (i + 1)..j : k \in (i + 1)..Len(messages)
    BY <1>1
  <2>2. (\A k \in (i + 1)..j : ~Says(k))' <=> \A k \in (i + 1)..j : ~Says(k)
    BY <1>2, <2>1
  <2> QED
    BY <2>1, <2>2 DEF Answers
<1>4. ASSUME NEW j \in Answers(i)' PROVE j \in (i + 1)..Len(messages)
  <2>1. j \in (i + 1)..Len(messages') /\ messages'[j].role = "tool"
    BY DEF Answers
  <2> QED
    BY <1>1, <2>1
<1>5. \A j \in Answers(i) : j \in (i + 1)..Len(messages)
  BY DEF Answers
<1> QED
  BY <1>3, <1>4, <1>5

LEMMA RejectedKeeps == ASSUME ContextInv, Rejected PROVE ContextInv'
<1> DEFINE n == Len(messages)
<1>1. PICK l \in Lengths :
        messages' = messages \o <<Msg("assistant", "answer", l, 0), Msg("user", "correction", l, 0)>>
  BY DEF Rejected
<1> DEFINE a == Msg("assistant", "answer", l, 0)
           c == Msg("user", "correction", l, 0)
<1>2. /\ a \in Message /\ a.role = "assistant" /\ a.calls = 0 /\ a.size > 0
      /\ c \in Message /\ c.role = "user" /\ c.calls = 0
      /\ a.short <= a.size /\ c.short <= c.size
  <2>1. /\ "assistant" \in Roles /\ "user" \in Roles /\ "answer" \in Abouts /\ "correction" \in Abouts
        /\ l \in Lengths \cup {<<0, 0>>} /\ 0 \in 0..2
    BY DEF Roles, Abouts
  <2>2. /\ a \in Message /\ a.role = "assistant" /\ a.calls = 0 /\ a.size > 0 /\ a.short <= a.size
    BY <2>1, MsgTyped
  <2>3. c \in Message /\ c.role = "user" /\ c.calls = 0 /\ c.short <= c.size
    BY <2>1, MsgTyped
  <2> QED
    BY <2>2, <2>3
<1>3. owed = 0 /\ ~finished /\ n < MaxMessages /\ owed' = owed /\ finished' = finished /\ CallsAnswered
  BY DEF Rejected, Room, ContextInv
<1>4. /\ messages' \in Seq(Message) /\ n \in Nat /\ Len(messages') = n + 2
      /\ \A i \in 1..n : messages'[i] = messages[i]
      /\ messages'[n + 1] = a /\ messages'[n + 2] = c
  <2> HIDE DEF a, c
  <2> DEFINE t == <<a, c>>
  <2>1. t \in Seq(Message) /\ Len(t) = 2 /\ t[1] = a /\ t[2] = c
    BY <1>2
  <2>2. messages' = messages \o t
    BY <1>1 DEF a, c
  <2> HIDE DEF t
  <2>3. Len(t) \in 1..2
    BY <2>1
  <2>4. /\ messages' \in Seq(Message) /\ Len(messages) \in Nat
        /\ Len(messages') = Len(messages) + Len(t)
        /\ \A i \in 1..Len(messages) : messages'[i] = messages[i]
        /\ messages'[Len(messages) + 1] = t[1]
        /\ Len(t) = 2 => messages'[Len(messages) + 2] = t[2]
    BY <2>1, <2>2, <2>3, SaysMore
  <2> QED BY <2>1, <2>4
<1> HIDE DEF a, c, n
<1>5. ContextTypeOK'
  BY <1>3, <1>4, ContextAssumption DEF ContextInv, ContextTypeOK
<1>6. DOMAIN messages' = 1..n + 2 /\ DOMAIN messages = 1..n /\ Len(messages) = n
  BY <1>4 DEF ContextInv, ContextTypeOK, n
<1>7. CallsAnswered'
  <2>1. ASSUME NEW i \in 1..n, messages[i].calls > 0
        PROVE  /\ IsFiniteSet(Answers(i)') /\ Cardinality(Answers(i)') = messages[i].calls
               /\ messages'[i].calls = messages[i].calls
    <3>1. Answers(i)' = Answers(i)
      BY <1>2, <1>4, <1>6, AnswersStay
    <3>2. messages[i].calls \in 0..2
      BY <1>6, MessagesTyped
    <3>3. IsFiniteSet(Answers(i)) /\ Cardinality(Answers(i)) = messages[i].calls
      BY <1>3, <1>6, <2>1, <3>2 DEF CallsAnswered
    <3> QED BY <1>4, <3>1, <3>3
  <2>2. messages'[n + 1].calls = 0 /\ messages'[n + 2].calls = 0
    BY <1>2, <1>4
  <2>3. \A i \in 1..n + 2 : i \in 1..n \/ i = n + 1 \/ i = n + 2
    BY <1>4
  <2>4. \A i \in DOMAIN messages' : messages'[i].calls > 0 => i \in 1..n /\ messages[i].calls > 0
    BY <1>4, <1>6, <2>2, <2>3
  <2>5. ASSUME NEW i \in 1..n, messages[i].calls > 0 PROVE messages[i].calls \in Nat
    BY <1>6, MessagesTyped
  <2>6. \A i \in DOMAIN messages' : messages'[i].calls > 0 =>
          /\ IsFiniteSet(Answers(i)') /\ messages'[i].calls \in Nat
          /\ Cardinality(Answers(i)') = messages'[i].calls
    BY <2>1, <2>4, <2>5
  <2> QED BY <1>3, <2>6 DEF CallsAnswered
<1>8. \A i \in 1..n + 2 : /\ Says(i)' /\ messages'[i].size = 0 => messages'[i].calls > 0
                          /\ messages'[i].calls > 0 => Says(i)'
                          /\ messages'[i].short <= messages'[i].size
  <2>1. \A i \in 1..n + 2 : i \in 1..n \/ i = n + 1 \/ i = n + 2
    BY <1>4
  <2> QED BY <1>2, <1>4, <1>6, <2>1 DEF ContextInv, Says
<1>9. ~Says(Len(messages))'
  BY <1>2, <1>4 DEF Says
<1> QED BY <1>4, <1>5, <1>6, <1>7, <1>8, <1>9 DEF ContextInv

LEMMA ToolTurnKeeps == ASSUME ContextInv, ToolTurn PROVE ContextInv'
<1> DEFINE n == Len(messages)
<1>1. PICK c \in 1..2, l \in Lengths \cup {<<0, 0>>} :
        messages' = Append(messages, Msg("assistant", "calls", l, c)) /\ owed' = c
  BY DEF ToolTurn, Say
<1> DEFINE a == Msg("assistant", "calls", l, c)
<1>2. a \in Message /\ a.role = "assistant" /\ a.calls = c /\ c > 0 /\ a.short <= a.size
  BY MsgTyped DEF Roles, Abouts
<1>3. owed = 0 /\ ~finished /\ n < MaxMessages /\ finished' = finished /\ CallsAnswered
  BY DEF ToolTurn, Room, ContextInv
<1>4. /\ messages \in Seq(Message) /\ messages' \in Seq(Message)
      /\ n \in Nat /\ Len(messages') = n + 1
      /\ \A i \in 1..n : messages'[i] = messages[i]
      /\ messages'[n + 1] = a
  <2>1. messages \in Seq(Message)
    BY DEF ContextInv, ContextTypeOK
  <2> HIDE DEF a
  <2>2. messages' = Append(messages, a)
    BY <1>1 DEF a
  <2> QED BY <1>2, <2>1, <2>2
<1> HIDE DEF a, n
<1>5. ContextTypeOK'
  <2>1. finished' \in BOOLEAN
    BY <1>3 DEF ContextInv, ContextTypeOK
  <2> QED BY <1>1, <1>3, <1>4, <2>1, ContextAssumption DEF ContextTypeOK
<1>6. DOMAIN messages' = 1..n + 1 /\ DOMAIN messages = 1..n /\ Len(messages) = n
  BY <1>4 DEF n
<1>7. CallsAnswered'
  <2>1. ASSUME NEW i \in 1..n, messages[i].calls > 0
        PROVE  /\ IsFiniteSet(Answers(i)') /\ Cardinality(Answers(i)') = messages[i].calls
               /\ messages'[i].calls = messages[i].calls /\ messages[i].calls \in Nat
               /\ ~IsLastTurn(i)'
    <3>1. Answers(i)' = Answers(i)
      BY <1>2, <1>4, <1>6, AnswersStay
    <3>2. messages[i].calls \in 0..2
      BY <1>6, MessagesTyped
    <3>3. IsFiniteSet(Answers(i)) /\ Cardinality(Answers(i)) = messages[i].calls
      BY <1>3, <1>6, <2>1, <3>2 DEF CallsAnswered
    <3>4. ~IsLastTurn(i)'
      BY <1>2, <1>4 DEF IsLastTurn, Says
    <3> QED BY <1>4, <3>1, <3>2, <3>3, <3>4
  <2>3. \A i \in 1..n + 1 : i \in 1..n \/ i = n + 1
    BY <1>4
  <2>5. ASSUME NEW i \in 1..n + 1, messages'[i].calls > 0
        PROVE  /\ IsFiniteSet(Answers(i)')
               /\ Cardinality(Answers(i)') = messages'[i].calls - (IF IsLastTurn(i)' THEN owed' ELSE 0)
    <3>1. CASE i \in 1..n
      BY <1>4, <2>1, <2>5, <3>1
    <3>2. CASE i = n + 1
      <4>1. \A j : j \notin i + 1..Len(messages')
        BY <1>4, <3>2
      <4>2. IsLastTurn(i)'
        BY <4>1 DEF IsLastTurn
      <4>3. \A j : j \notin Answers(i)'
        BY <4>1 DEF Answers
      <4>4. Answers(i)' = {}
        BY <4>3
      <4>5. IsFiniteSet(Answers(i)') /\ Cardinality(Answers(i)') = 0
        BY <4>4, FS_EmptySet
      <4>6. messages'[i].calls - owed' = 0
        BY <1>1, <1>2, <1>4, <3>2
      <4> QED BY <4>2, <4>5, <4>6
    <3> QED BY <2>3, <3>1, <3>2
  <2> QED BY <1>6, <2>5 DEF CallsAnswered
<1>8. \A i \in 1..n + 1 : /\ Says(i)' /\ messages'[i].size = 0 => messages'[i].calls > 0
                          /\ messages'[i].calls > 0 => Says(i)'
                          /\ messages'[i].short <= messages'[i].size
  <2>1. \A i \in 1..n + 1 : i \in 1..n \/ i = n + 1
    BY <1>4
  <2> QED BY <1>2, <1>4, <1>6, <2>1 DEF ContextInv, Says
<1>9. owed' # 0
  BY <1>1
<1>10. Len(messages') > 0 /\ messages'[1].role = "user" /\ messages'[1].about = "goal"
  BY <1>4, <1>6 DEF ContextInv
<1> QED BY <1>5, <1>6, <1>7, <1>8, <1>9, <1>10 DEF ContextInv

(* A result answers the open turn, whatever advice comes with it.          *)
LEMMA ToolResultKeeps == ASSUME ContextInv, ToolResult PROVE ContextInv'
<1> DEFINE n == Len(messages)
           e == Len(messages')
<1>1. PICK l \in Lengths, about \in {"result", "listing"}, advised \in BOOLEAN :
        messages' = Append(messages, Msg("tool", about, l, 0))
                      \o IF advised THEN <<Msg("system", "advice", <<1, 1>>, 0)>> ELSE <<>>
  BY DEF ToolResult
<1> DEFINE r == Msg("tool", about, l, 0)
           v == Msg("system", "advice", <<1, 1>>, 0)
<1>2. /\ r \in Message /\ r.role = "tool" /\ r.calls = 0 /\ r.short <= r.size
      /\ v \in Message /\ v.role = "system" /\ v.calls = 0 /\ v.short <= v.size
  <2>1. about \in Abouts
    BY DEF Abouts
  <2>2. v \in Message /\ v.role = "system" /\ v.calls = 0 /\ v.short <= v.size
    BY DEF Msg, Message, Roles, Abouts
  <2> QED BY <2>1, <2>2, MsgTyped DEF Roles
<1>3. owed > 0 /\ ~finished /\ n < MaxMessages /\ owed' = owed - 1 /\ finished' = finished /\ CallsAnswered
  BY DEF ToolResult, Room, ContextInv
<1>o. owed \in 0..2 /\ messages \in Seq(Message)
  BY DEF ContextInv, ContextTypeOK
<1>4. /\ messages' \in Seq(Message) /\ n \in Nat /\ e \in Nat /\ (e = n + 1 \/ e = n + 2)
      /\ \A i \in 1..n : messages'[i] = messages[i]
      /\ messages'[n + 1] = r /\ (e = n + 2 => messages'[n + 2] = v)
  <2> HIDE DEF r, v
  <2>1. CASE advised
    <3>1. messages' = Append(messages, r) \o <<v>>
      BY <1>1, <2>1 DEF r, v
    <3> QED BY <1>2, <1>o, <3>1
  <2>2. CASE ~advised
    <3>1. messages' = Append(messages, r) \o <<>>
      BY <1>1, <2>2 DEF r, v
    <3>2. Append(messages, r) \in Seq(Message)
      BY <1>2, <1>o
    <3>3. messages' = Append(messages, r)
      BY <3>1, <3>2
    <3> QED BY <1>2, <1>o, <3>3
  <2> QED BY <2>1, <2>2
<1>6. DOMAIN messages' = 1..e /\ DOMAIN messages = 1..n /\ Len(messages) = n /\ Len(messages') = e
  BY <1>4, <1>o
<1> HIDE DEF r, v, n, e
<1>e. /\ \A i \in 1..e : i \in 1..n \/ i \in n + 1..e
      /\ \A i \in n + 1..e : i = n + 1 \/ (i = n + 2 /\ e = n + 2)
      /\ n + 1 \in n + 1..e /\ n + 1 \notin 1..n /\ \A i \in 1..n : i \in 1..e /\ n + 1 \in i + 1..e
  BY <1>4
<1>5. ContextTypeOK'
  <2>1. finished' \in BOOLEAN
    BY <1>3 DEF ContextInv, ContextTypeOK
  <2>2. owed' \in 0..2
    BY <1>3, <1>o
  <2>3. Len(messages') <= MaxMessages + 1
    BY <1>3, <1>4, <1>6, ContextAssumption
  <2> QED BY <1>4, <2>1, <2>2, <2>3 DEF ContextTypeOK
<1>s. \A i \in n + 1..e : /\ messages'[i].calls = 0 /\ messages'[i].role # "assistant"
                          /\ messages'[i].short <= messages'[i].size
  BY <1>2, <1>4, <1>e
<1>7. CallsAnswered'
  <2>1. ASSUME NEW i \in 1..n PROVE IsLastTurn(i)' <=> IsLastTurn(i)
    BY <1>4, <1>6, <1>s DEF IsLastTurn, Says
  <2>2. ASSUME NEW i \in 1..n
        PROVE  Answers(i)' = IF IsLastTurn(i) THEN Answers(i) \cup {n + 1} ELSE Answers(i)
    <3>1. \A j : j \in Answers(i) => j \in Answers(i)'
      BY <1>4, <1>6 DEF Answers, Says
    <3>2. IsLastTurn(i) => n + 1 \in Answers(i)'
      BY <1>2, <1>4, <1>6, <1>s DEF Answers, Says, IsLastTurn
    <3>3. \A j : j \in Answers(i)' => j \in Answers(i) \/ j = n + 1
      <4>1. \A j \in n + 1..e : messages'[j].role = "tool" => j = n + 1
        <5>1. \A j \in n + 1..e : j = n + 1 \/ (j = n + 2 /\ messages'[j] = v)
          BY <1>4, <1>e
        <5>2. v.role # "tool"
          BY <1>2
        <5> QED
          BY <5>1, <5>2
      <4> QED BY <1>4, <1>6, <4>1 DEF Answers, Says
    <3>4. n + 1 \in Answers(i)' => IsLastTurn(i)
      BY <1>4, <1>6 DEF Answers, Says, IsLastTurn
    <3> QED BY <3>1, <3>2, <3>3, <3>4
  <2>3. ASSUME NEW i \in 1..n, messages[i].calls > 0
        PROVE  /\ IsFiniteSet(Answers(i)')
               /\ Cardinality(Answers(i)') = messages[i].calls - (IF IsLastTurn(i) THEN owed - 1 ELSE 0)
    <3>1. /\ IsFiniteSet(Answers(i)) /\ messages[i].calls \in 0..2
          /\ Cardinality(Answers(i)) = messages[i].calls - (IF IsLastTurn(i) THEN owed ELSE 0)
      BY <1>3, <1>6, <2>3, MessagesTyped DEF CallsAnswered
    <3>2. n + 1 \notin Answers(i)
      BY <1>4, <1>6 DEF Answers
    <3>3. /\ IsFiniteSet(Answers(i) \cup {n + 1})
          /\ Cardinality(Answers(i) \cup {n + 1}) = Cardinality(Answers(i)) + 1
      BY <3>1, <3>2, FS_AddElement
    <3>4. CASE IsLastTurn(i)
      <4>1. Answers(i)' = Answers(i) \cup {n + 1}
        BY <2>2, <3>4
      <4>2. Cardinality(Answers(i)) = messages[i].calls - owed
        BY <3>1, <3>4
      <4>3. Cardinality(Answers(i)) + 1 = messages[i].calls - (owed - 1)
        BY <1>o, <3>1, <4>2
      <4> QED BY <3>3, <3>4, <4>1, <4>3
    <3>5. CASE ~IsLastTurn(i)
      BY <2>2, <3>1, <3>5
    <3> QED BY <3>4, <3>5
  <2>4. \A i \in DOMAIN messages' : messages'[i].calls > 0 => i \in 1..n /\ messages'[i] = messages[i]
    BY <1>4, <1>6, <1>e, <1>s
  <2>5. ASSUME NEW i \in DOMAIN messages', messages'[i].calls > 0
        PROVE  /\ IsFiniteSet(Answers(i)')
               /\ Cardinality(Answers(i)') = messages'[i].calls - (IF IsLastTurn(i)' THEN owed' ELSE 0)
    BY <1>3, <2>1, <2>3, <2>4, <2>5
  <2> QED BY <2>5 DEF CallsAnswered
<1>8. \A i \in DOMAIN messages' : /\ Says(i)' /\ messages'[i].size = 0 => messages'[i].calls > 0
                                  /\ messages'[i].calls > 0 => Says(i)'
                                  /\ messages'[i].short <= messages'[i].size
  <2>1. \A i \in 1..n : /\ Says(i)' /\ messages'[i].size = 0 => messages'[i].calls > 0
                        /\ messages'[i].calls > 0 => Says(i)'
                        /\ messages'[i].short <= messages'[i].size
    BY <1>4, <1>6 DEF ContextInv, Says
  <2>2. \A i \in n + 1..e : /\ ~Says(i)' /\ ~(messages'[i].calls > 0)
                            /\ messages'[i].short <= messages'[i].size
    BY <1>s DEF Says
  <2> QED BY <1>6, <1>e, <2>1, <2>2
<1>9. ~Says(Len(messages))'
  <2>1. e \in n + 1..e
    BY <1>4
  <2> QED BY <1>6, <1>s, <2>1 DEF Says
<1>10. Len(messages') > 0 /\ messages'[1].role = "user" /\ messages'[1].about = "goal"
  BY <1>4, <1>6 DEF ContextInv
<1> QED BY <1>5, <1>7, <1>8, <1>9, <1>10 DEF ContextInv

LEMMA ContextStepKeeps == ContextInv /\ [ContextNext]_contextVars => ContextInv'
<1> SUFFICES ASSUME ContextInv, [ContextNext]_contextVars PROVE ContextInv'
  OBVIOUS
<1>1. CASE GivesUp
  <2>1. messages' = messages /\ owed' = owed /\ finished' = TRUE
    BY <1>1 DEF GivesUp
  <2>2. ContextTypeOK'
    BY <2>1 DEF ContextInv, ContextTypeOK
  <2> QED BY <2>1, <2>2 DEF ContextInv, Says
<1>2. CASE UNCHANGED contextVars
  <2>1. messages' = messages /\ owed' = owed /\ finished' = finished
    BY <1>2 DEF contextVars
  <2>2. \A i : Answers(i)' = Answers(i) /\ (IsLastTurn(i)' <=> IsLastTurn(i)) /\ (Says(i)' <=> Says(i))
    BY <2>1 DEF Answers, IsLastTurn, Says
  <2>3. CallsAnswered => CallsAnswered'
    <3> HIDE DEF Answers, IsLastTurn
    <3> QED BY <2>1, <2>2 DEF CallsAnswered
  <2>4. ContextTypeOK'
    BY <2>1 DEF ContextInv, ContextTypeOK
  <2> QED BY <2>1, <2>2, <2>3, <2>4 DEF ContextInv
<1> QED BY <1>1, <1>2, RejectedKeeps, ToolTurnKeeps, ToolResultKeeps DEF ContextNext


-----------------------------------------------------------------------------
(* What is sent: one content for each message.                             *)

(* A sequence of single entries is flattened to these entries.             *)
LEMMA FlattenOfOnes ==
  ASSUME NEW S, NEW s \in Seq(S), NEW t, t = [i \in 1..Len(s) |-> <<s[i]>>]
  PROVE  FlattenSeq(t) = s
<1> DEFINE n == Len(s)
           fl == CHOOSE f : f = [i \in 1..Len(t) |-> IF i = 1 THEN t[i] ELSE f[i-1] \o t[i]]
           g == [i \in 1..n |-> [j \in 1..i |-> s[j]]]
<1>1. FlattenSeq(t) = IF Len(t) = 0 THEN t ELSE fl[Len(t)]
  BY DEF FlattenSeq
<1>2. n \in Nat /\ Len(t) = n /\ DOMAIN t = 1..n
  OBVIOUS
<1>3. \A i \in 1..n : g[i] \in Seq(S) /\ Len(g[i]) = i /\ DOMAIN g[i] = 1..i
  OBVIOUS
<1>4. ASSUME NEW i \in 1..n, i # 1 PROVE g[i] = g[i - 1] \o t[i]
  <2>1. i - 1 \in 1..n /\ g[i - 1] \in Seq(S) /\ Len(g[i - 1]) = i - 1
    BY <1>2, <1>3, <1>4
  <2>2. t[i] = <<s[i]>> /\ s[i] \in S
    OBVIOUS
  <2>3. \A j \in 1..i - 1 : g[i - 1][j] = s[j]
    BY <2>1
  <2>4. \A j \in 1..i : g[i][j] = s[j]
    OBVIOUS
  <2>5. g[i] \in Seq(S) /\ Len(g[i]) = i
    BY <1>3
  <2> HIDE DEF g
  <2> QED BY <2>1, <2>2, <2>3, <2>4, <2>5
<1>5. g[1] = t[1] \/ n = 0
  <2>1. CASE n > 0
    <3>1. 1 \in 1..n /\ t[1] = <<s[1]>> /\ g[1] = [j \in 1..1 |-> s[j]]
      BY <1>2, <2>1
    <3>2. [j \in 1..1 |-> s[j]] = <<s[1]>>
      OBVIOUS
    <3> QED BY <3>1, <3>2
  <2> QED BY <1>2, <2>1
<1>6. g = [i \in 1..Len(t) |-> IF i = 1 THEN t[i] ELSE g[i-1] \o t[i]]
  <2>1. \A i \in 1..n : g[i] = IF i = 1 THEN t[i] ELSE g[i-1] \o t[i]
    <3> SUFFICES ASSUME NEW i \in 1..n PROVE g[i] = IF i = 1 THEN t[i] ELSE g[i-1] \o t[i]
      OBVIOUS
    <3>1. n # 0
      BY <1>2
    <3> HIDE DEF g
    <3> QED BY <1>4, <1>5, <3>1
  <2>2. g = [i \in 1..n |-> g[i]]
    OBVIOUS
  <2>3. Len(t) = n
    BY <1>2
  <2> HIDE DEF g, n
  <2>4. g = [i \in 1..n |-> IF i = 1 THEN t[i] ELSE g[i-1] \o t[i]]
    BY <2>1, <2>2
  <2> QED BY <2>3, <2>4
<1>7. fl = [i \in 1..n |-> IF i = 1 THEN t[i] ELSE fl[i-1] \o t[i]]
  <2> HIDE DEF g
  <2> QED BY <1>2, <1>6
<1>8. \A i \in 1..n : fl[i] = g[i]
  <2> DEFINE W == {i \in 1..n : fl[i] # g[i]}
  <2> SUFFICES ASSUME W # {} PROVE FALSE
    OBVIOUS
  <2>1. W \in SUBSET Nat
    BY <1>2
  <2>2. PICK m \in W : \A k \in W : m <= k
    <3> HIDE DEF W
    <3> QED BY <2>1, Least
  <2>3. m \in 1..n /\ fl[m] # g[m]
    BY <2>2
  <2>4. CASE m = 1
    <3>1. n # 0
      BY <1>2, <2>3
    <3> HIDE DEF fl, g
    <3>2. fl[m] = t[m]
      BY <1>7, <2>3, <2>4
    <3> QED BY <1>5, <2>3, <2>4, <3>1, <3>2
  <2>5. CASE m # 1
    <3>1. m - 1 \in 1..n /\ ~(m <= m - 1)
      BY <1>2, <2>3, <2>5
    <3>2. fl[m - 1] = g[m - 1]
      BY <2>2, <3>1
    <3>3. fl[m] = fl[m - 1] \o t[m]
      <4> HIDE DEF fl
      <4> QED BY <1>7, <2>3, <2>5
    <3> QED BY <1>4, <2>3, <2>5, <3>2, <3>3
  <2> QED BY <2>4, <2>5
<1>9. CASE n = 0
  <2>1. t = <<>> /\ s = <<>>
    BY <1>9
  <2> QED BY <1>1, <1>2, <1>9, <2>1
<1>10. CASE n > 0
  <2>1. n \in 1..n
    BY <1>2, <1>10
  <2>2. FlattenSeq(t) = fl[n]
    BY <1>1, <1>2, <1>10
  <2>3. fl[n] = g[n]
    BY <1>8, <2>1
  <2>4. g[n] = s
    BY <1>2, <2>1
  <2> HIDE DEF g, fl
  <2> QED BY <2>2, <2>3, <2>4
<1> QED BY <1>2, <1>9, <1>10


(* What a message is sent as.                                              *)
Sent(m) == [role |-> IF m.role = "assistant" THEN "model" ELSE "user",
            results |-> IF m.role = "tool" THEN 1 ELSE 0,
            calls |-> IF m.role = "assistant" THEN m.calls ELSE 0]

LEMMA SentOneByOne ==
  ASSUME ContextInv
  PROVE  Contents(messages) = [i \in 1..Len(messages) |-> Sent(messages[i])]
<1> DEFINE n == Len(messages)
           s == [i \in 1..n |-> Sent(messages[i])]
           t == [i \in DOMAIN messages |-> Content(messages[i])]
           S == [role : {"model", "user"}, results : {0, 1}, calls : Nat]
<1>1. messages \in Seq(Message) /\ n \in Nat /\ DOMAIN messages = 1..n
  BY DEF ContextInv, ContextTypeOK
<1>2. \A i \in 1..n : messages[i] \in Message /\ messages[i].calls \in 0..2
  BY <1>1, MessagesTyped
<1>3. \A i \in 1..n : Sent(messages[i]) \in S
  BY <1>2 DEF Sent
<1>4. ASSUME NEW i \in 1..n PROVE Content(messages[i]) = <<Sent(messages[i])>>
  <2>1. /\ messages[i].role = "assistant" /\ messages[i].size = 0 => messages[i].calls > 0
        /\ messages[i].calls \in 0..2
    BY <1>1, <1>2 DEF ContextInv, Says
  <2>2. ~(messages[i].role = "assistant" /\ messages[i].size = 0 /\ messages[i].calls = 0)
    BY <2>1
  <2> QED BY <2>2 DEF Content, Sent
<1>5. s \in Seq(S) /\ Len(s) = n /\ \A i \in 1..n : s[i] = Sent(messages[i])
  <2> HIDE DEF S
  <2> QED BY <1>1, <1>3
<1>6. t = [i \in 1..Len(s) |-> <<s[i]>>]
  <2>1. \A i \in 1..n : t[i] = <<s[i]>>
    BY <1>1, <1>4, <1>5
  <2>2. t = [i \in 1..n |-> t[i]]
    BY <1>1
  <2> HIDE DEF t, s
  <2> QED BY <1>5, <2>1, <2>2
<1>7. FlattenSeq(t) = s
  <2> HIDE DEF t, s, S
  <2> QED BY <1>5, <1>6, FlattenOfOnes
<1> QED BY <1>7 DEF Contents

LEMMA WholeHolds == ASSUME ContextInv PROVE WholeIsSendable
<1> DEFINE sent == Contents(messages)
           n == Len(messages)
           results(i) == {j \in {j \in i+1..Len(sent) : \A k \in i+1..j : sent[k].role = "user"} :
                             sent[j].results = 1}
<1>1. n \in Nat /\ n > 0 /\ DOMAIN messages = 1..n
  BY DEF ContextInv, ContextTypeOK
<1>2. /\ Len(sent) = n /\ DOMAIN sent = 1..n
      /\ \A i \in 1..n : sent[i] = Sent(messages[i])
  BY <1>1, SentOneByOne
<1> HIDE DEF sent
<1>3. \A i \in 1..n : /\ sent[i].role = "user" <=> messages[i].role # "assistant"
                      /\ sent[i].results = 1 <=> messages[i].role = "tool"
                      /\ sent[i].calls > 0 => messages[i].calls > 0 /\ sent[i].calls = messages[i].calls
  BY <1>2 DEF Sent
<1>4. SUFFICES ASSUME Asking
               PROVE  /\ sent[Len(sent)].role = "user"
                      /\ \A i \in DOMAIN sent : sent[i].calls > 0 =>
                            Cardinality(results(i)) = sent[i].calls
  BY DEF WholeIsSendable, sent
<1>5. owed = 0 /\ ~finished /\ CallsAnswered /\ ~Says(n)
  BY <1>4 DEF Asking, ContextInv
<1>6. sent[Len(sent)].role = "user"
  BY <1>1, <1>2, <1>3, <1>5 DEF Says
<1>7. ASSUME NEW i \in 1..n PROVE results(i) = Answers(i)
  <2>1. \A j \in i+1..n : j \in 1..n /\ \A k \in i+1..j : k \in 1..n
    BY <1>1
  <2>2. \A j : j \in results(i) <=> j \in Answers(i)
    BY <1>2, <1>3, <2>1 DEF Answers, Says
  <2> QED BY <2>2
<1>8. ASSUME NEW i \in 1..n, sent[i].calls > 0 PROVE Cardinality(results(i)) = sent[i].calls
  <2>1. messages[i].calls > 0 /\ sent[i].calls = messages[i].calls /\ messages[i].calls \in 0..2
    BY <1>1, <1>3, <1>8, MessagesTyped
  <2>2. Cardinality(Answers(i)) = messages[i].calls
    BY <1>1, <1>5, <2>1 DEF CallsAnswered
  <2> HIDE DEF results
  <2> QED BY <1>7, <2>1, <2>2
<1> QED BY <1>2, <1>6, <1>8


-----------------------------------------------------------------------------
(* What a builder keeps.  The first message of the user is the goal.       *)
LEMMA GoalIsFirst ==
  ASSUME ContextInv PROVE Goal = messages[1]
<1> DEFINE first(i) == i \in Having("user") /\ \A j \in Having("user") : i <= j
<1>1. messages \in Seq(Message) /\ Len(messages) > 0 /\ messages[1].role = "user"
  BY DEF ContextInv, ContextTypeOK
<1>2. \A j \in Having("user") : j \in Nat /\ 1 <= j
  BY <1>1 DEF Having
<1>3. 1 \in Having("user")
  BY <1>1 DEF Having
<1>4. first(1) /\ \A i : first(i) => i = 1
  BY <1>2, <1>3
<1>5. (CHOOSE i \in Having("user") : \A j \in Having("user") : i <= j) = 1
  BY <1>2, <1>3
<1> QED BY <1>5 DEF Goal

(* The lengths of messages add up. *)
LEMMA SizeRuns ==
  ASSUME NEW q \in Seq(Message)
  PROVE  \E f \in [0..Len(q) -> Nat] :
            /\ Size(q) = f[Len(q)] /\ f[0] = 0
            /\ \A i \in 1..Len(q) : f[i] = f[i - 1] + q[i].size
<1> DEFINE n == Len(q)
           up == CHOOSE upTo : upTo = [i \in 0..Len(q) |->
                                          IF i = 0 THEN 0 ELSE upTo[i - 1] + q[i].size]
           step == [p \in Nat \X (1..n) |-> p[1] + q[p[2]].size]
<1>1. Size(q) = up[Len(q)]
  BY Zenon DEF Size
<1>2. n \in Nat /\ \A i \in 1..n : q[i].size \in Nat
  <2>1. n \in Nat /\ \A i \in 1..n : q[i] \in Message
    OBVIOUS
  <2>2. \A m \in Message : m.size \in Nat
    BY DEF Message
  <2> QED BY <2>1, <2>2
<1>3. step \in [Nat \X (1..n) -> Nat]
  BY <1>2
<1>4. \A v \in Nat, i \in 1..n : step[<<v, i>>] = v + q[i].size
  OBVIOUS
<1> HIDE DEF step, n
<1>5. PICK f \in [0..n -> Nat] : RunsBy(f, n, 0, step)
  BY <1>2, <1>3, RunExists
<1>6. /\ f[0] = 0 /\ \A i \in 1..n : f[i] = f[i - 1] + q[i].size
  <2>1. \A i \in 0..n : f[i] = IF i = 0 THEN 0 ELSE step[<<f[i - 1], i>>]
    BY <1>5 DEF RunsBy
  <2>2. f[0] = 0
    BY <1>2, <2>1
  <2>3. ASSUME NEW i \in 1..n PROVE f[i] = f[i - 1] + q[i].size
    <3>1. i \in 0..n /\ i # 0 /\ i - 1 \in 0..n
      BY <1>2
    <3>2. f[i - 1] \in Nat /\ f[i] = step[<<f[i - 1], i>>]
      BY <2>1, <3>1
    <3> QED BY <1>4, <3>2
  <2> QED BY <2>2, <2>3
<1>7. f = [i \in 0..n |-> IF i = 0 THEN 0 ELSE f[i - 1] + q[i].size]
  <2>1. \A i \in 0..n : i = 0 \/ i \in 1..n
    BY <1>2
  <2>2. \A i \in 0..n : f[i] = IF i = 0 THEN 0 ELSE f[i - 1] + q[i].size
    BY <1>6, <2>1
  <2>3. f = [i \in 0..n |-> f[i]]
    OBVIOUS
  <2> QED BY <2>2, <2>3
<1>8. up = [i \in 0..n |-> IF i = 0 THEN 0 ELSE up[i - 1] + q[i].size]
  BY <1>7 DEF n
<1> HIDE DEF up
<1>9. \A i \in 0..n : up[i] = f[i]
  <2> DEFINE same == {i \in 0..n : up[i] = f[i]}
  <2>1. 0 \in same
    BY <1>2, <1>6, <1>8
  <2>2. ASSUME NEW i \in 0..n, i \in same, i < n PROVE i + 1 \in same
    <3>1. i + 1 \in 0..n /\ i + 1 # 0 /\ i + 1 \in 1..n /\ (i + 1) - 1 = i
      BY <1>2, <2>2
    <3>2. up[i + 1] = up[i] + q[i + 1].size
      BY <1>8, <3>1
    <3>3. f[i + 1] = f[i] + q[i + 1].size
      BY <1>6, <3>1
    <3> QED BY <2>2, <3>1, <3>2, <3>3
  <2> HIDE DEF same
  <2>3. \A i \in 0..n : i \in same
    BY <1>2, <2>1, <2>2, UpTo
  <2> QED BY <2>3 DEF same
<1> QED BY <1>1, <1>2, <1>6, <1>9 DEF n

LEMMA SizeOfAppend ==
  ASSUME NEW q \in Seq(Message), NEW x \in Message
  PROVE  Size(q) \in Nat /\ x.size \in Nat /\ Size(Append(q, x)) = Size(q) + x.size
<1> DEFINE n == Len(q)
           r == Append(q, x)
<1>1. /\ n \in Nat /\ r \in Seq(Message) /\ Len(r) = n + 1 /\ r[n + 1] = x
      /\ \A i \in 1..n : r[i] = q[i]
  OBVIOUS
<1> HIDE DEF r, n
<1>2. PICK f \in [0..n -> Nat] : /\ Size(q) = f[n] /\ f[0] = 0
                                 /\ \A i \in 1..n : f[i] = f[i - 1] + q[i].size
  BY SizeRuns DEF n
<1>3. PICK g \in [0..(n + 1) -> Nat] : /\ Size(r) = g[n + 1] /\ g[0] = 0
                                       /\ \A i \in 1..(n + 1) : g[i] = g[i - 1] + r[i].size
  <2>1. \E g \in [0..Len(r) -> Nat] : /\ Size(r) = g[Len(r)] /\ g[0] = 0
                                      /\ \A i \in 1..Len(r) : g[i] = g[i - 1] + r[i].size
    BY <1>1, SizeRuns
  <2>2. Len(r) = n + 1
    BY <1>1
  <2> QED BY <2>1, <2>2
<1>4. \A i \in 0..n : g[i] = f[i]
  <2> DEFINE same == {i \in 0..n : g[i] = f[i]}
  <2>1. 0 \in same
    BY <1>1, <1>2, <1>3
  <2>2. ASSUME NEW i \in 0..n, i \in same, i < n PROVE i + 1 \in same
    <3>1. i + 1 \in 1..n /\ i + 1 \in 1..(n + 1) /\ i + 1 \in 0..n /\ (i + 1) - 1 = i
      BY <1>1, <2>2
    <3>2. g[i + 1] = g[i] + r[i + 1].size /\ f[i + 1] = f[i] + q[i + 1].size
      BY <1>2, <1>3, <3>1
    <3> QED BY <1>1, <2>2, <3>1, <3>2
  <2> HIDE DEF same
  <2>3. \A i \in 0..n : i \in same
    BY <1>1, <2>1, <2>2, UpTo
  <2> QED BY <2>3 DEF same
<1>5. g[n + 1] = g[n] + x.size
  <2>1. n + 1 \in 1..(n + 1) /\ (n + 1) - 1 = n
    BY <1>1
  <2> QED BY <1>1, <1>3, <2>1
<1>6. x.size \in Nat /\ f[n] \in Nat /\ g[n] = f[n]
  BY <1>1, <1>2, <1>4 DEF Message
<1> QED BY <1>2, <1>3, <1>5, <1>6 DEF r

(* The latest result is shortened for room only; and what lacks room lacks *)
(* it still when more is kept.                                             *)
LEMMA LatestFormFits ==
  ASSUME ContextInv, NEW i \in DOMAIN messages, NEW used \in Nat
  PROVE  LET m == messages[i]
             n == LatestForm(m, used)
         IN  /\ n \in Nat
             /\ \/ n = m.size
                \/ n = m.short /\ (m.size > Verbatim \/ used + m.size > Budget)
                \/ n = Smaller(m.short, Cut) /\ used + m.short > Budget
<1> DEFINE m == messages[i]
           n == LatestForm(m, used)
<1>1. /\ m.size \in Nat /\ m.short \in Nat
      /\ {Cut, Verbatim, Budget} \subseteq Nat
  BY MessagesTyped, ContextAssumption DEF Message
<1>2. n = CASE used + Latest(m) <= Budget -> Latest(m)
            [] used + Latest(m) > Budget /\ used + m.short <= Budget -> m.short
            [] OTHER -> Smaller(m.short, Cut)
  BY DEF LatestForm
<1> HIDE DEF m, n
<1>3. /\ Latest(m) \in Nat /\ Smaller(m.short, Cut) \in Nat
      /\ m.size <= Verbatim => Latest(m) = m.size
      /\ ~(m.size <= Verbatim) => Latest(m) = m.short
  BY <1>1 DEF Latest, Smaller
<1>4. CASE used + Latest(m) <= Budget
  <2>1. n = Latest(m)
    BY <1>1, <1>2, <1>3, <1>4
  <2>2. n = m.size \/ (n = m.short /\ m.size > Verbatim)
    BY <1>1, <1>3, <2>1
  <2> QED BY <1>3, <2>1, <2>2 DEF m, n
<1>5. CASE ~(used + Latest(m) <= Budget) /\ used + m.short <= Budget
  <2>1. n = m.short
    BY <1>1, <1>2, <1>3, <1>5
  <2>2. m.size > Verbatim \/ used + m.size > Budget
    BY <1>1, <1>3, <1>5
  <2> QED BY <1>1, <2>1, <2>2 DEF m, n
<1>6. CASE ~(used + Latest(m) <= Budget) /\ ~(used + m.short <= Budget)
  <2>1. n = Smaller(m.short, Cut) /\ used + m.short > Budget
    BY <1>1, <1>2, <1>3, <1>6
  <2> QED BY <1>3, <2>1 DEF m, n
<1> QED BY <1>4, <1>5, <1>6

LEMMA RoomShrinks ==
  ASSUME NEW x \in Message, NEW m \in Message, NEW a, NEW b, Size(a) \in Nat,
         Size(b) \in Nat, Size(a) <= Size(b), ShortenedForRoom(x, m, a)
  PROVE  ShortenedForRoom(x, m, b)
<1>1. /\ x.size \in Nat /\ m.size \in Nat /\ m.short \in Nat /\ Budget \in Nat
  BY ContextAssumption DEF Message
<1> QED BY <1>1 DEF ShortenedForRoom

LEMMA ShortenedTyped ==
  ASSUME NEW m \in Message, NEW k \in Nat
  PROVE  /\ Shortened(m, k) \in Message /\ Shortened(m, k).size = k
         /\ Shortened(m, k).role = m.role /\ Shortened(m, k).about = m.about
<1> DEFINE cut == [m EXCEPT !.size = k]
           e == [cut EXCEPT !.calls = 0]
<1>1. Shortened(m, k) = [m EXCEPT !.size = k, !.calls = 0]
  BY DEF Shortened
<1>2. cut \in Message
  BY DEF Message
<1>3. cut.size = k /\ cut.role = m.role /\ cut.about = m.about
  BY DEF Message
<1>4. [m EXCEPT !.size = k, !.calls = 0] = e
  BY DEF Message
<1> HIDE DEF cut
<1>5. e \in Message
  BY <1>2 DEF Message
<1>6. e.size = cut.size /\ e.role = cut.role /\ e.about = cut.about
  BY <1>2 DEF Message
<1> HIDE DEF e
<1> QED BY <1>1, <1>3, <1>4, <1>5, <1>6

LEMMA ConsiderTyped ==
  ASSUME ContextInv, NEW kept \in Seq(Message), NEW i \in DOMAIN messages
  PROVE  /\ Consider(kept, i) = kept \/ \E x \in Message : Consider(kept, i) = Append(kept, x)
         /\ Consider(kept, i) \in Seq(Message)
         /\ messages[i].role = "tool" /\ IsLatest(i) =>
               \E x \in Message : /\ Consider(kept, i) = Append(kept, x)
                                  /\ x.role = "tool" /\ x.about = messages[i].about
                                  /\ x.size = LatestForm(messages[i], Size(kept))
         /\ messages[i].role = "user" =>
               \/ \E x \in Message : Consider(kept, i) = Append(kept, x) /\ x.role = "user"
               \/ Consider(kept, i) = kept /\ Size(kept) + Allowed(i) > Budget
<1> DEFINE m == messages[i]
           u == LatestForm(m, Size(kept))
<1>1. m \in Message /\ m.size \in Nat /\ m.short \in Nat
  BY MessagesTyped DEF Message
<1>2. ASSUME NEW k \in Nat
      PROVE  /\ Shortened(m, k) \in Message /\ Shortened(m, k).size = k
             /\ Shortened(m, k).role = m.role /\ Shortened(m, k).about = m.about
  <2> HIDE DEF m
  <2> QED BY <1>1, ShortenedTyped
<1>3. Allowed(i) \in Nat
  BY <1>1 DEF Allowed, Digest
<1>4. u \in Nat /\ Size(kept) \in Nat
  <2>1. Size(kept) \in Nat
    BY <1>1, SizeOfAppend
  <2> QED BY <2>1, LatestFormFits
<1>5. CASE m.role = "system"
  BY <1>5 DEF Consider, IsLatest, Having
<1>6. CASE m.role # "system" /\ IsLatest(i)
  <2>1. Consider(kept, i) = Append(kept, Shortened(m, u))
    BY <1>6 DEF Consider
  <2>3. m.role = "tool"
    BY <1>6 DEF IsLatest, Having
  <2> HIDE DEF m, u
  <2>2. Shortened(m, u) \in Message /\ Append(kept, Shortened(m, u)) \in Seq(Message)
    BY <1>2, <1>4
  <2> QED BY <1>2, <1>4, <2>1, <2>2, <2>3 DEF m, u
<1>7. CASE m.role # "system" /\ ~IsLatest(i)
  <2> DEFINE a == Append(kept, Shortened(m, Allowed(i)))
  <2>1. Consider(kept, i) = a \/ (Consider(kept, i) = kept /\ Size(kept) + Allowed(i) > Budget)
    <3>1. Budget \in Nat
      BY ContextAssumption
    <3> QED BY <1>3, <1>4, <1>7, <3>1 DEF Consider
  <2>2. Shortened(m, Allowed(i)) \in Message /\ a \in Seq(Message)
        /\ Shortened(m, Allowed(i)).role = m.role
    BY <1>2, <1>3
  <2> HIDE DEF m
  <2> QED BY <1>7, <2>1, <2>2 DEF m
<1> QED BY <1>5, <1>6, <1>7

(* The prompt, the goal, and perhaps a block of memory.                    *)
LEMMA FixedTyped ==
  ASSUME ContextInv
  PROVE  Fixed \in Seq(Message) /\ Len(Fixed) >= 2 /\ Fixed[2] = messages[1]
<1> DEFINE p == Msg("system", "prompt", <<HeadLength, HeadLength>>, 0)
           b == Msg("system", "memory", <<MemoryLength, MemoryLength>>, 0)
           s == <<p, messages[1]>>
<1>1. HeadLength \in Nat /\ MemoryLength \in Nat
  BY ContextAssumption
<1>2. p \in Message /\ b \in Message
  BY <1>1 DEF Msg, Message, Roles, Abouts
<1>3. messages[1] \in Message
  <2>1. 1 \in DOMAIN messages
    BY DEF ContextInv, ContextTypeOK
  <2> QED BY <2>1, MessagesTyped
<1>4. Fixed = s \o IF MemoryLength = 0 THEN <<>> ELSE <<b>>
  BY GoalIsFirst DEF Fixed
<1> HIDE DEF p, b
<1>5. s \in Seq(Message) /\ Len(s) = 2 /\ Len(s) >= 2 /\ s[2] = messages[1]
  BY <1>2, <1>3
<1> HIDE DEF s
<1>6. CASE MemoryLength = 0
  <2>1. Fixed = s \o <<>>
    BY <1>4, <1>6
  <2>2. s \o <<>> = s
    BY <1>5
  <2>3. Fixed = s
    BY <2>1, <2>2
  <2> QED BY <1>5, <2>3
<1>7. CASE MemoryLength # 0
  <2>1. Fixed = s \o <<b>>
    BY <1>4, <1>7
  <2> QED BY <1>2, <1>5, <2>1
<1> QED BY <1>6, <1>7


(* The recursion over the history is well defined.                         *)
LEMMA KeptExists ==
  ASSUME ContextInv
  PROVE  Kept = [k \in 0..Len(messages) |->
                    IF k = 0 THEN Fixed ELSE Consider(Kept[k - 1], Len(messages) + 1 - k)]
<1> DEFINE n == Len(messages)
           step == [p \in Seq(Message) \X (1..n) |-> Consider(p[1], n + 1 - p[2])]
           Is(f) == f = [k \in 0..n |-> IF k = 0 THEN Fixed ELSE Consider(f[k - 1], n + 1 - k)]
<1>1. n \in Nat /\ DOMAIN messages = 1..n /\ \A k \in 1..n : n + 1 - k \in 1..n
  BY DEF ContextInv, ContextTypeOK
<1>2. Fixed \in Seq(Message)
  BY FixedTyped
<1> HIDE DEF n
<1>3. \A kept \in Seq(Message), k \in 1..n : Consider(kept, n + 1 - k) \in Seq(Message)
  BY <1>1, ConsiderTyped
<1>4. step \in [Seq(Message) \X (1..n) -> Seq(Message)]
  BY <1>3
<1>5. \A kept \in Seq(Message), k \in 1..n : step[<<kept, k>>] = Consider(kept, n + 1 - k)
  OBVIOUS
<1> HIDE DEF step
<1>6. PICK f \in [0..n -> Seq(Message)] : RunsBy(f, n, Fixed, step)
  BY <1>1, <1>2, <1>4, RunExists
<1>7. Is(f)
  <2>1. ASSUME NEW k \in 0..n
        PROVE  f[k] = IF k = 0 THEN Fixed ELSE Consider(f[k - 1], n + 1 - k)
    <3>1. CASE k = 0
      BY <1>6, <3>1 DEF RunsBy
    <3>2. CASE k # 0
      <4>1. k \in 1..n /\ k - 1 \in 0..n
        BY <1>1, <3>2
      <4>2. f[k - 1] \in Seq(Message) /\ f[k] = step[<<f[k - 1], k>>]
        BY <1>6, <3>2, <4>1 DEF RunsBy
      <4> QED
        BY <1>5, <3>2, <4>1, <4>2
    <3> QED
      BY <3>1, <3>2
  <2>2. f = [k \in 0..n |-> f[k]]
    OBVIOUS
  <2> QED
    BY <2>1, <2>2
<1> QED
  BY <1>7 DEF Kept, n

(* What is kept when k messages have been considered: the goal, and the     *)
(* latest result if it was one of them.                                    *)
KeepsEvidence(kept, k) ==
    /\ kept \in Seq(Message) /\ Len(kept) >= 2 /\ kept[2] = messages[1]
    /\ \A l \in DOMAIN messages : IsLatest(l) /\ l > Len(messages) - k =>
          \E i \in DOMAIN kept :
             /\ kept[i].role = "tool" /\ kept[i].about = messages[l].about
             /\ ShortenedForRoom(kept[i], messages[l], kept)

LEMMA KeptKeepsEvidence ==
  ASSUME ContextInv, NEW k \in 0..Len(messages)
  PROVE  KeepsEvidence(Kept[k], k)
<1> DEFINE n == Len(messages)
           W == {j \in 0..n : ~KeepsEvidence(Kept[j], j)}
<1>1. n \in Nat /\ DOMAIN messages = 1..n
  BY DEF ContextInv, ContextTypeOK
<1>2. \A j \in 0..n : Kept[j] = IF j = 0 THEN Fixed ELSE Consider(Kept[j - 1], n + 1 - j)
  BY KeptExists
<1> SUFFICES ASSUME W # {} PROVE FALSE
  OBVIOUS
<1>3. W \in SUBSET Nat
  BY <1>1
<1>4. PICK m \in W : \A j \in W : m <= j
  <2> HIDE DEF W
  <2> QED BY <1>3, Least
<1>5. m \in 0..n /\ ~KeepsEvidence(Kept[m], m)
  BY <1>4
<1>6. m # 0
  <2> SUFFICES ASSUME m = 0 PROVE FALSE
    OBVIOUS
  <2>1. Kept[0] = Fixed
    BY <1>2, <1>5
  <2>2. \A l \in DOMAIN messages : ~(l > n - 0)
    BY <1>1
  <2>3. KeepsEvidence(Kept[0], 0)
    BY <2>1, <2>2, FixedTyped DEF KeepsEvidence
  <2> QED BY <1>5, <2>3
<1> DEFINE old == Kept[m - 1]
           new == Kept[m]
           i == n + 1 - m
<1>7. m - 1 \in 0..n /\ ~(m <= m - 1) /\ m \in Nat /\ i \in 1..n
  BY <1>1, <1>5, <1>6
<1>8. KeepsEvidence(old, m - 1)
  <2>1. m - 1 \notin W
    BY <1>4, <1>7
  <2> QED BY <1>7, <2>1
<1>9. new = Consider(old, i)
  BY <1>2, <1>5, <1>6
<1> HIDE DEF old, new, i, W
<1>10. old \in Seq(Message) /\ Len(old) >= 2 /\ old[2] = messages[1]
  BY <1>8 DEF KeepsEvidence
<1>11. /\ new \in Seq(Message) /\ Len(new) >= Len(old)
       /\ \A j \in DOMAIN old : j \in DOMAIN new /\ new[j] = old[j]
       /\ Size(old) \in Nat /\ Size(new) \in Nat /\ Size(old) <= Size(new)
  <2>1. new = old \/ \E x \in Message : new = Append(old, x)
    BY <1>1, <1>7, <1>9, <1>10, ConsiderTyped
  <2>4. Size(old) \in Nat /\ messages[1] \in Message
    BY <1>1, <1>10, SizeOfAppend, MessagesTyped DEF ContextInv
  <2>2. CASE new = old
    BY <1>10, <2>2, <2>4
  <2>3. ASSUME NEW x \in Message, new = Append(old, x)
        PROVE  <1>11
    <3>1. x.size \in Nat /\ Size(new) = Size(old) + x.size
      BY <1>10, <2>3, SizeOfAppend
    <3>2. /\ new \in Seq(Message) /\ Len(new) >= Len(old)
          /\ \A j \in DOMAIN old : j \in DOMAIN new /\ new[j] = old[j]
      BY <1>10, <2>3
    <3> QED BY <2>4, <3>1, <3>2
  <2> QED BY <2>1, <2>2, <2>3
<1>12. new[2] = messages[1] /\ Len(new) >= 2
  <2>1. 2 \in DOMAIN old
    BY <1>10
  <2> QED BY <1>10, <1>11, <2>1
<1>13. ASSUME NEW l \in DOMAIN messages, IsLatest(l), l > n - m
       PROVE  \E j \in DOMAIN new : /\ new[j].role = "tool" /\ new[j].about = messages[l].about
                                    /\ ShortenedForRoom(new[j], messages[l], new)
  <2>0. messages[l] \in Message /\ messages[l].size \in Nat
    BY MessagesTyped
  <2>1. CASE l > n - (m - 1)
    <3>1. PICK j \in DOMAIN old : /\ old[j].role = "tool" /\ old[j].about = messages[l].about
                                  /\ ShortenedForRoom(old[j], messages[l], old)
      BY <1>8, <1>13, <2>1 DEF KeepsEvidence
    <3>2. old[j] \in Message /\ new[j] = old[j] /\ j \in DOMAIN new
      BY <1>10, <1>11
    <3>3. ShortenedForRoom(old[j], messages[l], new)
      BY <1>11, <2>0, <3>1, <3>2, RoomShrinks
    <3> QED BY <3>1, <3>2, <3>3
  <2>2. CASE ~(l > n - (m - 1))
    <3>1. l = i
      BY <1>1, <1>7, <1>13, <2>2 DEF i
    <3>2. messages[i].role = "tool" /\ IsLatest(i)
      BY <1>13, <3>1 DEF IsLatest, Having
    <3>3. PICK x \in Message : /\ new = Append(old, x)
                               /\ x.role = "tool" /\ x.about = messages[i].about
                               /\ x.size = LatestForm(messages[i], Size(old))
      BY <1>1, <1>7, <1>9, <1>10, <3>2, ConsiderTyped
    <3>4. new[Len(old) + 1] = x /\ Len(old) + 1 \in DOMAIN new
      BY <1>10, <3>3
    <3>5. Size(new) = Size(old) + x.size /\ x.size \in Nat
      BY <1>10, <3>3, SizeOfAppend
    <3> DEFINE w == messages[i]
    <3>6. /\ w.size \in Nat /\ w.short \in Nat /\ Budget \in Nat /\ Size(new) - x.size = Size(old)
      <4>1. i \in DOMAIN messages
        BY <1>1, <1>7
      <4>2. messages[i] \in Message
        BY <4>1, MessagesTyped
      <4>3. Size(new) - x.size = Size(old)
        BY <1>11, <3>5
      <4> QED BY <4>2, <4>3, ContextAssumption DEF Message
    <3>7. \/ x.size = w.size
          \/ x.size = w.short /\ (w.size > Verbatim \/ Size(old) + w.size > Budget)
          \/ x.size = Smaller(w.short, Cut) /\ Size(old) + w.short > Budget
      BY <1>1, <1>7, <1>11, <3>3, LatestFormFits
    <3> HIDE DEF w
    <3>8. ShortenedForRoom(x, w, new)
      BY <1>11, <3>6, <3>7 DEF ShortenedForRoom
    <3> QED BY <3>1, <3>3, <3>4, <3>8 DEF w
  <2> QED BY <2>1, <2>2
<1>14. KeepsEvidence(new, m)
  BY <1>11, <1>12, <1>13 DEF KeepsEvidence
<1> QED BY <1>5, <1>14 DEF new

(* The oldest message, the goal, is considered last. *)
LEMMA BuiltEnds ==
  ASSUME ContextInv
  PROVE  BuiltIsSendable
<1> DEFINE n == Len(messages)
           old == Kept[n - 1]
<1>1. /\ n \in Nat /\ n > 0 /\ DOMAIN messages = 1..n /\ messages[1].role = "user"
      /\ n - 1 \in 0..n /\ n \in 0..n /\ n # 0 /\ n + 1 - n = 1 /\ 1 \in DOMAIN messages
  BY DEF ContextInv, ContextTypeOK
<1>2. Built = Consider(old, 1)
  BY <1>1, KeptExists DEF Built
<1>3. old \in Seq(Message)
  BY <1>1, KeptKeepsEvidence DEF KeepsEvidence
<1> HIDE DEF old, n
<1>4. \/ \E x \in Message : Built = Append(old, x) /\ x.role = "user"
      \/ Built = old /\ Size(old) + Allowed(1) > Budget
  BY <1>1, <1>2, <1>3, ConsiderTyped
<1>5. ASSUME NEW x \in Message, Built = Append(old, x), x.role = "user"
      PROVE  Built[Len(Built)].role = "user"
  BY <1>3, <1>5
<1> QED BY <1>4, <1>5 DEF BuiltIsSendable

LEMMA EvidenceHolds == ASSUME ContextInv PROVE ContextKeepsEvidence
<1> DEFINE n == Len(messages)
<1>1. n \in 0..n /\ DOMAIN messages = 1..n /\ n \in Nat /\ messages[1].about = "goal"
  BY DEF ContextInv, ContextTypeOK
<1>2. KeepsEvidence(Built, n)
  BY <1>1, KeptKeepsEvidence DEF Built
<1>3. \A l \in DOMAIN messages : l > n - n
  BY <1>1
<1>4. 2 \in DOMAIN Built /\ Built[2] = messages[1]
  BY <1>2 DEF KeepsEvidence
<1> QED BY <1>1, <1>2, <1>3, <1>4 DEF ContextKeepsEvidence, KeepsEvidence

(* Every request the loop makes of the whole history can be sent, and one  *)
(* that is made under a budget ends with a turn of the model only where    *)
(* nothing else had room; a budget, however small, keeps the whole goal    *)
(* and the latest result, shortened only for room: for any messages,       *)
(* lengths and bounds (AgentLoop.run, ContextBuilder.build,                *)
(* GeminiModelProvider).                                                   *)
THEOREM RequestsStaySound == ContextSpec => []RequestsAreSound
<1>1. ContextInv => RequestsAreSound
  BY WholeHolds, BuiltEnds, EvidenceHolds DEF RequestsAreSound
<1> QED BY <1>1, ContextInitHolds, ContextStepKeeps, PTL DEF ContextSpec

-----------------------------------------------------------------------------
(* ToolProtocol.                                                           *)

(* What FlattenSeq gives, text by text. *)
LEMMA FlattenRuns ==
    ASSUME NEW S, NEW t \in Seq(Seq(S))
    PROVE  \E f \in [0..Len(t) -> Seq(S)] :
              /\ f[0] = <<>> /\ FlattenSeq(t) = f[Len(t)]
              /\ \A i \in 1..Len(t) : f[i] = f[i - 1] \o t[i]
<1> DEFINE n == Len(t)
           step == [p \in Seq(S) \X (1..n) |-> p[1] \o t[p[2]]]
           Is(f) == f = [i \in 1..n |-> IF i = 1 THEN t[i] ELSE f[i - 1] \o t[i]]
           the == CHOOSE f : Is(f)
<1>1. n \in Nat /\ \A i \in 1..n : t[i] \in Seq(S)
  OBVIOUS
<1>2. FlattenSeq(t) = IF n = 0 THEN t ELSE the[n]
  BY DEF FlattenSeq
<1>3. n = 0 => t = <<>>
  OBVIOUS
<1> HIDE DEF n
<1>4. <<>> \in Seq(S) /\ step \in [Seq(S) \X (1..n) -> Seq(S)]
  BY <1>1
<1>5. \A s \in Seq(S), i \in 1..n : step[<<s, i>>] = s \o t[i]
  OBVIOUS
<1> HIDE DEF step
<1>6. PICK f \in [0..n -> Seq(S)] : RunsBy(f, n, <<>>, step)
  BY <1>1, <1>4, RunExists
<1>7. f[0] = <<>> /\ \A i \in 1..n : f[i] = f[i - 1] \o t[i]
  <2>1. 0 \in 0..n /\ \A i \in 1..n : i \in 0..n /\ i - 1 \in 0..n /\ i # 0
    BY <1>1
  <2>2. f[0] = <<>> /\ \A i \in 1..n : f[i] = step[<<f[i - 1], i>>]
    BY <1>6, <2>1 DEF RunsBy
  <2>3. \A i \in 1..n : f[i - 1] \in Seq(S)
    BY <1>6, <2>1
  <2> QED
    BY <1>5, <2>2, <2>3
<1>8. CASE n = 0
  BY <1>2, <1>3, <1>6, <1>7, <1>8 DEF n
<1>9. CASE n # 0
  <2> DEFINE g == [i \in 1..n |-> f[i]]
  <2>1. ASSUME NEW i \in 1..n PROVE g[i] = IF i = 1 THEN t[i] ELSE g[i - 1] \o t[i]
    <3>1. g[i] = f[i - 1] \o t[i] /\ t[i] \in Seq(S)
      BY <1>1, <1>7
    <3>2. CASE i = 1
      <4>1. f[i - 1] = <<>>
        BY <1>7, <3>2
      <4> QED
        BY <3>1, <3>2, <4>1
    <3>3. CASE i # 1
      <4>1. i - 1 \in 1..n /\ g[i - 1] = f[i - 1]
        BY <1>1, <3>3
      <4> QED
        BY <3>1, <3>3, <4>1
    <3> QED
      BY <3>2, <3>3
  <2>2. g = [i \in 1..n |-> g[i]]
    OBVIOUS
  <2>3. n \in 1..n /\ g[n] = f[n]
    BY <1>1, <1>9
  <2> HIDE DEF g
  <2>4. Is(g)
    BY <2>1, <2>2
  <2> HIDE DEF Is
  <2>5. Is(the)
    BY <2>4
  <2> HIDE DEF the
  <2>6. \A i \in 1..n : the[i] = IF i = 1 THEN t[i] ELSE the[i - 1] \o t[i]
    BY <2>5 DEF Is
  <2>7. \A i \in 1..n : the[i] = g[i]
    <3> DEFINE same == {i \in 0..n : i = 0 \/ the[i] = g[i]}
    <3>1. 0 \in same
      BY <1>1
    <3>2. \A k \in 0..n : k \in same /\ k < n => k + 1 \in same
      <4> SUFFICES ASSUME NEW k \in 0..n, k \in same, k < n PROVE k + 1 \in same
        OBVIOUS
      <4>0. n \in Nat
        BY <1>1
      <4>1. k + 1 \in 1..n /\ k + 1 \in 0..n /\ (k + 1) - 1 = k
        BY <4>0
      <4>2. the[k + 1] = IF k + 1 = 1 THEN t[k + 1] ELSE the[k] \o t[k + 1]
        BY <2>6, <4>1
      <4>3. g[k + 1] = IF k + 1 = 1 THEN t[k + 1] ELSE g[k] \o t[k + 1]
        BY <2>1, <4>1
      <4>4. the[k + 1] = g[k + 1]
        BY <1>1, <4>2, <4>3
      <4> QED
        BY <4>1, <4>4
    <3> HIDE DEF same
    <3>3. \A k \in 0..n : k \in same
      BY <1>1, <3>1, <3>2, UpTo
    <3>4. \A i \in 1..n : i \in 0..n /\ i # 0
      BY <1>1
    <3> QED
      BY <3>3, <3>4 DEF same
  <2>8. FlattenSeq(t) = f[n]
    BY <1>2, <1>9, <2>3, <2>7
  <2> QED
    BY <1>6, <1>7, <2>8 DEF n
<1> QED
  BY <1>8, <1>9

(* Texts strung together, and one more text behind them. *)
LEMMA FlattenGrows ==
    ASSUME NEW S, NEW t \in Seq(Seq(S)), NEW w \in Seq(S)
    PROVE  /\ FlattenSeq(t) \in Seq(S)
           /\ FlattenSeq(Append(t, w)) = FlattenSeq(t) \o w
<1> DEFINE n == Len(t)
           u == Append(t, w)
<1>1. n \in Nat /\ u \in Seq(Seq(S)) /\ Len(u) = n + 1 /\ u[n + 1] = w
      /\ \A i \in 1..n : u[i] = t[i] /\ i \in 1..(n + 1)
  OBVIOUS
<1> HIDE DEF u
<1>2. PICK f \in [0..n -> Seq(S)] :
          /\ f[0] = <<>> /\ FlattenSeq(t) = f[n]
          /\ \A i \in 1..n : f[i] = f[i - 1] \o t[i]
  BY FlattenRuns
<1> HIDE DEF n
<1>3. PICK g \in [0..(n + 1) -> Seq(S)] :
          /\ g[0] = <<>> /\ FlattenSeq(u) = g[n + 1]
          /\ \A i \in 1..(n + 1) : g[i] = g[i - 1] \o u[i]
  <2>1. PICK g \in [0..Len(u) -> Seq(S)] :
            /\ g[0] = <<>> /\ FlattenSeq(u) = g[Len(u)]
            /\ \A i \in 1..Len(u) : g[i] = g[i - 1] \o u[i]
    BY <1>1, FlattenRuns
  <2> QED
    BY <1>1, <2>1
<1>4. \A i \in 1..n : f[i - 1] = g[i - 1] => f[i] = g[i]
  BY <1>1, <1>2, <1>3
<1> DEFINE same == {i \in 0..n : f[i] = g[i]}
<1>5. \A i \in 0..n : i \in same
  <2>1. 0 \in same
    BY <1>1, <1>2, <1>3
  <2>2. \A k \in 0..n : k \in same /\ k < n => k + 1 \in same
    <3> SUFFICES ASSUME NEW k \in 0..n, k \in same, k < n PROVE k + 1 \in same
      OBVIOUS
    <3>1. k + 1 \in 1..n /\ k + 1 \in 0..n /\ (k + 1) - 1 = k
      BY <1>1
    <3> QED
      BY <1>4, <3>1
  <2> HIDE DEF same
  <2> QED
    BY <1>1, <2>1, <2>2, UpTo
<1>6. n \in 0..n /\ n + 1 \in 1..(n + 1) /\ (n + 1) - 1 = n
  BY <1>1
<1>7. g[n] = f[n] /\ f[n] \in Seq(S)
  BY <1>2, <1>5, <1>6
<1>8. g[n + 1] = g[n] \o w
  <2>1. g[n + 1] = g[(n + 1) - 1] \o u[n + 1]
    BY <1>3, <1>6
  <2> QED
    BY <1>1, <1>6, <2>1
<1> QED
  BY <1>2, <1>3, <1>7, <1>8 DEF u

(* A text that goes on with a character.                                    *)
Longer(s, x) == Append(s, x)

(* A replacement, and one more character behind the text. *)
LEMMA ReplaceGrows ==
    ASSUME NEW S, NEW s \in Seq(S), NEW x \in S, NEW c, NEW by, NEW p \in S, NEW q \in S,
           by = <<p, q>>
    PROVE  /\ Replaced(s, c, by) \in Seq(S) /\ Replaced(<<>>, c, by) = <<>>
           /\ Replaced(Longer(s, x), c, by) =
                  IF x = c THEN Longer(Longer(Replaced(s, c, by), p), q)
                  ELSE Longer(Replaced(s, c, by), x)
<1> DEFINE n == Len(s)
           Of(y) == IF y = c THEN by ELSE <<y>>
           t == [i \in 1..n |-> Of(s[i])]
           u == Append(s, x)
<1>1. \A y \in S : Of(y) \in Seq(S)
  OBVIOUS
<1>2. n \in Nat /\ DOMAIN s = 1..n /\ (\A i \in 1..n : s[i] \in S) /\ DOMAIN u = 1..(n + 1)
      /\ u[n + 1] = x /\ \A i \in 1..n : u[i] = s[i]
  OBVIOUS
<1>3. /\ Replaced(s, c, by) = FlattenSeq(t)
      /\ Replaced(u, c, by) = FlattenSeq([i \in 1..(n + 1) |-> Of(u[i])])
  BY <1>2 DEF Replaced
<1>4. Replaced(<<>>, c, by) = <<>>
  <2>1. [i \in {} |-> Of(<<>>[i])] = <<>> /\ DOMAIN <<>> = {} /\ Len(<<>>) = 0
    OBVIOUS
  <2>2. Replaced(<<>>, c, by) = FlattenSeq(<<>>)
    BY <2>1 DEF Replaced, Of
  <2> QED
    BY <2>1, <2>2 DEF FlattenSeq
<1> HIDE DEF Of, u, n
<1>5. t \in Seq(Seq(S)) /\ Len(t) = n
  <2>1. \A i \in 1..n : t[i] \in Seq(S)
    BY <1>1, <1>2
  <2>2. t \in [1..n -> Seq(S)]
    BY <2>1
  <2> HIDE DEF t
  <2> QED
    BY <1>2, <2>2
<1>6. [i \in 1..(n + 1) |-> Of(u[i])] = Append(t, Of(x))
  <2> DEFINE w == Append(t, Of(x))
  <2>3. \A i \in 1..n : t[i] = Of(u[i])
    BY <1>2
  <2> HIDE DEF t
  <2>0. Of(x) \in Seq(S)
    BY <1>1
  <2> DEFINE last == Of(x)
  <2> HIDE DEF last
  <2>1. w \in Seq(Seq(S)) /\ Len(w) = n + 1 /\ w[n + 1] = Of(x) /\ \A i \in 1..n : w[i] = t[i]
    <3>1. last \in Seq(S) /\ n \in Nat /\ t \in Seq(Seq(S)) /\ Len(t) = n
      BY <1>2, <1>5, <2>0 DEF last
    <3>2. Append(t, last) \in Seq(Seq(S)) /\ Len(Append(t, last)) = n + 1
      BY <3>1
    <3>3. Append(t, last)[n + 1] = last /\ \A i \in 1..n : Append(t, last)[i] = t[i]
      BY <3>1
    <3> QED
      BY <3>2, <3>3 DEF last
  <2> HIDE DEF w
  <2>2. w = [i \in 1..(n + 1) |-> w[i]]
    BY <1>2, <2>1
  <2>4. \A i \in 1..(n + 1) : w[i] = Of(u[i])
    <3> SUFFICES ASSUME NEW i \in 1..(n + 1) PROVE w[i] = Of(u[i])
      OBVIOUS
    <3>1. CASE i = n + 1
      <4>1. u[i] = x
        BY <1>2, <3>1
      <4> QED
        BY <2>1, <3>1, <4>1
    <3>2. CASE i # n + 1
      <4>1. i \in 1..n
        BY <1>2, <3>2
      <4> QED
        BY <2>1, <2>3, <4>1
    <3> QED
      BY <3>1, <3>2
  <2>5. [i \in 1..(n + 1) |-> Of(u[i])] = w
    BY <2>2, <2>4
  <2> QED
    BY <2>5 DEF w
<1>7. FlattenSeq(t) \in Seq(S) /\ FlattenSeq(Append(t, Of(x))) = FlattenSeq(t) \o Of(x)
  BY <1>1, <1>5, FlattenGrows
<1> HIDE DEF t
<1>8. \A v \in Seq(S) : v \o <<x>> = Longer(v, x) /\ v \o by = Longer(Longer(v, p), q)
  BY DEF Longer
<1>9. Replaced(u, c, by) = Replaced(s, c, by) \o Of(x)
  BY <1>3, <1>6, <1>7
<1>10. u = Longer(s, x) /\ Replaced(s, c, by) \in Seq(S)
  BY <1>3, <1>7 DEF u, Longer
<1>11. Replaced(Longer(s, x), c, by) = Replaced(s, c, by) \o Of(x)
  BY <1>9, <1>10
<1> QED
  BY <1>4, <1>8, <1>10, <1>11 DEF Of

(* What a character of an argument is written as, behind what is there.     *)
Marks == {Quote, Escape, "n", "t", "\n", "\t"}
Special == {Quote, Escape, "\n", "\t"}
Code(c) == IF c = "\n" THEN "n" ELSE IF c = "\t" THEN "t" ELSE c
Writes(s, c) == IF c \in Special THEN Longer(Longer(s, Escape), Code(c)) ELSE Longer(s, c)

(* The four replacements, one after the other, write each character by      *)
(* itself: no replacement finds what an earlier one has put in.             *)
LEMMA EscapedGrows ==
    ASSUME NEW S, Marks \subseteq S, NEW s \in Seq(S), NEW x \in S
    PROVE  /\ Escaped(s) \in Seq(S) /\ Escaped(<<>>) = <<>>
           /\ Escaped(Longer(s, x)) = Writes(Escaped(s), x)
<1> DEFINE ee == <<Escape, Escape>>
           eq == <<Escape, Quote>>
           en == <<Escape, "n">>
           et == <<Escape, "t">>
           R1(v) == Replaced(v, Escape, ee)
           R2(v) == Replaced(v, Quote, eq)
           R3(v) == Replaced(v, "\n", en)
           R4(v) == Replaced(v, "\t", et)
<1>1. /\ Escape \in S /\ Quote \in S /\ "n" \in S /\ "t" \in S /\ "\n" \in S /\ "\t" \in S
      /\ Escape # Quote /\ Escape # "\n" /\ Escape # "\t" /\ Escape # "n" /\ Escape # "t"
      /\ Quote # "\n" /\ Quote # "\t" /\ Quote # "n" /\ Quote # "t"
  BY DEF Marks, Escape, Quote
<1>2. "\n" # "\t" /\ "n" # "\n" /\ "n" # "\t" /\ "t" # "\n" /\ "t" # "\t" /\ "n" # Escape
  BY DEF Escape
<1>3. \A v : Escaped(v) = R4(R3(R2(R1(v))))
  BY DEF Escaped
<1>3a. /\ ee = <<Escape, Escape>>
       /\ eq = <<Escape, Quote>>
       /\ en = <<Escape, "n">>
       /\ et = <<Escape, "t">>
  BY <1>1
<1> HIDE DEF ee, eq, en, et
<1>4. ASSUME NEW v \in Seq(S), NEW y \in S
       PROVE  /\ R1(v) \in Seq(S) /\ R1(<<>>) = <<>>
          /\ R1(Longer(v, y)) = IF y = Escape THEN Longer(Longer(R1(v), Escape), Escape)
                                ELSE Longer(R1(v), y)
  BY <1>1, <1>3a, ReplaceGrows
<1>5. ASSUME NEW v \in Seq(S), NEW y \in S
       PROVE  /\ R2(v) \in Seq(S) /\ R2(<<>>) = <<>>
          /\ R2(Longer(v, y)) = IF y = Quote THEN Longer(Longer(R2(v), Escape), Quote)
                                ELSE Longer(R2(v), y)
  BY <1>1, <1>3a, ReplaceGrows
<1>6. ASSUME NEW v \in Seq(S), NEW y \in S
       PROVE  /\ R3(v) \in Seq(S) /\ R3(<<>>) = <<>>
          /\ R3(Longer(v, y)) = IF y = "\n" THEN Longer(Longer(R3(v), Escape), "n")
                                ELSE Longer(R3(v), y)
  BY <1>1, <1>3a, ReplaceGrows
<1>7. ASSUME NEW v \in Seq(S), NEW y \in S
       PROVE  /\ R4(v) \in Seq(S) /\ R4(<<>>) = <<>>
          /\ R4(Longer(v, y)) = IF y = "\t" THEN Longer(Longer(R4(v), Escape), "t")
                                ELSE Longer(R4(v), y)
  BY <1>1, <1>3a, ReplaceGrows
<1> HIDE DEF R1, R2, R3, R4
<1>8. \A v \in Seq(S), y \in S : Longer(v, y) \in Seq(S)
  BY DEF Longer
<1> DEFINE a == R1(s)
           b == R2(a)
           d == R3(b)
<1>9. a \in Seq(S) /\ b \in Seq(S) /\ d \in Seq(S) /\ <<>> \in Seq(S)
  BY <1>4, <1>5, <1>6
<1>10. Escaped(s) \in Seq(S) /\ Escaped(s) = R4(d) /\ Escaped(<<>>) = <<>>
  BY <1>3, <1>4, <1>5, <1>6, <1>7, <1>9
<1>11. Escaped(Longer(s, x)) = R4(R3(R2(R1(Longer(s, x)))))
  BY <1>3
<1>12. R1(Longer(s, x)) = IF x = Escape THEN Longer(Longer(a, Escape), Escape) ELSE Longer(a, x)
  BY <1>4
<1> HIDE DEF a, b, d
<1>13. ASSUME NEW y \in S, y # Quote PROVE R2(Longer(a, y)) = Longer(b, y)
  BY <1>5, <1>9, <1>13 DEF b
<1>14. ASSUME NEW y \in S, y # "\n" PROVE R3(Longer(b, y)) = Longer(d, y)
  BY <1>6, <1>9, <1>14 DEF d
<1>15. ASSUME NEW y \in S, y # "\t" PROVE R4(Longer(d, y)) = Longer(R4(d), y)
  BY <1>7, <1>9, <1>15
<1>16. ASSUME NEW y \in S, y # "\n", NEW z \in S, z # "\n"
       PROVE  R3(Longer(Longer(b, y), z)) = Longer(Longer(d, y), z)
  <2>1. R3(Longer(Longer(b, y), z)) = Longer(R3(Longer(b, y)), z)
    BY <1>6, <1>8, <1>9, <1>16
  <2> QED
    BY <1>14, <1>16, <2>1
<1>17. ASSUME NEW y \in S, y # "\t", NEW z \in S, z # "\t"
       PROVE  R4(Longer(Longer(d, y), z)) = Longer(Longer(R4(d), y), z)
  <2>1. R4(Longer(Longer(d, y), z)) = Longer(R4(Longer(d, y)), z)
    BY <1>7, <1>8, <1>9, <1>17
  <2> QED
    BY <1>15, <1>17, <2>1
<1>18. CASE x = Escape
  <2>1. R2(Longer(Longer(a, Escape), Escape)) = Longer(Longer(b, Escape), Escape)
    <3>1. R2(Longer(Longer(a, Escape), Escape)) = Longer(R2(Longer(a, Escape)), Escape)
      BY <1>1, <1>5, <1>8, <1>9
    <3> QED
      BY <1>1, <1>13, <3>1
  <2>2. R4(R3(R2(R1(Longer(s, x))))) = Longer(Longer(R4(d), Escape), Escape)
    <3>1. R3(R2(R1(Longer(s, x)))) = Longer(Longer(d, Escape), Escape)
      BY <1>1, <1>12, <1>16, <1>18, <2>1
    <3> QED
      BY <1>1, <1>17, <3>1
  <2>3. Escape \in Special /\ Code(Escape) = Escape
    BY <1>1 DEF Special, Code
  <2> QED
    BY <1>10, <1>11, <1>18, <2>2, <2>3 DEF Writes
<1>19. CASE x = Quote
  <2>1. R2(R1(Longer(s, x))) = Longer(Longer(b, Escape), Quote)
    BY <1>1, <1>5, <1>9, <1>12, <1>19 DEF b
  <2>2. R4(R3(R2(R1(Longer(s, x))))) = Longer(Longer(R4(d), Escape), Quote)
    <3>1. R3(R2(R1(Longer(s, x)))) = Longer(Longer(d, Escape), Quote)
      BY <1>1, <1>16, <2>1
    <3> QED
      BY <1>1, <1>17, <3>1
  <2>3. Quote \in Special /\ Code(Quote) = Quote
    BY <1>1 DEF Special, Code
  <2> QED
    BY <1>10, <1>11, <1>19, <2>2, <2>3 DEF Writes
<1>20. CASE x = "\n"
  <2>1. R2(R1(Longer(s, x))) = Longer(b, "\n")
    BY <1>1, <1>12, <1>13, <1>20
  <2>2. R3(Longer(b, "\n")) = Longer(Longer(d, Escape), "n")
    BY <1>1, <1>6, <1>9 DEF d
  <2>3. R4(R3(R2(R1(Longer(s, x))))) = Longer(Longer(R4(d), Escape), "n")
    <3>1. R3(R2(R1(Longer(s, x)))) = Longer(Longer(d, Escape), "n")
      BY <2>1, <2>2
    <3> QED
      BY <1>1, <1>2, <1>17, <3>1
  <2>4. "\n" \in Special /\ Code("\n") = "n"
    BY DEF Special, Code
  <2> QED
    BY <1>10, <1>11, <1>20, <2>3, <2>4 DEF Writes
<1>21. CASE x = "\t"
  <2>1. R3(R2(R1(Longer(s, x)))) = Longer(d, "\t")
    BY <1>1, <1>2, <1>12, <1>13, <1>14, <1>21
  <2>2. R4(Longer(d, "\t")) = Longer(Longer(R4(d), Escape), "t")
    BY <1>1, <1>7, <1>9
  <2>3. "\t" \in Special /\ Code("\t") = "t"
    BY <1>2 DEF Special, Code
  <2> QED
    BY <1>10, <1>11, <1>21, <2>1, <2>2, <2>3 DEF Writes
<1>22. CASE x \notin Special
  <2>1. x # Escape /\ x # Quote /\ x # "\n" /\ x # "\t"
    BY <1>22 DEF Special
  <2>2. R4(R3(R2(R1(Longer(s, x))))) = Longer(R4(d), x)
    BY <1>12, <1>13, <1>14, <1>15, <2>1
  <2> QED
    BY <1>10, <1>11, <1>22, <2>2 DEF Writes
<1> QED
  BY <1>10, <1>18, <1>19, <1>20, <1>21, <1>22 DEF Special


(* What _unescape_value has read of a text, and what is open at its end. *)
Undone(s) ==
    LET after[i \in 0..Len(s)] ==
            IF i = 0 THEN [open |-> FALSE, text |-> <<>>] ELSE UnescapeStep(after[i - 1], s[i])
    IN  after[Len(s)]

Reading(S) == [open : BOOLEAN, text : Seq(S)]

(* A step of _unescape_value keeps to texts. *)
LEMMA UnescapeStays ==
    ASSUME NEW S, Marks \subseteq S, NEW st \in Reading(S), NEW x \in S
    PROVE  UnescapeStep(st, x) \in Reading(S)
<1>1. Escape \in S /\ \A c \in DOMAIN Unescapes : Unescapes[c] \in S
  BY DEF Unescapes, Marks, Escape, Quote
<1>2. st.text \in Seq(S) /\ st.open \in BOOLEAN
  BY DEF Reading
<1>3. \A t \in Seq(S), c \in S, d \in S : t \o <<c>> \in Seq(S) /\ t \o <<c, d>> \in Seq(S) /\ Append(t, c) \in Seq(S)
  OBVIOUS
<1>4. CASE st.open
  <2>1. CASE x \in DOMAIN Unescapes
    <3>1. UnescapeStep(st, x) = [open |-> FALSE, text |-> st.text \o <<Unescapes[x]>>]
      BY <1>4, <2>1 DEF UnescapeStep
    <3>2. st.text \o <<Unescapes[x]>> \in Seq(S)
      BY <1>1, <1>2, <1>3, <2>1
    <3> QED
      BY <3>1, <3>2 DEF Reading
  <2>2. CASE x \notin DOMAIN Unescapes
    <3>1. UnescapeStep(st, x) = [open |-> FALSE, text |-> st.text \o <<Escape, x>>]
      BY <1>4, <2>2 DEF UnescapeStep
    <3>2. st.text \o <<Escape, x>> \in Seq(S)
      BY <1>1, <1>2, <1>3
    <3> QED
      BY <3>1, <3>2 DEF Reading
  <2> QED
    BY <2>1, <2>2
<1>5. CASE ~st.open
  <2>1. UnescapeStep(st, x) = IF x = Escape THEN [st EXCEPT !.open = TRUE]
                              ELSE [st EXCEPT !.text = Append(@, x)]
    BY <1>5 DEF UnescapeStep
  <2>2. Append(st.text, x) \in Seq(S)
    BY <1>2, <1>3
  <2> QED
    BY <2>1, <2>2 DEF Reading
<1> QED
  BY <1>4, <1>5

(* _unescape_value goes through a text character by character. *)
LEMMA UndoneRuns ==
    ASSUME NEW S, Marks \subseteq S, NEW s \in Seq(S)
    PROVE  \E f \in [0..Len(s) -> Reading(S)] :
              /\ f[0] = [open |-> FALSE, text |-> <<>>] /\ Undone(s) = f[Len(s)]
              /\ \A i \in 1..Len(s) : f[i] = UnescapeStep(f[i - 1], s[i])
<1> DEFINE n == Len(s)
           V == Reading(S)
           b == [open |-> FALSE, text |-> <<>>]
           step == [p \in V \X (1..n) |-> UnescapeStep(p[1], s[p[2]])]
           Is(f) == f = [i \in 0..n |-> IF i = 0 THEN b ELSE UnescapeStep(f[i - 1], s[i])]
           the == CHOOSE f : Is(f)
<1>1. n \in Nat /\ \A i \in 1..n : s[i] \in S
  OBVIOUS
<1>2. Undone(s) = the[n]
  BY DEF Undone
<1> HIDE DEF n
<1>3. b \in V
  BY DEF Reading
<1>4. \A st \in V, i \in 1..n : UnescapeStep(st, s[i]) \in V
  BY <1>1, UnescapeStays
<1> HIDE DEF V, b
<1>5. step \in [V \X (1..n) -> V] /\ \A st \in V, i \in 1..n : step[<<st, i>>] = UnescapeStep(st, s[i])
  BY <1>4
<1> HIDE DEF step
<1>6. PICK f \in [0..n -> V] : RunsBy(f, n, b, step)
  BY <1>1, <1>3, <1>5, RunExists
<1>7. f[0] = b /\ \A i \in 1..n : f[i] = UnescapeStep(f[i - 1], s[i])
  <2>1. 0 \in 0..n /\ \A i \in 1..n : i \in 0..n /\ i - 1 \in 0..n /\ i # 0
    BY <1>1
  <2>2. f[0] = b /\ \A i \in 1..n : f[i] = step[<<f[i - 1], i>>]
    BY <1>6, <2>1 DEF RunsBy
  <2> QED
    BY <1>5, <1>6, <2>1, <2>2
<1>8. Is(f)
  <2>1. ASSUME NEW i \in 0..n PROVE f[i] = IF i = 0 THEN b ELSE UnescapeStep(f[i - 1], s[i])
    <3>1. i = 0 \/ i \in 1..n
      BY <1>1
    <3> QED
      BY <1>7, <3>1
  <2>2. f = [i \in 0..n |-> f[i]]
    BY <1>6
  <2> QED
    BY <2>1, <2>2
<1>9. Is(the)
  <2> HIDE DEF Is
  <2> QED
    BY <1>8
<1> HIDE DEF the
<1>10. the[0] = b /\ \A i \in 1..n : the[i] = UnescapeStep(the[i - 1], s[i])
  <2>1. 0 \in 0..n /\ \A i \in 1..n : i \in 0..n /\ i # 0
    BY <1>1
  <2> QED
    BY <1>9, <2>1
<1> HIDE DEF Is
<1>11. the[n] = f[n]
  <2> DEFINE same == {i \in 0..n : the[i] = f[i]}
  <2>1. 0 \in same
    BY <1>1, <1>7, <1>10
  <2>2. \A k \in 0..n : k \in same /\ k < n => k + 1 \in same
    <3> SUFFICES ASSUME NEW k \in 0..n, k \in same, k < n PROVE k + 1 \in same
      OBVIOUS
    <3>1. k + 1 \in 1..n /\ k + 1 \in 0..n /\ (k + 1) - 1 = k /\ the[k] = f[k]
      BY <1>1
    <3>2. the[k + 1] = UnescapeStep(the[k], s[k + 1]) /\ f[k + 1] = UnescapeStep(f[k], s[k + 1])
      BY <1>7, <1>10, <3>1
    <3> QED
      BY <3>1, <3>2
  <2> HIDE DEF same
  <2>3. \A k \in 0..n : k \in same
    BY <1>1, <2>1, <2>2, UpTo
  <2>4. n \in 0..n
    BY <1>1
  <2> QED
    BY <2>3, <2>4 DEF same
<1> QED
  BY <1>2, <1>6, <1>7, <1>11 DEF n, V, b

(* _unescape_value, and one more character behind the text. *)
LEMMA UndoneGrows ==
    ASSUME NEW S, Marks \subseteq S, NEW s \in Seq(S), NEW x \in S
    PROVE  /\ Undone(s) \in Reading(S) /\ Undone(<<>>) = [open |-> FALSE, text |-> <<>>]
           /\ Undone(Longer(s, x)) = UnescapeStep(Undone(s), x)
<1> DEFINE n == Len(s)
           u == Append(s, x)
<1>1. n \in Nat /\ u \in Seq(S) /\ Len(u) = n + 1 /\ u[n + 1] = x
      /\ \A i \in 1..n : u[i] = s[i] /\ i \in 1..(n + 1)
  OBVIOUS
<1>2. Undone(<<>>) = [open |-> FALSE, text |-> <<>>]
  <2>1. <<>> \in Seq(S) /\ Len(<<>>) = 0
    OBVIOUS
  <2> QED
    BY <2>1, UndoneRuns
<1> HIDE DEF u
<1>3. PICK f \in [0..n -> Reading(S)] :
          /\ f[0] = [open |-> FALSE, text |-> <<>>] /\ Undone(s) = f[n]
          /\ \A i \in 1..n : f[i] = UnescapeStep(f[i - 1], s[i])
  BY UndoneRuns
<1> HIDE DEF n
<1>4. PICK g \in [0..(n + 1) -> Reading(S)] :
          /\ g[0] = [open |-> FALSE, text |-> <<>>] /\ Undone(u) = g[n + 1]
          /\ \A i \in 1..(n + 1) : g[i] = UnescapeStep(g[i - 1], u[i])
  <2>1. PICK g \in [0..Len(u) -> Reading(S)] :
            /\ g[0] = [open |-> FALSE, text |-> <<>>] /\ Undone(u) = g[Len(u)]
            /\ \A i \in 1..Len(u) : g[i] = UnescapeStep(g[i - 1], u[i])
    BY <1>1, UndoneRuns
  <2> QED
    BY <1>1, <2>1
<1> DEFINE same == {i \in 0..n : f[i] = g[i]}
<1>5. 0 \in same
  <2>1. 0 \in 0..n /\ f[0] = g[0]
    BY <1>1, <1>3, <1>4
  <2> QED
    BY <2>1
<1>6. \A k \in 0..n : k \in same /\ k < n => k + 1 \in same
  <2> SUFFICES ASSUME NEW k \in 0..n, k \in same, k < n PROVE k + 1 \in same
    OBVIOUS
  <2>1. k + 1 \in 1..n /\ k + 1 \in 0..n /\ (k + 1) - 1 = k /\ f[k] = g[k]
    BY <1>1
  <2>2. f[k + 1] = UnescapeStep(f[k], s[k + 1]) /\ g[k + 1] = UnescapeStep(g[k], s[k + 1])
    BY <1>1, <1>3, <1>4, <2>1
  <2> QED
    BY <2>1, <2>2
<1> HIDE DEF same
<1>7. \A k \in 0..n : k \in same
  BY <1>1, <1>5, <1>6, UpTo
<1>8. f[n] = g[n] /\ n \in 0..n
  <2>1. n \in 0..n
    BY <1>1
  <2> QED
    BY <1>7, <2>1 DEF same
<1>9. g[n + 1] = UnescapeStep(g[n], x)
  BY <1>1, <1>4
<1>10. u = Longer(s, x)
  BY DEF u, Longer
<1> QED
  BY <1>2, <1>3, <1>4, <1>8, <1>9, <1>10

(* Induction along a text. *)
LEMMA Along ==
    ASSUME NEW S, NEW P, <<>> \in P, \A v \in Seq(S), x \in S : v \in P => Longer(v, x) \in P
    PROVE  \A s \in Seq(S) : s \in P
<1> SUFFICES ASSUME NEW s \in Seq(S) PROVE s \in P
  OBVIOUS
<1> DEFINE n == Len(s)
           pre(k) == [i \in 1..k |-> s[i]]
           good == {k \in 0..n : pre(k) \in P}
<1>1. n \in Nat /\ (\A i \in 1..n : s[i] \in S) /\ s = [i \in 1..n |-> s[i]]
  OBVIOUS
<1> HIDE DEF n
<1>2. ASSUME NEW k \in 0..n PROVE pre(k) \in Seq(S) /\ Len(pre(k)) = k
  <2>1. k \in Nat /\ \A i \in 1..k : i \in 1..n
    BY <1>1
  <2>2. \A i \in 1..k : s[i] \in S
    BY <1>1, <2>1
  <2> QED
    BY <2>1, <2>2
<1>3. ASSUME NEW k \in 0..n, k < n PROVE pre(k + 1) = Longer(pre(k), s[k + 1])
  <2>1. k \in Nat /\ k + 1 \in 1..n /\ s[k + 1] \in S
    BY <1>1, <1>3
  <2> DEFINE p == pre(k)
             w == Append(p, s[k + 1])
  <2>2. p \in Seq(S) /\ Len(p) = k /\ \A i \in 1..k : p[i] = s[i]
    BY <1>2
  <2> HIDE DEF p
  <2>3. w \in Seq(S) /\ Len(w) = k + 1 /\ w[k + 1] = s[k + 1] /\ \A i \in 1..k : w[i] = p[i]
    BY <2>1, <2>2
  <2>4. DOMAIN w = 1..(k + 1) /\ w = [i \in 1..(k + 1) |-> w[i]]
    BY <2>1, <2>3
  <2> HIDE DEF w
  <2>5. \A i \in 1..(k + 1) : w[i] = s[i]
    <3> SUFFICES ASSUME NEW i \in 1..(k + 1) PROVE w[i] = s[i]
      OBVIOUS
    <3>1. i = k + 1 \/ i \in 1..k
      BY <2>1
    <3> QED
      BY <2>2, <2>3, <3>1
  <2>6. pre(k + 1) = w
    BY <2>4, <2>5
  <2> QED
    BY <2>6 DEF w, p, Longer
<1>4. 0 \in good
  <2>1. pre(0) = <<>> /\ 0 \in 0..n
    BY <1>1
  <2> QED
    BY <2>1
<1>5. \A k \in 0..n : k \in good /\ k < n => k + 1 \in good
  <2> SUFFICES ASSUME NEW k \in 0..n, k \in good, k < n PROVE k + 1 \in good
    OBVIOUS
  <2>3. pre(k) \in P
    OBVIOUS
  <2>4. pre(k) \in Seq(S)
    BY <1>2
  <2>5. k + 1 \in 1..n /\ k + 1 \in 0..n
    BY <1>1
  <2> HIDE DEF pre
  <2>1. pre(k) \in P /\ pre(k) \in Seq(S) /\ s[k + 1] \in S /\ k + 1 \in 0..n
    BY <1>1, <2>3, <2>4, <2>5
  <2>2. pre(k + 1) \in P
    BY <1>3, <2>1
  <2> QED
    BY <2>1, <2>2
<1> HIDE DEF good
<1>6. \A k \in 0..n : k \in good
  BY <1>1, <1>4, <1>5, UpTo
<1>7. n \in 0..n
  BY <1>1
<1>8. pre(n) \in P
  BY <1>6, <1>7 DEF good
<1> QED
  BY <1>1, <1>8

(* What is written is read back, whatever its characters.                   *)
LEMMA EscapesUndone ==
    ASSUME NEW S, Marks \subseteq S
    PROVE  \A s \in Seq(S) : Escaped(s) \in Seq(S) /\ Undone(Escaped(s)) = [open |-> FALSE, text |-> s]
<1> DEFINE Good(s) == Escaped(s) \in Seq(S) /\ Undone(Escaped(s)) = [open |-> FALSE, text |-> s]
           P == {s \in Seq(S) : Good(s)}
<1>1. <<>> \in P
  <2>1. <<>> \in Seq(S) /\ Escape \in S
    BY DEF Marks
  <2>2. Escaped(<<>>) = <<>>
    BY <2>1, EscapedGrows
  <2>3. Undone(<<>>) = [open |-> FALSE, text |-> <<>>]
    BY <2>1, UndoneGrows
  <2> QED
    BY <2>1, <2>2, <2>3
<1>2. ASSUME NEW v \in Seq(S), NEW x \in S, v \in P PROVE Longer(v, x) \in P
  <2> DEFINE e == Escaped(v)
  <2>1. e \in Seq(S) /\ Undone(e) = [open |-> FALSE, text |-> v]
    BY <1>2
  <2>2. Escaped(Longer(v, x)) = Writes(e, x)
    BY EscapedGrows
  <2> HIDE DEF e
  <2>3. Longer(v, x) \in Seq(S) /\ v \o <<x>> = Longer(v, x)
    BY DEF Longer
  <2>4. Escape \in S /\ Code(x) \in S /\ "n" # "t"
    BY DEF Marks, Code
  <2>5. \A w \in Seq(S), c \in S : Longer(w, c) \in Seq(S)
    BY DEF Longer
  <2>6. CASE x \in Special
    <3> DEFINE w == Longer(e, Escape)
    <3>1. w \in Seq(S) /\ Undone(w) = UnescapeStep([open |-> FALSE, text |-> v], Escape)
      BY <2>1, <2>4, <2>5, UndoneGrows
    <3>2. Undone(w) = [open |-> TRUE, text |-> v]
      BY <3>1 DEF UnescapeStep
    <3>3. Longer(w, Code(x)) \in Seq(S) /\ Undone(Longer(w, Code(x))) = UnescapeStep(Undone(w), Code(x))
      BY <2>4, <2>5, <3>1, UndoneGrows
    <3>4. Code(x) \in DOMAIN Unescapes /\ Unescapes[Code(x)] = x
      BY <2>4, <2>6 DEF Code, Special, Unescapes, Escape, Quote
    <3>5. UnescapeStep([open |-> TRUE, text |-> v], Code(x)) = [open |-> FALSE, text |-> v \o <<x>>]
      BY <3>4 DEF UnescapeStep
    <3>6. Writes(e, x) = Longer(w, Code(x))
      BY <2>6 DEF Writes
    <3> QED
      BY <2>2, <2>3, <3>2, <3>3, <3>5, <3>6
  <2>7. CASE x \notin Special
    <3>1. x # Escape
      BY <2>7 DEF Special
    <3>2. Longer(e, x) \in Seq(S) /\ Undone(Longer(e, x)) = UnescapeStep([open |-> FALSE, text |-> v], x)
      BY <2>1, <2>5, UndoneGrows
    <3>3. UnescapeStep([open |-> FALSE, text |-> v], x) = [open |-> FALSE, text |-> Append(v, x)]
      BY <3>1 DEF UnescapeStep
    <3>4. Writes(e, x) = Longer(e, x)
      BY <2>7 DEF Writes
    <3> QED
      BY <2>2, <2>3, <3>2, <3>3, <3>4 DEF Longer
  <2> QED
    BY <2>6, <2>7
<1> HIDE DEF P
<1>3. \A s \in Seq(S) : s \in P
  BY <1>1, <1>2, Along
<1> QED
  BY <1>3 DEF P

(* The states of _scan_tool_call: At a place, or there behind a backslash   *)
(* inside quotes.                                                           *)
Reached(d, q, e, a) == [depth |-> d, quote |-> q, escaped |-> e, at |-> a]
No  == FALSE
Yes == TRUE
At(d, q, a) == Reached(d, q, No, a)
Behind(d, q, a) == Reached(d, q, Yes, a)
Scanning == {At(d, q, a) : d \in Nat, q \in {NoQuote, Quote, Single}, a \in Nat}
            \cup {Behind(d, q, a) : d \in Nat \ {0}, q \in {Quote, Single}, a \in Nat}

(* The fields of a state of the scan, and what replaces one. *)
LEMMA ReachedFields ==
    ASSUME NEW d, NEW q, NEW e, NEW a, NEW y
    PROVE  /\ Reached(d, q, e, a).depth = d /\ Reached(d, q, e, a).quote = q
           /\ Reached(d, q, e, a).escaped = e /\ Reached(d, q, e, a).at = a
           /\ [Reached(d, q, e, a) EXCEPT !.depth = y] = Reached(y, q, e, a)
           /\ [Reached(d, q, e, a) EXCEPT !.quote = y] = Reached(d, y, e, a)
           /\ [Reached(d, q, e, a) EXCEPT !.escaped = y] = Reached(d, q, y, a)
           /\ [Reached(d, q, e, a) EXCEPT !.at = y] = Reached(d, q, e, y)
BY DEF Reached

(* The moves of _scan_tool_call, by state and character. *)
LEMMA ScanMoves ==
    ASSUME NEW d \in Nat, NEW q, NEW a \in Nat, NEW x
    PROVE  /\ d = 0 => ScanStep(At(d, q, a), x) = At(d, q, a)
           /\ d # 0 /\ q # NoQuote =>
                 /\ ScanStep(Behind(d, q, a), x) = At(d, q, a + 1)
                 /\ x = Escape => ScanStep(At(d, q, a), x) = Behind(d, q, a + 1)
                 /\ x # Escape /\ x = q => ScanStep(At(d, q, a), x) = At(d, NoQuote, a + 1)
                 /\ x # Escape /\ x # q => ScanStep(At(d, q, a), x) = At(d, q, a + 1)
           /\ d # 0 /\ q = NoQuote =>
                 /\ x \in {Quote, Single} => ScanStep(At(d, q, a), x) = At(d, x, a + 1)
                 /\ x \in {"(", Opening} => ScanStep(At(d, q, a), x) = At(d + 1, q, a + 1)
                 /\ x = ")" => ScanStep(At(d, q, a), x) = At(d - 1, q, a + 1)
                 /\ x \notin {Quote, Single, "(", Opening, ")"} =>
                        ScanStep(At(d, q, a), x) = At(d, q, a + 1)
<1>1. /\ At(d, q, a).depth = d /\ At(d, q, a).quote = q /\ ~At(d, q, a).escaped
      /\ Behind(d, q, a).depth = d /\ Behind(d, q, a).quote = q /\ Behind(d, q, a).escaped
  BY DEF At, Behind, Reached, No, Yes
<1>2. /\ [At(d, q, a) EXCEPT !.at = @ + 1] = At(d, q, a + 1)
      /\ [Behind(d, q, a) EXCEPT !.at = @ + 1] = Behind(d, q, a + 1)
  BY ReachedFields DEF At, Behind
<1>3. /\ [Behind(d, q, a + 1) EXCEPT !.escaped = FALSE] = At(d, q, a + 1)
      /\ [At(d, q, a + 1) EXCEPT !.escaped = TRUE] = Behind(d, q, a + 1)
  <2>1. /\ [Behind(d, q, a + 1) EXCEPT !.escaped = No] = At(d, q, a + 1)
        /\ [At(d, q, a + 1) EXCEPT !.escaped = Yes] = Behind(d, q, a + 1)
    BY ReachedFields DEF At, Behind
  <2> QED
    BY <2>1 DEF No, Yes
<1>4. \A y : [At(d, q, a + 1) EXCEPT !.quote = y] = At(d, y, a + 1)
  BY ReachedFields DEF At
<1>5. /\ [At(d, q, a + 1) EXCEPT !.depth = @ + 1] = At(d + 1, q, a + 1)
      /\ [At(d, q, a + 1) EXCEPT !.depth = @ - 1] = At(d - 1, q, a + 1)
  BY DEF At, Reached
<1>6. /\ Quote # "(" /\ Quote # Opening /\ Quote # ")" /\ Single # "(" /\ Single # Opening
      /\ Single # ")" /\ ")" # "(" /\ ")" # Opening
  BY DEF Quote, Single, Opening
<1>7. CASE d = 0
  BY <1>1, <1>7 DEF ScanStep
<1>8. CASE d # 0 /\ q # NoQuote
  <2>1. ScanStep(Behind(d, q, a), x) = At(d, q, a + 1)
    BY <1>1, <1>2, <1>3, <1>8 DEF ScanStep
  <2>2. x = Escape => ScanStep(At(d, q, a), x) = Behind(d, q, a + 1)
    BY <1>1, <1>2, <1>3, <1>8 DEF ScanStep
  <2>3. x # Escape /\ x = q => ScanStep(At(d, q, a), x) = At(d, NoQuote, a + 1)
    BY <1>1, <1>2, <1>4, <1>8 DEF ScanStep
  <2>4. x # Escape /\ x # q => ScanStep(At(d, q, a), x) = At(d, q, a + 1)
    BY <1>1, <1>2, <1>8 DEF ScanStep
  <2> QED
    BY <1>8, <2>1, <2>2, <2>3, <2>4
<1>9. CASE d # 0 /\ q = NoQuote
  <2>1. x \in {Quote, Single} => ScanStep(At(d, q, a), x) = At(d, x, a + 1)
    BY <1>1, <1>2, <1>4, <1>9 DEF ScanStep
  <2>2. x \in {"(", Opening} => ScanStep(At(d, q, a), x) = At(d + 1, q, a + 1)
    BY <1>1, <1>2, <1>5, <1>6, <1>9 DEF ScanStep
  <2>3. x = ")" => ScanStep(At(d, q, a), x) = At(d - 1, q, a + 1)
    BY <1>1, <1>2, <1>5, <1>6, <1>9 DEF ScanStep
  <2>4. x \notin {Quote, Single, "(", Opening, ")"} => ScanStep(At(d, q, a), x) = At(d, q, a + 1)
    BY <1>1, <1>2, <1>9 DEF ScanStep
  <2> QED
    BY <1>9, <2>1, <2>2, <2>3, <2>4
<1> QED
  BY <1>7, <1>8, <1>9

(* The same moves, one by one, outside quotes. *)
LEMMA ScanQuotes ==
    \A d \in Nat, a \in Nat : \A x : d # 0 /\ x \in {Quote, Single} =>
        ScanStep(At(d, NoQuote, a), x) = At(d, x, a + 1)
BY ScanMoves
LEMMA ScanOpens ==
    \A d \in Nat, a \in Nat : \A x : d # 0 /\ x \in {"(", Opening} =>
        ScanStep(At(d, NoQuote, a), x) = At(d + 1, NoQuote, a + 1)
BY ScanMoves
LEMMA ScanCloses ==
    \A d \in Nat, a \in Nat : \A x : d # 0 /\ x = ")" =>
        ScanStep(At(d, NoQuote, a), x) = At(d - 1, NoQuote, a + 1)
BY ScanMoves
LEMMA ScanPasses ==
    \A d \in Nat, a \in Nat : \A x : d # 0 /\ x \notin {Quote, Single, "(", Opening, ")"} =>
        ScanStep(At(d, NoQuote, a), x) = At(d, NoQuote, a + 1)
BY ScanMoves

(* A move keeps to the states of the scan. *)
LEMMA ScanStays ==
    ASSUME NEW st \in Scanning, NEW x
    PROVE  ScanStep(st, x) \in Scanning
<1>0. NoQuote # Quote /\ NoQuote # Single
  BY DEF NoQuote, Quote, Single
<1>1. /\ \A d \in Nat, q \in {NoQuote, Quote, Single}, a \in Nat : At(d, q, a) \in Scanning
      /\ \A d \in Nat \ {0}, q \in {Quote, Single}, a \in Nat : Behind(d, q, a) \in Scanning
  BY DEF Scanning
<1>2. CASE \E d \in Nat, q \in {NoQuote, Quote, Single}, a \in Nat : st = At(d, q, a)
  <2>1. PICK d \in Nat, q \in {NoQuote, Quote, Single}, a \in Nat : st = At(d, q, a)
    BY <1>2
  <2>2. a + 1 \in Nat /\ d + 1 \in Nat /\ (d # 0 => d - 1 \in Nat)
    OBVIOUS
  <2>3. CASE d = 0
    BY <1>1, <2>1, <2>3, ScanMoves
  <2>4. CASE d # 0 /\ q # NoQuote
    <3>1. ScanStep(st, x) \in {Behind(d, q, a + 1), At(d, NoQuote, a + 1), At(d, q, a + 1)}
      BY ONLY <2>1, <2>4, ScanMoves
    <3> QED
      BY <1>1, <2>1, <2>2, <2>4, <3>1
  <2>5. CASE d # 0 /\ q = NoQuote
    <3>1. CASE x \in {Quote, Single}
      <4>1. ScanStep(At(d, q, a), x) = At(d, x, a + 1)
        BY ONLY <2>5, <3>1, ScanQuotes
      <4> QED
        BY <1>1, <2>1, <2>2, <3>1, <4>1
    <3>2. CASE x \in {"(", Opening}
      <4>1. ScanStep(At(d, q, a), x) = At(d + 1, q, a + 1)
        BY ONLY <2>5, <3>2, ScanOpens
      <4> QED
        BY <1>1, <2>1, <2>2, <4>1
    <3>3. CASE x = ")"
      <4>1. ScanStep(At(d, q, a), x) = At(d - 1, q, a + 1)
        BY ONLY <2>5, <3>3, ScanCloses
      <4> QED
        BY <1>1, <2>1, <2>2, <2>5, <4>1
    <3>4. CASE x \notin {Quote, Single, "(", Opening, ")"}
      <4>1. ScanStep(At(d, q, a), x) = At(d, q, a + 1)
        BY ONLY <2>5, <3>4, ScanPasses
      <4> QED
        BY <1>1, <2>1, <2>2, <4>1
    <3> QED
      BY <3>1, <3>2, <3>3, <3>4
  <2> QED
    BY <2>3, <2>4, <2>5
<1>3. CASE \E d \in Nat \ {0}, q \in {Quote, Single}, a \in Nat : st = Behind(d, q, a)
  <2>1. PICK d \in Nat \ {0}, q \in {Quote, Single}, a \in Nat : st = Behind(d, q, a)
    BY <1>3
  <2>2. a + 1 \in Nat
    OBVIOUS
  <2>3. ScanStep(st, x) = At(d, q, a + 1)
    BY <1>0, <2>1, ScanMoves
  <2> QED
    BY <1>1, <2>1, <2>2, <2>3
<1> QED
  BY <1>2, <1>3 DEF Scanning

(* The scan goes through a text character by character. *)
LEMMA ScanRuns ==
    ASSUME NEW S, NEW b \in Scanning, NEW s \in Seq(S)
    PROVE  \E f \in [0..Len(s) -> Scanning] :
              /\ f[0] = b /\ Scan(b, s) = f[Len(s)]
              /\ \A i \in 1..Len(s) : f[i] = ScanStep(f[i - 1], s[i])
<1> DEFINE n == Len(s)
           V == Scanning
           step == [p \in V \X (1..n) |-> ScanStep(p[1], s[p[2]])]
           Is(f) == f = [i \in 0..n |-> IF i = 0 THEN b ELSE ScanStep(f[i - 1], s[i])]
           the == CHOOSE f : Is(f)
<1>1. n \in Nat /\ \A i \in 1..n : s[i] \in S
  OBVIOUS
<1>2. Scan(b, s) = the[n]
  BY DEF Scan
<1> HIDE DEF n
<1>3. b \in V
  OBVIOUS
<1>4. \A st \in V, i \in 1..n : ScanStep(st, s[i]) \in V
  BY <1>1, ScanStays
<1> HIDE DEF V
<1>5. step \in [V \X (1..n) -> V] /\ \A st \in V, i \in 1..n : step[<<st, i>>] = ScanStep(st, s[i])
  BY <1>4
<1> HIDE DEF step
<1>6. PICK f \in [0..n -> V] : RunsBy(f, n, b, step)
  BY <1>1, <1>3, <1>5, RunExists
<1>7. f[0] = b /\ \A i \in 1..n : f[i] = ScanStep(f[i - 1], s[i])
  <2>1. 0 \in 0..n /\ \A i \in 1..n : i \in 0..n /\ i - 1 \in 0..n /\ i # 0
    BY <1>1
  <2>2. f[0] = b /\ \A i \in 1..n : f[i] = step[<<f[i - 1], i>>]
    BY <1>6, <2>1 DEF RunsBy
  <2> QED
    BY <1>5, <1>6, <2>1, <2>2
<1>8. Is(f)
  <2>1. ASSUME NEW i \in 0..n PROVE f[i] = IF i = 0 THEN b ELSE ScanStep(f[i - 1], s[i])
    <3>1. i = 0 \/ i \in 1..n
      BY <1>1
    <3> QED
      BY <1>7, <3>1
  <2>2. f = [i \in 0..n |-> f[i]]
    BY <1>6
  <2> QED
    BY <2>1, <2>2
<1>9. Is(the)
  <2> HIDE DEF Is
  <2> QED
    BY <1>8
<1> HIDE DEF the
<1>10. the[0] = b /\ \A i \in 1..n : the[i] = ScanStep(the[i - 1], s[i])
  <2>1. 0 \in 0..n /\ \A i \in 1..n : i \in 0..n /\ i # 0
    BY <1>1
  <2> QED
    BY <1>9, <2>1
<1> HIDE DEF Is
<1>11. the[n] = f[n]
  <2> DEFINE same == {i \in 0..n : the[i] = f[i]}
  <2>1. 0 \in same
    BY <1>1, <1>7, <1>10
  <2>2. \A k \in 0..n : k \in same /\ k < n => k + 1 \in same
    <3> SUFFICES ASSUME NEW k \in 0..n, k \in same, k < n PROVE k + 1 \in same
      OBVIOUS
    <3>1. k + 1 \in 1..n /\ k + 1 \in 0..n /\ (k + 1) - 1 = k /\ the[k] = f[k]
      BY <1>1
    <3>2. the[k + 1] = ScanStep(the[k], s[k + 1]) /\ f[k + 1] = ScanStep(f[k], s[k + 1])
      BY <1>7, <1>10, <3>1
    <3> QED
      BY <3>1, <3>2
  <2> HIDE DEF same
  <2>3. \A k \in 0..n : k \in same
    BY <1>1, <2>1, <2>2, UpTo
  <2>4. n \in 0..n
    BY <1>1
  <2> QED
    BY <2>3, <2>4 DEF same
<1> QED
  BY <1>2, <1>6, <1>7, <1>11 DEF n, V

(* The scan, and one more character behind the text. *)
LEMMA ScanGrows ==
    ASSUME NEW S, NEW b \in Scanning, NEW s \in Seq(S), NEW x \in S
    PROVE  /\ Scan(b, s) \in Scanning /\ Scan(b, <<>>) = b
           /\ Scan(b, Longer(s, x)) = ScanStep(Scan(b, s), x)
<1> DEFINE n == Len(s)
           u == Append(s, x)
<1>1. n \in Nat /\ u \in Seq(S) /\ Len(u) = n + 1 /\ u[n + 1] = x
      /\ \A i \in 1..n : u[i] = s[i] /\ i \in 1..(n + 1)
  OBVIOUS
<1>2. Scan(b, <<>>) = b
  <2> DEFINE none == <<>>
  <2>1. none \in Seq(S) /\ Len(none) = 0
    OBVIOUS
  <2>2. Scan(b, <<>>) = Scan(b, none)
    OBVIOUS
  <2> HIDE DEF none
  <2>3. PICK f \in [0..Len(none) -> Scanning] : f[0] = b /\ Scan(b, none) = f[Len(none)]
    BY ONLY <2>1, ScanRuns
  <2> QED
    BY ONLY <2>1, <2>2, <2>3
<1> HIDE DEF u
<1>3. PICK f \in [0..n -> Scanning] :
          /\ f[0] = b /\ Scan(b, s) = f[n]
          /\ \A i \in 1..n : f[i] = ScanStep(f[i - 1], s[i])
  BY ScanRuns
<1> HIDE DEF n
<1>4. PICK g \in [0..(n + 1) -> Scanning] :
          /\ g[0] = b /\ Scan(b, u) = g[n + 1]
          /\ \A i \in 1..(n + 1) : g[i] = ScanStep(g[i - 1], u[i])
  <2>0. u \in Seq(S) /\ b \in Scanning
    BY <1>1
  <2>1. PICK g \in [0..Len(u) -> Scanning] :
            /\ g[0] = b /\ Scan(b, u) = g[Len(u)]
            /\ \A i \in 1..Len(u) : g[i] = ScanStep(g[i - 1], u[i])
    BY <2>0, ScanRuns, SMTT(30)
  <2> QED
    BY <1>1, <2>1
<1> DEFINE same == {i \in 0..n : f[i] = g[i]}
<1>5. 0 \in same
  <2>1. 0 \in 0..n /\ f[0] = g[0]
    BY <1>1, <1>3, <1>4
  <2> QED
    BY <2>1
<1>6. \A k \in 0..n : k \in same /\ k < n => k + 1 \in same
  <2> SUFFICES ASSUME NEW k \in 0..n, k \in same, k < n PROVE k + 1 \in same
    OBVIOUS
  <2>1. k + 1 \in 1..n /\ k + 1 \in 0..n /\ (k + 1) - 1 = k /\ f[k] = g[k]
    BY <1>1
  <2>2. f[k + 1] = ScanStep(f[k], s[k + 1]) /\ g[k + 1] = ScanStep(g[k], s[k + 1])
    BY <1>1, <1>3, <1>4, <2>1
  <2> QED
    BY <2>1, <2>2
<1> HIDE DEF same
<1>7. \A k \in 0..n : k \in same
  BY <1>1, <1>5, <1>6, UpTo
<1>8. f[n] = g[n] /\ n \in 0..n
  <2>1. n \in 0..n
    BY <1>1
  <2> QED
    BY <1>7, <2>1 DEF same
<1>9. g[n + 1] = ScanStep(g[n], x)
  BY <1>1, <1>4
<1>10. u = Longer(s, x)
  BY DEF u, Longer
<1> QED
  BY <1>2, <1>3, <1>4, <1>8, <1>9, <1>10


(* A text is scanned piece by piece. *)
LEMMA ScanJoins ==
    ASSUME NEW S, NEW b \in Scanning, NEW v \in Seq(S)
    PROVE  \A w \in Seq(S) : Scan(b, v \o w) = Scan(Scan(b, v), w)
<1> DEFINE P == {w \in Seq(S) : Scan(b, v \o w) = Scan(Scan(b, v), w)}
           c == Scan(b, v)
<1>1. c \in Scanning
  <2>1. CASE S = {}
    <3>1. v = <<>>
      BY <2>1
    <3>2. <<>> \in Seq({1}) /\ 1 \in {1}
      OBVIOUS
    <3> QED
      BY <3>1, <3>2, ScanGrows
  <2>2. CASE S # {}
    BY <2>2, ScanGrows
  <2> QED
    BY <2>1, <2>2
<1> HIDE DEF c
<1>2. <<>> \in P
  <2>1. <<>> \in Seq(S) /\ v \o <<>> = v /\ <<>> \in Seq({1}) /\ 1 \in {1}
    OBVIOUS
  <2>2. Scan(c, <<>>) = c
    BY <1>1, <2>1, ScanGrows
  <2> QED
    BY <2>1, <2>2 DEF c
<1>3. ASSUME NEW w \in Seq(S), NEW x \in S, w \in P PROVE Longer(w, x) \in P
  <2> DEFINE vw == v \o w
  <2>1. vw \in Seq(S) /\ v \o Append(w, x) = Append(vw, x) /\ Append(w, x) \in Seq(S)
    OBVIOUS
  <2>2. Scan(b, vw) = Scan(c, w)
    BY <1>3 DEF c
  <2>3. v \o Longer(w, x) = Longer(vw, x) /\ Longer(w, x) \in Seq(S)
    BY <2>1 DEF Longer
  <2> HIDE DEF vw
  <2>4. Scan(b, Longer(vw, x)) = ScanStep(Scan(b, vw), x)
    BY <2>1, ScanGrows
  <2>5. Scan(c, Longer(w, x)) = ScanStep(Scan(c, w), x)
    BY <1>1, ScanGrows
  <2> QED
    BY <2>2, <2>3, <2>4, <2>5 DEF c
<1> HIDE DEF P
<1>4. \A w \in Seq(S) : w \in P
  BY <1>2, <1>3, Along
<1> QED
  BY <1>4 DEF P, c

(* The scan stays inside the quotes as long as it reads what is written of  *)
(* an argument.                                                             *)
LEMMA ScanInside ==
    ASSUME NEW S, Marks \subseteq S, NEW d \in Nat \ {0}, NEW a \in Nat
    PROVE  \A s \in Seq(S) : Scan(At(d, Quote, a), Escaped(s)) = At(d, Quote, a + Len(Escaped(s)))
<1> DEFINE b == At(d, Quote, a)
           Good(s) == Scan(b, Escaped(s)) = At(d, Quote, a + Len(Escaped(s)))
           P == {s \in Seq(S) : Good(s)}
<1>1. b \in Scanning /\ d \in Nat /\ d # 0 /\ Quote # NoQuote
  <2>1. Quote # NoQuote
    BY DEF Quote, NoQuote
  <2>2. At(d, Quote, a) \in Scanning
    BY DEF Scanning
  <2> QED
    BY <2>1, <2>2
<1> HIDE DEF b
<1>2. <<>> \in P
  <2>1. <<>> \in Seq(S) /\ Escape \in S /\ Len(<<>>) = 0 /\ a + 0 = a
    BY DEF Marks
  <2>2. Escaped(<<>>) = <<>>
    BY <2>1, EscapedGrows
  <2>3. Scan(b, <<>>) = b
    BY <1>1, <2>1, ScanGrows
  <2> QED
    BY <2>1, <2>2, <2>3 DEF b
<1>3. ASSUME NEW v \in Seq(S), NEW x \in S, v \in P PROVE Longer(v, x) \in P
  <2> DEFINE e == Escaped(v)
             n == Len(e)
  <2>1. e \in Seq(S) /\ Scan(b, e) = At(d, Quote, a + n) /\ Escaped(Longer(v, x)) = Writes(e, x)
    BY <1>3, EscapedGrows
  <2> HIDE DEF e
  <2>2. n \in Nat /\ a + n \in Nat /\ (a + n) + 1 = a + (n + 1) /\ ((a + n) + 1) + 1 = a + (n + 2)
        /\ (a + n) + 1 \in Nat
    BY <2>1
  <2>3. Longer(v, x) \in Seq(S) /\ Escape \in S /\ Code(x) \in S
    BY DEF Longer, Marks, Code
  <2>4. ASSUME NEW w \in Seq(S), NEW c \in S
        PROVE  /\ Longer(w, c) \in Seq(S) /\ Len(Longer(w, c)) = Len(w) + 1
               /\ Scan(b, Longer(w, c)) = ScanStep(Scan(b, w), c)
    <3>1. Longer(w, c) \in Seq(S) /\ Len(Longer(w, c)) = Len(w) + 1
      BY DEF Longer
    <3> QED
      BY <1>1, <3>1, ScanGrows
  <2>5. CASE x \in Special
    <3> DEFINE w == Longer(e, Escape)
    <3>1. w \in Seq(S) /\ Len(w) = n + 1 /\ Scan(b, w) = ScanStep(At(d, Quote, a + n), Escape)
      BY <2>1, <2>3, <2>4
    <3>2. Scan(b, w) = Behind(d, Quote, (a + n) + 1)
      BY <1>1, <2>2, <3>1, ScanMoves
    <3> HIDE DEF w, n
    <3>3. Len(Longer(w, Code(x))) = n + 2 /\ Scan(b, Longer(w, Code(x))) = ScanStep(Scan(b, w), Code(x))
      <4>1. Len(Longer(w, Code(x))) = (n + 1) + 1 /\ Scan(b, Longer(w, Code(x))) = ScanStep(Scan(b, w), Code(x))
        BY <2>3, <2>4, <3>1
      <4> QED
        BY <2>2, <4>1
    <3>4. ScanStep(Scan(b, w), Code(x)) = At(d, Quote, ((a + n) + 1) + 1)
      BY <1>1, <2>2, <3>2, ScanMoves
    <3>5. Writes(e, x) = Longer(w, Code(x))
      BY <2>5 DEF Writes, w
    <3> QED
      BY <2>1, <2>2, <2>3, <3>3, <3>4, <3>5
  <2>6. CASE x \notin Special
    <3>1. x # Escape /\ x # Quote
      BY <2>6 DEF Special
    <3>2. Len(Longer(e, x)) = n + 1 /\ Scan(b, Longer(e, x)) = ScanStep(At(d, Quote, a + n), x)
      BY <2>1, <2>4
    <3>3. ScanStep(At(d, Quote, a + n), x) = At(d, Quote, (a + n) + 1)
      BY <1>1, <2>2, <3>1, ScanMoves
    <3>4. Writes(e, x) = Longer(e, x)
      BY <2>6 DEF Writes
    <3> QED
      BY <2>1, <2>2, <2>3, <3>2, <3>3, <3>4
  <2> QED
    BY <2>5, <2>6
<1> HIDE DEF P
<1>4. \A s \in Seq(S) : s \in P
  BY <1>2, <1>3, Along
<1> QED
  BY <1>4 DEF P, b

(* The signs a call is written with. *)
Signs == Marks \cup Keys \cup Literals \cup {Opening, ")", "]", ",", " ", "="}
Dull  == Keys \cup Literals \cup {"]", ",", " ", "=", "\n"}

(* A text that a scan outside quotes passes without leaving its depth.      *)
Balanced(w) == \A d \in Nat \ {0}, a \in Nat :
                   Scan(At(d, NoQuote, a), w) = At(d, NoQuote, a + Len(w))

(* Places outside quotes, and inside double ones, are states of the scan. *)
LEMMA OutsideScans ==
    ASSUME NEW d \in Nat, NEW a \in Nat
    PROVE  /\ At(d, NoQuote, a) \in Scanning /\ At(d, Quote, a) \in Scanning
           /\ NoQuote # Quote /\ Escape # Quote
<1>1. NoQuote # Quote /\ Escape # Quote
  BY DEF NoQuote, Quote, Escape
<1>2. At(d, NoQuote, a) \in Scanning /\ At(d, Quote, a) \in Scanning
  BY DEF Scanning
<1> QED
  BY <1>1, <1>2

(* The scan of one character, and of none. *)
LEMMA ScanOne ==
    ASSUME NEW b \in Scanning, NEW x
    PROVE  Scan(b, <<x>>) = ScanStep(b, x) /\ Scan(b, <<>>) = b
<1>1. <<>> \in Seq({x}) /\ x \in {x} /\ Longer(<<>>, x) = <<x>>
  BY DEF Longer
<1> DEFINE S == {x}
           v == <<>>
<1> HIDE DEF S, v
<1>0. v \in Seq(S) /\ x \in S
  BY <1>1 DEF S, v
<1>2. Scan(b, <<>>) = b
  BY <1>0, ScanGrows
<1>4. Scan(b, Longer(v, x)) = ScanStep(Scan(b, v), x)
  BY <1>0, ScanGrows
<1>3. Scan(b, Longer(<<>>, x)) = ScanStep(Scan(b, <<>>), x)
  BY <1>4 DEF v
<1> QED
  BY <1>1, <1>2, <1>3

(* What is strung together of balanced texts is balanced. *)
LEMMA BalancedJoins ==
    ASSUME NEW S, NEW v \in Seq(S), NEW w \in Seq(S), Balanced(v), Balanced(w)
    PROVE  v \o w \in Seq(S) /\ Balanced(v \o w)
<1>1. v \o w \in Seq(S) /\ Len(v \o w) = Len(v) + Len(w) /\ Len(v) \in Nat /\ Len(w) \in Nat
  OBVIOUS
<1> DEFINE vw == v \o w
<1>2. ASSUME NEW d \in Nat \ {0}, NEW a \in Nat
      PROVE  Scan(At(d, NoQuote, a), v \o w) = At(d, NoQuote, a + Len(v \o w))
  <2>1. At(d, NoQuote, a) \in Scanning
    BY OutsideScans
  <2>2. Scan(At(d, NoQuote, a), v \o w) = Scan(Scan(At(d, NoQuote, a), v), w)
    <3> DEFINE b == At(d, NoQuote, a)
    <3> HIDE DEF b
    <3>1. b \in Scanning
      BY <2>1 DEF b
    <3>2. \A u \in Seq(S) : Scan(b, v \o u) = Scan(Scan(b, v), u)
      BY <3>1, ScanJoins
    <3> QED
      BY <3>2 DEF b
  <2>3. Scan(At(d, NoQuote, a), v) = At(d, NoQuote, a + Len(v)) /\ a + Len(v) \in Nat
    <3>1. Scan(At(d, NoQuote, a), v) = At(d, NoQuote, a + Len(v))
      BY DEF Balanced
    <3>2. a + Len(v) \in Nat
      BY <1>1
    <3> QED
      BY <3>1, <3>2
  <2>4. Scan(At(d, NoQuote, a + Len(v)), w) = At(d, NoQuote, (a + Len(v)) + Len(w))
    BY <2>3 DEF Balanced
  <2>5. (a + Len(v)) + Len(w) = a + Len(v \o w)
    BY <1>1
  <2> QED
    BY <2>2, <2>3, <2>4, <2>5
<1> QED
  BY <1>1, <1>2 DEF Balanced

(* A sign that neither quotes nor groups is balanced. *)
LEMMA DullIsBalanced ==
    /\ Balanced(<<>>)
    /\ \A x \in Dull : Balanced(<<x>>)
<1>1. Dull \cap {Quote, Single, "(", Opening, ")"} = {}
  BY DEF Dull, Keys, Literals, Quote, Single, Opening
<1>2. ASSUME NEW d \in Nat \ {0}, NEW a \in Nat
      PROVE  /\ Scan(At(d, NoQuote, a), <<>>) = At(d, NoQuote, a + Len(<<>>))
             /\ \A x \in Dull : Scan(At(d, NoQuote, a), <<x>>) = At(d, NoQuote, a + Len(<<x>>))
  <2>1. At(d, NoQuote, a) \in Scanning
    BY OutsideScans
  <2>2. Len(<<>>) = 0 /\ a + 0 = a /\ d # 0
    OBVIOUS
  <2>3. ASSUME NEW x \in Dull
        PROVE  Scan(At(d, NoQuote, a), <<x>>) = At(d, NoQuote, a + Len(<<x>>))
    <3>1. Scan(At(d, NoQuote, a), <<x>>) = ScanStep(At(d, NoQuote, a), x)
      BY <2>1, ScanOne
    <3>2. ScanStep(At(d, NoQuote, a), x) = At(d, NoQuote, a + 1)
      BY <1>1, <2>2, ScanMoves
    <3>3. Len(<<x>>) = 1
      OBVIOUS
    <3> QED
      BY <3>1, <3>2, <3>3
  <2>4. Scan(At(d, NoQuote, a), <<>>) = At(d, NoQuote, a)
    BY <2>1, ScanOne
  <2> QED
    BY <2>2, <2>3, <2>4
<1> QED
  BY <1>2 DEF Balanced

(* An argument between its quotes. *)
LEMMA QuotedIsBalanced ==
    ASSUME NEW S, Marks \subseteq S, NEW s \in Seq(S)
    PROVE  <<Quote>> \o Escaped(s) \o <<Quote>> \in Seq(S) /\ Balanced(<<Quote>> \o Escaped(s) \o <<Quote>>)
<1> DEFINE e == Escaped(s)
           q == <<Quote>>
           eq == e \o q
           w == q \o e
           n == Len(e)
<1>1. e \in Seq(S) /\ q \in Seq(S)
  BY EscapesUndone DEF Marks
<1> HIDE DEF e
<1>2. /\ w \in Seq(S) /\ w \o q \in Seq(S) /\ n \in Nat
      /\ Len(w \o q) = n + 2
  BY <1>1
<1>3. ASSUME NEW d \in Nat \ {0}, NEW a \in Nat
      PROVE  Scan(At(d, NoQuote, a), w \o q) = At(d, NoQuote, a + Len(w \o q))
  <2>1. /\ At(d, NoQuote, a) \in Scanning /\ d # 0 /\ a + 1 \in Nat /\ (a + 1) + n \in Nat
        /\ NoQuote # Quote /\ Escape # Quote /\ ((a + 1) + n) + 1 = a + (n + 2)
    BY <1>2, OutsideScans
  <2>2. Scan(At(d, NoQuote, a), q) = At(d, Quote, a + 1)
    <3>1. ScanStep(At(d, NoQuote, a), Quote) = At(d, Quote, a + 1)
      BY <2>1, ScanMoves
    <3> QED
      BY <2>1, <3>1, ScanOne
  <2>3. Scan(At(d, NoQuote, a), w) = At(d, Quote, (a + 1) + n)
    <3>1. Scan(At(d, NoQuote, a), w) = Scan(Scan(At(d, NoQuote, a), q), e)
      <4> DEFINE b == At(d, NoQuote, a)
      <4> HIDE DEF b, q
      <4>1. b \in Scanning
        BY <2>1 DEF b
      <4>2. \A u \in Seq(S) : Scan(b, q \o u) = Scan(Scan(b, q), u)
        BY <1>1, <4>1, ScanJoins
      <4> QED
        BY <1>1, <4>2 DEF b
    <3>2. Scan(At(d, Quote, a + 1), e) = At(d, Quote, (a + 1) + n)
      BY <2>1, ScanInside DEF e
    <3> QED
      BY <2>2, <3>1, <3>2
  <2>4. Scan(At(d, NoQuote, a), w \o q) = Scan(Scan(At(d, NoQuote, a), w), q)
    <3> DEFINE b == At(d, NoQuote, a)
    <3> HIDE DEF b, q, w
    <3>1. b \in Scanning
      BY <2>1 DEF b
    <3>2. \A u \in Seq(S) : Scan(b, w \o u) = Scan(Scan(b, w), u)
      BY <1>2, <3>1, ScanJoins
    <3> QED
      BY <1>1, <3>2 DEF b
  <2>5. Scan(At(d, Quote, (a + 1) + n), q) = At(d, NoQuote, ((a + 1) + n) + 1)
    <3>1. ScanStep(At(d, Quote, (a + 1) + n), Quote) = At(d, NoQuote, ((a + 1) + n) + 1)
      BY <2>1, ScanMoves
    <3>2. At(d, Quote, (a + 1) + n) \in Scanning
      BY <2>1, OutsideScans
    <3> QED
      BY <3>1, <3>2, ScanOne
  <2> QED
    BY <1>2, <2>1, <2>3, <2>4, <2>5
<1>4. Balanced(w \o q)
  BY <1>3 DEF Balanced
<1> QED
  BY <1>2, <1>4 DEF e

(* So is what is strung together of any number of them. *)
LEMMA FlattenIsBalanced ==
    ASSUME NEW S, NEW t \in Seq(Seq(S)), \A i \in 1..Len(t) : Balanced(t[i])
    PROVE  FlattenSeq(t) \in Seq(S) /\ Balanced(FlattenSeq(t))
<1> DEFINE n == Len(t)
<1>1. n \in Nat /\ \A i \in 1..n : t[i] \in Seq(S) /\ Balanced(t[i])
  OBVIOUS
<1>2. PICK f \in [0..n -> Seq(S)] :
          /\ f[0] = <<>> /\ FlattenSeq(t) = f[n]
          /\ \A i \in 1..n : f[i] = f[i - 1] \o t[i]
  BY FlattenRuns
<1> HIDE DEF n
<1> DEFINE good == {i \in 0..n : Balanced(f[i])}
<1>3. 0 \in good
  BY <1>1, <1>2, DullIsBalanced
<1>4. \A k \in 0..n : k \in good /\ k < n => k + 1 \in good
  <2> SUFFICES ASSUME NEW k \in 0..n, k \in good, k < n PROVE k + 1 \in good
    OBVIOUS
  <2>1. k + 1 \in 1..n /\ k + 1 \in 0..n /\ (k + 1) - 1 = k /\ Balanced(f[k]) /\ f[k] \in Seq(S)
    BY <1>1, <1>2
  <2> DEFINE v == f[k]
             w == t[k + 1]
  <2>2. v \in Seq(S) /\ w \in Seq(S) /\ Balanced(v) /\ Balanced(w) /\ f[k + 1] = v \o w
    BY <1>1, <1>2, <2>1
  <2> HIDE DEF v, w
  <2>3. Balanced(v \o w)
    BY <2>2, BalancedJoins
  <2> QED
    BY <2>1, <2>2, <2>3
<1> HIDE DEF good
<1>5. \A k \in 0..n : k \in good
  BY <1>1, <1>3, <1>4, UpTo
<1>6. n \in 0..n
  BY <1>1
<1> QED
  BY <1>2, <1>5, <1>6 DEF good

(* The arguments of a call, and what is written of them.                    *)
Values(S)    == {Str(s) : s \in Seq(S)} \cup {Lit(c) : c \in Literals}
Arguments(S) == Seq(Keys \X Values(S))
Piece(args, i) == (IF i = 1 THEN <<>> ELSE <<",", " ">>) \o <<args[i][1], "=">> \o Rendered(args[i][2])
Body(args) == FlattenSeq([i \in DOMAIN args |-> Piece(args, i)])

(* A value is written as a balanced text. *)
LEMMA RenderedIsBalanced ==
    ASSUME NEW S, Signs \subseteq S, NEW v \in Values(S)
    PROVE  Rendered(v) \in Seq(S) /\ Balanced(Rendered(v))
<1>1. Marks \subseteq S /\ Literals \subseteq S /\ Literals \subseteq Dull
  BY DEF Signs, Dull
<1>2. ASSUME NEW s \in Seq(S), v = Str(s) PROVE Rendered(v) \in Seq(S) /\ Balanced(Rendered(v))
  <2>1. v.kind = "string" /\ v.text = s
    BY <1>2 DEF Str
  <2>2. Rendered(v) = <<Quote>> \o Escaped(s) \o <<Quote>>
    BY <2>1 DEF Rendered
  <2> QED
    BY <1>1, <2>2, QuotedIsBalanced
<1>3. ASSUME NEW c \in Literals, v = Lit(c) PROVE Rendered(v) \in Seq(S) /\ Balanced(Rendered(v))
  <2>1. v.kind = "literal" /\ v.text = <<c>>
    BY <1>3 DEF Lit
  <2>2. Rendered(v) = <<c>>
    BY <2>1 DEF Rendered
  <2>3. Balanced(<<c>>)
    BY <1>1, DullIsBalanced
  <2> QED
    BY <1>1, <2>2, <2>3
<1> QED
  BY <1>2, <1>3 DEF Values

(* Two signs, one behind the other. *)
LEMMA TwoSigns ==
    ASSUME NEW S, NEW c \in S, NEW x \in S
    PROVE  <<c>> \in Seq(S) /\ <<x>> \in Seq(S) /\ <<c, x>> \in Seq(S) /\ <<c>> \o <<x>> = <<c, x>>
<1>1. <<c>> \in Seq(S) /\ <<x>> \in Seq(S) /\ <<c, x>> \in Seq(S)
  OBVIOUS
<1>2. <<c>> \o <<x>> = Append(<<c>>, x)
  OBVIOUS
<1>3. Append(<<c>>, x) = <<c, x>>
  <2> DEFINE w == Append(<<c>>, x)
             u == <<c, x>>
  <2>1. w \in Seq(S) /\ Len(w) = 2 /\ w[1] = c /\ w[2] = x
    OBVIOUS
  <2>2. u \in Seq(S) /\ Len(u) = 2 /\ u[1] = c /\ u[2] = x
    OBVIOUS
  <2> HIDE DEF u, w
  <2>3. w = [i \in 1..2 |-> w[i]] /\ u = [i \in 1..2 |-> u[i]]
    BY <2>1, <2>2
  <2>4. \A i \in 1..2 : w[i] = u[i]
    BY <2>1, <2>2
  <2>5. w = u
    BY <2>3, <2>4
  <2> QED
    BY <2>5 DEF w, u
<1> QED
  BY <1>1, <1>2, <1>3

(* So is an argument with its key. *)
LEMMA PieceIsBalanced ==
    ASSUME NEW S, Signs \subseteq S, NEW args \in Arguments(S), NEW i \in 1..Len(args)
    PROVE  Piece(args, i) \in Seq(S) /\ Balanced(Piece(args, i))
<1> DEFINE key == args[i][1]
           sep == IF i = 1 THEN <<>> ELSE <<",", " ">>
           left == <<key, "=">>
           ren == Rendered(args[i][2])
<1>1. args[i] \in Keys \X Values(S)
  BY DEF Arguments
<1>2. key \in Keys /\ args[i][2] \in Values(S)
  BY <1>1
<1>3. "=" \in S /\ "," \in S /\ " " \in S /\ key \in S
  BY <1>2 DEF Signs
<1>4. "=" \in Dull /\ "," \in Dull /\ " " \in Dull /\ key \in Dull
  BY <1>2 DEF Dull
<1>5. ren \in Seq(S) /\ Balanced(ren)
  BY <1>2, RenderedIsBalanced
<1> HIDE DEF key, ren
<1>6. \A c \in Dull \cap S, x \in Dull \cap S : <<c, x>> \in Seq(S) /\ Balanced(<<c, x>>)
  <2> SUFFICES ASSUME NEW c \in Dull \cap S, NEW x \in Dull \cap S
               PROVE  <<c, x>> \in Seq(S) /\ Balanced(<<c, x>>)
    OBVIOUS
  <2> DEFINE v == <<c>>
             w == <<x>>
  <2>1. v \in Seq(S) /\ w \in Seq(S) /\ v \o w = <<c, x>> /\ <<c, x>> \in Seq(S)
    BY TwoSigns
  <2>2. Balanced(v) /\ Balanced(w)
    BY DullIsBalanced
  <2> HIDE DEF v, w
  <2>3. Balanced(v \o w)
    BY <2>1, <2>2, BalancedJoins
  <2> QED
    BY <2>1, <2>3
<1>7. left \in Seq(S) /\ Balanced(left)
  BY <1>3, <1>4, <1>6
<1>8. sep \in Seq(S) /\ Balanced(sep)
  <2>1. CASE i = 1
    BY <2>1, DullIsBalanced
  <2>2. CASE i # 1
    BY <1>3, <1>4, <1>6, <2>2
  <2> QED
    BY <2>1, <2>2
<1>9. Piece(args, i) = (sep \o left) \o ren
  BY DEF Piece, key, ren
<1> HIDE DEF sep, left
<1>10. sep \o left \in Seq(S) /\ Balanced(sep \o left)
  BY <1>7, <1>8, BalancedJoins
<1> DEFINE sl == sep \o left
<1>11. sl \in Seq(S) /\ Balanced(sl)
  BY <1>10
<1> HIDE DEF sl
<1>12. sl \o ren \in Seq(S) /\ Balanced(sl \o ren)
  BY <1>5, <1>11, BalancedJoins
<1> QED
  BY <1>9, <1>12 DEF sl

(* So are all arguments of a call. *)
LEMMA BodyIsBalanced ==
    ASSUME NEW S, Signs \subseteq S, NEW args \in Arguments(S)
    PROVE  Body(args) \in Seq(S) /\ Balanced(Body(args))
<1> DEFINE n == Len(args)
           t == [i \in 1..n |-> Piece(args, i)]
<1>1. n \in Nat /\ DOMAIN args = 1..n
  BY DEF Arguments
<1>2. \A i \in 1..n : t[i] \in Seq(S) /\ Balanced(t[i])
  BY PieceIsBalanced
<1>3. Body(args) = FlattenSeq(t)
  BY <1>1 DEF Body
<1>4. t \in [1..n -> Seq(S)]
  BY <1>2
<1> HIDE DEF n, t
<1>5. t \in Seq(Seq(S)) /\ Len(t) = n
  BY <1>1, <1>4
<1> QED
  BY <1>2, <1>3, <1>5, FlattenIsBalanced

(* Where a text lies in another. *)
Holds(s, k, w) == k + Len(w) <= Len(s) /\ \A i \in 1..Len(w) : s[k + i] = w[i]
From(s, k) == SubSeq(s, k + 1, Len(s))

(* Texts of one length with the same signs are one text. *)
LEMMA SameText ==
    ASSUME NEW S, NEW v \in Seq(S), NEW w \in Seq(S), Len(v) = Len(w),
           \A i \in 1..Len(v) : v[i] = w[i]
    PROVE  v = w
<1>1. v = [i \in 1..Len(v) |-> v[i]] /\ w = [i \in 1..Len(w) |-> w[i]]
  OBVIOUS
<1> QED
  BY <1>1

(* A text is cut out where it lies. *)
LEMMA HoldsCut ==
    ASSUME NEW S, NEW s \in Seq(S), NEW k \in Nat, NEW w \in Seq(S), Holds(s, k, w)
    PROVE  SubSeq(s, k + 1, k + Len(w)) = w
<1> DEFINE n == Len(w)
           c == SubSeq(s, k + 1, k + n)
<1>1. n \in Nat /\ k + n <= Len(s) /\ Len(s) \in Nat /\ \A i \in 1..n : s[k + i] = w[i]
  BY DEF Holds
<1>2. \A j \in (k + 1)..(k + n) : s[j] \in S
  <2>1. \A j \in 1..Len(s) : s[j] \in S
    OBVIOUS
  <2> HIDE DEF n
  <2> QED
    BY <1>1, <2>1
<1>3. c \in Seq(S) /\ Len(c) = (IF k + 1 <= k + n THEN (k + n) - (k + 1) + 1 ELSE 0)
      /\ \A i \in 1..((k + n) - (k + 1) + 1) : c[i] = s[(k + 1) + i - 1]
  <2> HIDE DEF n
  <2>1. k + 1 \in Int /\ k + n \in Int
    BY <1>1
  <2> QED
    BY <1>2, <2>1, SubSeqProperties
<1> HIDE DEF c, n
<1>4. Len(c) = n /\ \A i \in 1..n : c[i] = s[k + i]
  <2>1. (k + n) - (k + 1) + 1 = n /\ (k + 1 <= k + n <=> n # 0)
    BY <1>1
  <2>2. \A i \in 1..n : (k + 1) + i - 1 = k + i
    BY <1>1
  <2> QED
    BY <1>1, <1>3, <2>1, <2>2
<1>5. \A i \in 1..Len(c) : c[i] = w[i]
  BY <1>1, <1>4
<1>6. Len(c) = Len(w)
  BY <1>4 DEF n
<1>7. c = w
  BY <1>3, <1>5, <1>6, SameText
<1> QED
  BY <1>7 DEF c, n

(* A text that lies in another has its parts there. *)
LEMMA HoldsSplit ==
    ASSUME NEW S, NEW s \in Seq(S), NEW k \in Nat, NEW v \in Seq(S), NEW w \in Seq(S),
           Holds(s, k, v \o w)
    PROVE  Holds(s, k, v) /\ Holds(s, k + Len(v), w)
<1> DEFINE m == Len(v)
           n == Len(w)
           vw == v \o w
<1>1. /\ m \in Nat /\ n \in Nat /\ Len(vw) = m + n /\ Len(s) \in Nat
      /\ \A i \in 1..m : vw[i] = v[i]
      /\ \A i \in 1..n : vw[m + i] = w[i]
  OBVIOUS
<1>2. k + Len(vw) <= Len(s) /\ \A i \in 1..Len(vw) : s[k + i] = vw[i]
  BY DEF Holds
<1> HIDE DEF vw, m, n
<1>3. ASSUME NEW i \in 1..m PROVE s[k + i] = v[i]
  <2>1. i \in 1..Len(vw)
    BY <1>1
  <2> QED
    BY <1>1, <1>2, <2>1
<1>4. ASSUME NEW i \in 1..n PROVE s[(k + m) + i] = w[i]
  <2>1. m + i \in 1..Len(vw) /\ (k + m) + i = k + (m + i)
    BY <1>1
  <2> QED
    BY <1>1, <1>2, <2>1
<1>5. k + m <= Len(s) /\ (k + m) + n <= Len(s)
  BY <1>1, <1>2
<1> QED
  BY <1>3, <1>4, <1>5 DEF Holds, m, n

(* What lies in a part lies in the whole. *)
LEMMA HoldsWithin ==
    ASSUME NEW S, NEW s \in Seq(S), NEW k \in Nat, NEW w \in Seq(S), Holds(s, k, w),
           NEW j \in Nat, NEW u \in Seq(S), Holds(w, j, u)
    PROVE  Holds(s, k + j, u)
<1> DEFINE n == Len(w)
           m == Len(u)
           l == Len(s)
<1>1. n \in Nat /\ m \in Nat /\ l \in Nat
  OBVIOUS
<1>2. k + n <= l /\ (\A i \in 1..n : s[k + i] = w[i]) /\ j + m <= n /\ \A i \in 1..m : w[j + i] = u[i]
  BY DEF Holds
<1> HIDE DEF n, m, l
<1>3. ASSUME NEW i \in 1..m PROVE s[(k + j) + i] = u[i]
  <2>1. j + i \in 1..n /\ (k + j) + i = k + (j + i)
    BY <1>1, <1>2
  <2> QED
    BY <1>2, <2>1
<1>4. (k + j) + m <= l
  BY <1>1, <1>2
<1> QED
  BY <1>3, <1>4 DEF Holds, n, m, l

(* Two texts that are strung together lie in the whole. *)
LEMMA HoldsParts ==
    ASSUME NEW S, NEW v \in Seq(S), NEW w \in Seq(S)
    PROVE  Holds(v \o w, 0, v) /\ Holds(v \o w, Len(v), w)
<1> DEFINE vw == v \o w
<1>1. vw \in Seq(S)
  OBVIOUS
<1>2. Holds(vw, 0, vw)
  BY DEF Holds
<1>3. Holds(vw, 0, v \o w)
  BY <1>2
<1> HIDE DEF vw
<1>4. Holds(vw, 0, v) /\ Holds(vw, 0 + Len(v), w)
  BY <1>1, <1>3, HoldsSplit
<1>5. 0 + Len(v) = Len(v)
  OBVIOUS
<1> QED
  BY <1>4, <1>5 DEF vw

(* What is left of a text begins with what lies there. *)
LEMMA FromSplit ==
    ASSUME NEW S, NEW s \in Seq(S), NEW k \in Nat, NEW w \in Seq(S), Holds(s, k, w),
           NEW j \in Nat, j = k + Len(w)
    PROVE  From(s, k) \in Seq(S) /\ From(s, j) \in Seq(S) /\ From(s, k) = w \o From(s, j)
<1> DEFINE n == Len(w)
           l == Len(s)
<1>1. n \in Nat /\ l \in Nat /\ (\A i \in 1..l : s[i] \in S) /\ (\A i \in 1..n : w[i] \in S)
  OBVIOUS
<1>2. k + n <= l /\ \A i \in 1..n : s[k + i] = w[i]
  BY DEF Holds
<1> HIDE DEF n, l
<1>3. ASSUME NEW h \in 0..l
      PROVE  /\ SubSeq(s, h + 1, l) \in Seq(S) /\ Len(SubSeq(s, h + 1, l)) = l - h
             /\ \A i \in 1..(l - h) : SubSeq(s, h + 1, l)[i] = s[h + i]
  <2> DEFINE c == SubSeq(s, h + 1, l)
  <2>1. h + 1 \in Int /\ l \in Int /\ \A i \in (h + 1)..l : s[i] \in S
    BY <1>1
  <2>2. c \in Seq(S) /\ Len(c) = (IF h + 1 <= l THEN l - (h + 1) + 1 ELSE 0)
        /\ \A i \in 1..(l - (h + 1) + 1) : c[i] = s[(h + 1) + i - 1]
    BY ONLY <2>1, SubSeqProperties
  <2> HIDE DEF c
  <2>3. l - (h + 1) + 1 = l - h /\ (h + 1 <= l <=> l - h # 0)
        /\ \A i \in 1..(l - h) : (h + 1) + i - 1 = h + i
    BY <1>1
  <2>4. Len(c) = l - h /\ \A i \in 1..(l - h) : c[i] = s[h + i]
    BY <2>2, <2>3
  <2> QED
    BY <2>2, <2>4 DEF c
<1> DEFINE a == SubSeq(s, k + 1, l)
           c == SubSeq(s, (k + n) + 1, l)
<1>4. /\ a \in Seq(S) /\ Len(a) = l - k /\ \A i \in 1..(l - k) : a[i] = s[k + i]
      /\ c \in Seq(S) /\ Len(c) = l - (k + n) /\ \A i \in 1..(l - (k + n)) : c[i] = s[(k + n) + i]
  <2>1. k \in 0..l /\ k + n \in 0..l
    BY <1>1, <1>2
  <2> QED
    BY <1>3, <2>1
<1> HIDE DEF a, c
<1> DEFINE wc == w \o c
<1>5. wc \in Seq(S) /\ Len(wc) = n + Len(c) /\ (\A i \in 1..n : wc[i] = w[i])
      /\ \A i \in 1..Len(c) : wc[n + i] = c[i]
  BY <1>1, <1>4 DEF n
<1> HIDE DEF wc
<1>6. Len(a) = Len(wc)
  BY <1>1, <1>2, <1>4, <1>5
<1>7. ASSUME NEW i \in 1..Len(a) PROVE a[i] = wc[i]
  <2>1. a[i] = s[k + i]
    BY <1>4
  <2>2. CASE i <= n
    <3>1. i \in 1..n
      BY <1>1, <1>4, <2>2
    <3> QED
      BY <1>2, <1>5, <2>1, <3>1
  <2>3. CASE ~(i <= n)
    <3>1. i - n \in 1..Len(c) /\ n + (i - n) = i /\ (k + n) + (i - n) = k + i
      BY <1>1, <1>2, <1>4, <2>3
    <3>2. wc[i] = c[i - n] /\ c[i - n] = s[k + i]
      BY <1>4, <1>5, <3>1
    <3> QED
      BY <2>1, <3>2
  <2> QED
    BY <2>2, <2>3
<1>8. a = wc
  BY <1>4, <1>5, <1>6, <1>7, SameText
<1> QED
  BY <1>4, <1>8 DEF From, a, c, wc, n, l

(* What is left of a text begins with its next sign. *)
LEMMA FromOne ==
    ASSUME NEW S, NEW s \in Seq(S), NEW j \in Nat, j + 1 <= Len(s)
    PROVE  From(s, j) = <<s[j + 1]>> \o From(s, j + 1) /\ From(s, j + 1) \in Seq(S)
<1> DEFINE c == <<s[j + 1]>>
           k == j + 1
<1>1. j + 1 \in 1..Len(s) /\ s[j + 1] \in S
  OBVIOUS
<1>2. c \in Seq(S) /\ Holds(s, j, c) /\ k \in Nat /\ k = j + Len(c)
  BY <1>1 DEF Holds
<1> HIDE DEF c, k
<1>3. From(s, j) = c \o From(s, k) /\ From(s, k) \in Seq(S)
  BY <1>2, FromSplit
<1> QED
  BY <1>3 DEF c, k

(* A scan that is done stays where it is. *)
LEMMA ScanDone ==
    ASSUME NEW S, NEW a \in Nat
    PROVE  \A w \in Seq(S) : Scan(At(0, NoQuote, a), w) = At(0, NoQuote, a)
<1> DEFINE b == At(0, NoQuote, a)
           P == {w \in Seq(S) : Scan(b, w) = b}
<1>1. b \in Scanning
  BY OutsideScans
<1>2. \A x : ScanStep(b, x) = b
  BY ScanMoves
<1> HIDE DEF b
<1>3. <<>> \in P
  <2>1. <<>> \in Seq(S)
    OBVIOUS
  <2>2. Scan(b, <<>>) = b
    BY <1>1, ScanOne
  <2> QED
    BY <2>1, <2>2
<1>4. ASSUME NEW v \in Seq(S), NEW x \in S, v \in P PROVE Longer(v, x) \in P
  <2>1. Longer(v, x) \in Seq(S)
    BY DEF Longer
  <2>2. Scan(b, Longer(v, x)) = ScanStep(Scan(b, v), x) /\ Scan(b, v) = b
    BY <1>1, <1>4, ScanGrows
  <2> QED
    BY <1>2, <2>1, <2>2
<1> HIDE DEF P
<1>5. \A w \in Seq(S) : w \in P
  BY <1>3, <1>4, Along
<1> QED
  BY <1>5 DEF P, b

(* Whatever the body of a call holds between its quotes, the scan ends at   *)
(* the parenthesis that closes the head.                                    *)
LEMMA ClosingFound ==
    ASSUME NEW S, NEW s \in Seq(S), NEW i \in Nat \ {0}, NEW w \in Seq(S), Balanced(w), Holds(s, i, w),
           NEW j \in Nat, j = i + Len(w), j + 2 <= Len(s), s[j + 1] = ")", s[j + 2] = "]"
    PROVE  Closing(s, i) = j + 1
<1> DEFINE n == Len(w)
           c == <<s[j + 1]>>
           b == At(1, NoQuote, i)
           r == From(s, j)
           u == From(s, j + 1)
<1>1. n \in Nat /\ Len(s) \in Nat /\ j = i + n /\ j + 1 \in 1..Len(s) /\ s[j + 1] \in S
  OBVIOUS
<1>2. c \in Seq(S) /\ Len(c) = 1 /\ Holds(s, j, c)
  BY <1>1 DEF Holds
<1>3. From(s, i) = w \o r /\ r \in Seq(S)
  <2>1. i \in Nat
    OBVIOUS
  <2> QED
    BY <2>1, FromSplit
<1>4. r = c \o u /\ u \in Seq(S)
  <2>1. j \in Nat /\ j + 1 \in Nat /\ j + 1 <= Len(s)
    BY <1>1
  <2> HIDE DEF c, r, u
  <2>2. From(s, j) = <<s[j + 1]>> \o From(s, j + 1) /\ From(s, j + 1) \in Seq(S)
    BY <2>1, FromOne
  <2> QED
    BY <2>2 DEF c, r, u
<1> HIDE DEF r, u
<1>5. b \in Scanning /\ 1 \in Nat \ {0} /\ 1 # 0 /\ 1 - 1 = 0
  BY OutsideScans
<1>6. Scan(b, w) = At(1, NoQuote, j)
  BY <1>1, <1>5 DEF Balanced
<1> DEFINE f == At(1, NoQuote, j)
<1>7. f \in Scanning
  BY <1>5, OutsideScans
<1>8. Scan(f, c) = At(0, NoQuote, j + 1)
  <2>1. ScanStep(f, ")") = At(1 - 1, NoQuote, j + 1)
    BY <1>5, ScanMoves
  <2>2. Scan(f, <<")">>) = ScanStep(f, ")")
    BY <1>7, ScanOne
  <2> QED
    BY <1>5, <2>1, <2>2
<1> HIDE DEF b, f, c
<1>9. Scan(f, r) = Scan(Scan(f, c), u)
  BY <1>2, <1>4, <1>7, ScanJoins
<1>10. Scan(b, w \o r) = Scan(f, r)
  <2>1. \A v \in Seq(S) : Scan(b, w \o v) = Scan(Scan(b, w), v)
    BY <1>5, ScanJoins
  <2> QED
    BY <1>3, <1>6, <2>1 DEF f
<1>11. Scan(At(0, NoQuote, j + 1), u) = At(0, NoQuote, j + 1)
  <2>1. j + 1 \in Nat
    OBVIOUS
  <2> QED
    BY <1>4, <2>1, ScanDone
<1>12. Scan(b, From(s, i)) = At(0, NoQuote, j + 1)
  BY <1>3, <1>8, <1>9, <1>10, <1>11
<1>13. At(0, NoQuote, j + 1).depth = 0 /\ At(0, NoQuote, j + 1).at = j + 1
  BY DEF At, Reached
<1>14. j + 1 < Len(s) /\ (j + 1) + 1 = j + 2
  BY <1>1
<1>15. Closing(s, i) = LET st == Scan(b, From(s, i)) IN
                       IF st.depth = 0 /\ st.at < Len(s) /\ s[st.at + 1] = "]" THEN st.at ELSE 0
  BY DEF Closing, HeadScan, From, b, At, Reached, No
<1> QED
  BY <1>12, <1>13, <1>14, <1>15

(* Where the texts lie that are strung together. *)
LEMMA FlattenPlaces ==
    ASSUME NEW S, NEW t \in Seq(Seq(S))
    PROVE  /\ FlattenSeq(t) \in Seq(S)
           /\ \E o \in [0..Len(t) -> Nat] :
                 /\ o[0] = 0 /\ Len(FlattenSeq(t)) = o[Len(t)]
                 /\ \A i \in 1..Len(t) : o[i] = o[i - 1] + Len(t[i]) /\ Holds(FlattenSeq(t), o[i - 1], t[i])
<1> DEFINE n == Len(t)
<1>1. n \in Nat /\ \A i \in 1..n : t[i] \in Seq(S)
  OBVIOUS
<1>2. PICK f \in [0..n -> Seq(S)] :
          /\ f[0] = <<>> /\ FlattenSeq(t) = f[n]
          /\ \A i \in 1..n : f[i] = f[i - 1] \o t[i]
  BY FlattenRuns
<1> HIDE DEF n
<1> DEFINE o == [i \in 0..n |-> Len(f[i])]
<1>3. o \in [0..n -> Nat] /\ \A i \in 0..n : o[i] = Len(f[i]) /\ o[i] \in Nat
  BY <1>2
<1> HIDE DEF o
<1>4. 0 \in 0..n /\ n \in 0..n /\ \A i \in 1..n : i \in 0..n /\ i - 1 \in 0..n
  BY <1>1
<1>5. o[0] = 0 /\ Len(FlattenSeq(t)) = o[n]
  BY <1>2, <1>3, <1>4
<1>6. ASSUME NEW i \in 1..n PROVE o[i] = o[i - 1] + Len(t[i])
  <2> DEFINE v == f[i - 1]
             w == t[i]
  <2>1. v \in Seq(S) /\ w \in Seq(S) /\ f[i] = v \o w /\ o[i - 1] = Len(v) /\ o[i] = Len(f[i])
    BY <1>1, <1>2, <1>3, <1>4
  <2> HIDE DEF v, w
  <2>2. Len(v \o w) = Len(v) + Len(w)
    BY <2>1
  <2> QED
    BY <2>1, <2>2 DEF w
<1> DEFINE good == {k \in 0..n : \A i \in 1..k : Holds(f[k], o[i - 1], t[i])}
<1>7. 0 \in good
  BY <1>4
<1>8. \A k \in 0..n : k \in good /\ k < n => k + 1 \in good
  <2> SUFFICES ASSUME NEW k \in 0..n, k \in good, k < n PROVE k + 1 \in good
    OBVIOUS
  <2>1. k + 1 \in 1..n /\ k + 1 \in 0..n /\ (k + 1) - 1 = k
    BY <1>1
  <2> DEFINE v == f[k]
             w == t[k + 1]
  <2>2. v \in Seq(S) /\ w \in Seq(S) /\ f[k + 1] = v \o w /\ o[k] = Len(v) /\ f[k + 1] \in Seq(S)
    BY <1>1, <1>2, <1>3, <2>1
  <2>3. \A i \in 1..k : Holds(v, o[i - 1], t[i])
    OBVIOUS
  <2> HIDE DEF v, w, good
  <2>4. Holds(v \o w, 0, v) /\ Holds(v \o w, Len(v), w)
    BY <2>2, HoldsParts
  <2> DEFINE x == f[k + 1]
  <2>5. x \in Seq(S) /\ Holds(x, 0, v) /\ Holds(x, o[k], w)
    BY <2>2, <2>4
  <2> HIDE DEF x
  <2>6. ASSUME NEW i \in 1..(k + 1) PROVE Holds(x, o[i - 1], t[i])
    <3>1. CASE i = k + 1
      BY <2>1, <2>5, <3>1 DEF w
    <3>2. CASE i # k + 1
      <4>1. i \in 1..k /\ i \in 1..n /\ i - 1 \in 0..n
        BY <1>1, <2>1, <3>2
      <4> DEFINE y == t[i]
                 z == o[i - 1]
      <4>2. y \in Seq(S) /\ z \in Nat /\ Holds(v, z, y)
        BY <1>1, <1>3, <2>3, <4>1
      <4> HIDE DEF y, z
      <4>3. Holds(x, 0 + z, y)
        BY <2>2, <2>5, <4>2, HoldsWithin
      <4>4. 0 + z = z
        BY <4>2
      <4> QED
        BY <4>3, <4>4 DEF y, z
    <3> QED
      BY <3>1, <3>2
  <2> QED
    BY <2>1, <2>6 DEF good, x
<1> HIDE DEF good
<1>9. \A k \in 0..n : k \in good
  BY <1>1, <1>7, <1>8, UpTo
<1>10. \A i \in 1..n : Holds(f[n], o[i - 1], t[i])
  BY <1>4, <1>9 DEF good
<1>11. FlattenSeq(t) \in Seq(S)
  BY <1>2, <1>4
<1> QED
  BY <1>2, <1>3, <1>5, <1>6, <1>10, <1>11 DEF n

(* What is cut out of a text. *)
LEMMA PiecesOf ==
    ASSUME NEW S, NEW s \in Seq(S), NEW j \in 0..Len(s), NEW k \in j..Len(s)
    PROVE  /\ SubSeq(s, j + 1, k) \in Seq(S) /\ Len(SubSeq(s, j + 1, k)) = k - j
           /\ \A i \in 1..(k - j) : SubSeq(s, j + 1, k)[i] = s[j + i]
<1> DEFINE c == SubSeq(s, j + 1, k)
           l == Len(s)
<1>1. l \in Nat /\ \A i \in 1..l : s[i] \in S
  OBVIOUS
<1>0. j \in 0..l /\ k \in j..l
  OBVIOUS
<1> HIDE DEF l
<1>2. j + 1 \in Int /\ k \in Int /\ \A i \in (j + 1)..k : s[i] \in S
  BY <1>0, <1>1
<1>3. c \in Seq(S) /\ Len(c) = (IF j + 1 <= k THEN k - (j + 1) + 1 ELSE 0)
      /\ \A i \in 1..(k - (j + 1) + 1) : c[i] = s[(j + 1) + i - 1]
  BY <1>2, SubSeqProperties
<1> HIDE DEF c
<1>4. k - (j + 1) + 1 = k - j /\ (j + 1 <= k <=> k - j # 0)
      /\ \A i \in 1..(k - j) : (j + 1) + i - 1 = j + i
  BY <1>0, <1>1
<1>5. Len(c) = k - j /\ \A i \in 1..(k - j) : c[i] = s[j + i]
  BY <1>0, <1>1, <1>3, <1>4
<1> QED
  BY <1>3, <1>5 DEF c

Start(e, k) == SubSeq(e, 1, k)

(* The start of a text, of a given length. *)
LEMMA Starts ==
    ASSUME NEW S, NEW e \in Seq(S), NEW k \in 0..Len(e)
    PROVE  /\ Start(e, k) \in Seq(S) /\ Len(Start(e, k)) = k
           /\ \A i \in 1..k : Start(e, k)[i] = e[i]
<1> DEFINE l == Len(e)
           c == SubSeq(e, 0 + 1, k)
<1>1. l \in Nat /\ k \in 0..l /\ 0 \in 0..l /\ k - 0 = k /\ 0 + 1 = 1
  OBVIOUS
<1>2. c \in Seq(S) /\ Len(c) = k - 0 /\ \A i \in 1..(k - 0) : c[i] = e[0 + i]
  BY <1>1, PiecesOf
<1>3. \A i \in 1..k : 0 + i = i
  BY <1>1
<1>4. c = Start(e, k)
  BY DEF Start
<1> HIDE DEF c
<1> QED
  BY <1>1, <1>2, <1>3, <1>4

(* The starts of a text with one more sign. *)
LEMMA StartsOfLonger ==
    ASSUME NEW S, NEW e \in Seq(S), NEW x \in S
    PROVE  /\ Longer(e, x) \in Seq(S) /\ Len(Longer(e, x)) = Len(e) + 1
           /\ \A k \in 0..(Len(e) + 1) : Start(Longer(e, x), k) =
                                           IF k \in 0..Len(e) THEN Start(e, k) ELSE Longer(e, x)
<1> DEFINE n == Len(e)
           u == Longer(e, x)
<1>1. n \in Nat /\ u \in Seq(S) /\ Len(u) = n + 1 /\ \A i \in 1..n : u[i] = e[i]
  BY DEF Longer
<1> HIDE DEF u
<1>2. ASSUME NEW k \in 0..n PROVE Start(u, k) = Start(e, k)
  <2> DEFINE v == Start(u, k)
             w == Start(e, k)
  <2>1. k \in 0..Len(u) /\ \A i \in 1..k : i \in 1..n
    BY <1>1
  <2>2. v \in Seq(S) /\ Len(v) = k /\ \A i \in 1..k : v[i] = u[i]
    BY <1>1, <2>1, Starts
  <2>3. w \in Seq(S) /\ Len(w) = k /\ \A i \in 1..k : w[i] = e[i]
    BY Starts
  <2> HIDE DEF v, w
  <2>4. \A i \in 1..Len(v) : v[i] = w[i]
    BY <1>1, <2>1, <2>2, <2>3
  <2>5. v = w
    BY <2>2, <2>3, <2>4, SameText
  <2> QED
    BY <2>5 DEF v, w
<1>3. Start(u, n + 1) = u
  <2> DEFINE v == Start(u, n + 1)
  <2>1. n + 1 \in 0..Len(u)
    BY <1>1
  <2>2. v \in Seq(S) /\ Len(v) = n + 1 /\ \A i \in 1..(n + 1) : v[i] = u[i]
    BY <1>1, <2>1, Starts
  <2> HIDE DEF v
  <2>3. v = u
    BY <1>1, <2>2, SameText
  <2> QED
    BY <2>3 DEF v
<1>4. \A k \in 0..(n + 1) : k \in 0..n \/ k = n + 1
  BY <1>1
<1>5. \A k \in 0..(n + 1) : Start(u, k) = IF k \in 0..n THEN Start(e, k) ELSE u
  BY <1>2, <1>3, <1>4
<1> QED
  BY <1>1, <1>5 DEF u

(* A text that leaves the quotes open at every place. *)
Inside(b, e) == \A k \in 0..Len(e) : Scan(b, Start(e, k)).quote = Quote

(* One more sign that leaves the quotes open. *)
LEMMA InsideGrows ==
    ASSUME NEW S, NEW b, NEW e \in Seq(S), NEW x \in S, Inside(b, e), Scan(b, Longer(e, x)).quote = Quote
    PROVE  Inside(b, Longer(e, x))
<1> DEFINE n == Len(e)
           u == Longer(e, x)
<1>1. n \in Nat /\ Len(u) = n + 1
      /\ \A k \in 0..(n + 1) : Start(u, k) = IF k \in 0..n THEN Start(e, k) ELSE u
  BY StartsOfLonger
<1>2. Scan(b, u).quote = Quote /\ \A k \in 0..n : Scan(b, Start(e, k)).quote = Quote
  BY DEF Inside
<1> HIDE DEF u, n
<1>3. \A k \in 0..(n + 1) : Scan(b, Start(u, k)).quote = Quote
  BY <1>1, <1>2
<1> QED
  BY <1>1, <1>3 DEF Inside, u

(* What is written of an argument leaves the quotes open throughout. *)
LEMMA EscapedStaysInside ==
    ASSUME NEW S, Marks \subseteq S, NEW a \in Nat
    PROVE  \A s \in Seq(S) : Inside(At(1, Quote, a), Escaped(s))
<1> DEFINE b == At(1, Quote, a)
           P == {s \in Seq(S) : Inside(b, Escaped(s))}
<1>1. b \in Scanning /\ b.quote = Quote /\ 1 \in Nat \ {0} /\ Quote # NoQuote /\ 1 \in Nat /\ 1 # 0
  <2>1. b \in Scanning /\ Quote # NoQuote
    BY OutsideScans
  <2>2. b.quote = Quote
    BY DEF At, Reached
  <2> HIDE DEF b
  <2> QED
    BY <2>1, <2>2
<1> HIDE DEF b
<1>2. <<>> \in P
  <2>1. <<>> \in Seq(S) /\ Escape \in S /\ Len(<<>>) = 0
    BY DEF Marks
  <2>2. Escaped(<<>>) = <<>>
    BY <2>1, EscapedGrows
  <2>3. Start(<<>>, 0) = <<>>
    <3>1. 0 \in 0..Len(<<>>)
      BY <2>1
    <3>2. Start(<<>>, 0) \in Seq(S) /\ Len(Start(<<>>, 0)) = 0
      BY <2>1, <3>1, Starts
    <3> QED
      BY <3>2
  <2>4. Scan(b, <<>>) = b
    BY <1>1, ScanOne
  <2>5. \A k \in 0..0 : k = 0
    OBVIOUS
  <2> QED
    BY <1>1, <2>1, <2>2, <2>3, <2>4, <2>5 DEF Inside
<1>3. ASSUME NEW v \in Seq(S), NEW x \in S, v \in P PROVE Longer(v, x) \in P
  <2> DEFINE e == Escaped(v)
             n == Len(e)
             m == a + n
  <2>1. e \in Seq(S) /\ Escaped(Longer(v, x)) = Writes(e, x) /\ Inside(b, e)
    BY <1>3, EscapedGrows
  <2>2. Scan(b, e) = At(1, Quote, a + Len(e))
    BY <1>1, ScanInside DEF b
  <2> HIDE DEF e
  <2>3. m \in Nat /\ Scan(b, e) = At(1, Quote, m) /\ m + 1 \in Nat
    BY <2>1, <2>2
  <2> HIDE DEF m, n
  <2>4. Longer(v, x) \in Seq(S) /\ Escape \in S /\ Code(x) \in S
    BY DEF Longer, Marks, Code
  <2>5. CASE x \in Special
    <3> DEFINE w == Longer(e, Escape)
    <3>1. w \in Seq(S)
      BY <2>1, <2>4, StartsOfLonger
    <3>2. Scan(b, w) = Behind(1, Quote, m + 1)
      <4>1. Scan(b, w) = ScanStep(Scan(b, e), Escape)
        BY <1>1, <2>1, <2>4, ScanGrows
      <4>2. ScanStep(At(1, Quote, m), Escape) = Behind(1, Quote, m + 1)
        BY <1>1, <2>3, ScanMoves
      <4> QED
        BY <2>3, <4>1, <4>2
    <3>3. Inside(b, w)
      <4>1. Scan(b, w).quote = Quote
        BY <3>2 DEF Behind, Reached
      <4> QED
        BY <2>1, <2>4, <4>1, InsideGrows
    <3> HIDE DEF w
    <3>4. Scan(b, Longer(w, Code(x))) = At(1, Quote, (m + 1) + 1)
      <4>1. Scan(b, Longer(w, Code(x))) = ScanStep(Scan(b, w), Code(x))
        BY <1>1, <2>4, <3>1, ScanGrows
      <4>2. ScanStep(Behind(1, Quote, m + 1), Code(x)) = At(1, Quote, (m + 1) + 1)
        BY <1>1, <2>3, ScanMoves
      <4> QED
        BY <3>2, <4>1, <4>2
    <3>5. Inside(b, Longer(w, Code(x)))
      <4>1. Scan(b, Longer(w, Code(x))).quote = Quote
        BY <3>4 DEF At, Reached
      <4> QED
        BY <2>4, <3>1, <3>3, <4>1, InsideGrows
    <3>6. Writes(e, x) = Longer(w, Code(x))
      BY <2>5 DEF Writes, w
    <3> QED
      BY <2>1, <2>4, <3>5, <3>6
  <2>6. CASE x \notin Special
    <3>1. x # Escape /\ x # Quote
      BY <2>6 DEF Special
    <3>2. Scan(b, Longer(e, x)) = At(1, Quote, m + 1)
      <4>1. Scan(b, Longer(e, x)) = ScanStep(Scan(b, e), x)
        BY <1>1, <2>1, ScanGrows
      <4>2. ScanStep(At(1, Quote, m), x) = At(1, Quote, m + 1)
        BY <1>1, <2>3, <3>1, ScanMoves
      <4> QED
        BY <2>3, <4>1, <4>2
    <3>3. Inside(b, Longer(e, x))
      <4>1. Scan(b, Longer(e, x)).quote = Quote
        BY <3>2 DEF At, Reached
      <4> QED
        BY <2>1, <4>1, InsideGrows
    <3>4. Writes(e, x) = Longer(e, x)
      BY <2>6 DEF Writes
    <3> QED
      BY <2>1, <2>4, <3>3, <3>4
  <2> QED
    BY <2>5, <2>6
<1> HIDE DEF P
<1>4. \A s \in Seq(S) : s \in P
  BY <1>2, <1>3, Along
<1> QED
  BY <1>4 DEF P, b

(* The quote that ends an argument is found, whatever quotes the argument   *)
(* holds itself.                                                            *)
LEMMA StringEnds ==
    ASSUME NEW S, Marks \subseteq S, NEW s \in Seq(S), NEW i \in Nat, NEW w \in Seq(S),
           Holds(s, i, Escaped(w)),
           NEW j \in Nat, j = i + Len(Escaped(w)), j + 1 <= Len(s), s[j + 1] = Quote
    PROVE  EndOfString(s, i) = j + 1
<1> DEFINE e == Escaped(w)
           n == Len(e)
           l == Len(s)
           b == At(1, Quote, i)
           Portion(k) == SubSeq(s, i + 1, k)
           ends == {k \in (i + 1)..l : Scan(b, Portion(k)).quote = NoQuote}
<1>1. e \in Seq(S)
  BY EscapesUndone
<1>2. /\ i + n <= l /\ (\A k \in 1..n : s[i + k] = e[k]) /\ j = i + n /\ j + 1 <= l
      /\ s[j + 1] = Quote
  BY DEF Holds
<1> HIDE DEF e
<1>3. n \in Nat /\ l \in Nat
  BY <1>1
<1>4. \A k \in i..l : /\ Portion(k) \in Seq(S) /\ Len(Portion(k)) = k - i
                      /\ \A h \in 1..(k - i) : Portion(k)[h] = s[i + h]
  <2>1. i \in 0..l
    BY <1>2, <1>3
  <2> QED
    BY <2>1, PiecesOf
<1> HIDE DEF Portion, n, l
<1>5. ASSUME NEW k \in (i + 1)..j PROVE Scan(b, Portion(k)).quote = Quote
  <2> DEFINE v == Portion(k)
             h == k - i
             u == Start(e, h)
  <2>1. k \in i..l /\ h \in 0..n /\ \A g \in 1..h : g \in 1..n
    BY <1>2, <1>3
  <2>2. v \in Seq(S) /\ Len(v) = h /\ \A g \in 1..h : v[g] = s[i + g]
    BY <1>4, <2>1
  <2> HIDE DEF h, v
  <2>3. u \in Seq(S) /\ Len(u) = h /\ \A g \in 1..h : u[g] = e[g]
    BY <1>1, <2>1, Starts DEF n
  <2> HIDE DEF u
  <2>4. \A g \in 1..Len(v) : v[g] = u[g]
    BY <1>2, <2>1, <2>2, <2>3
  <2>5. v = u
    BY <2>2, <2>3, <2>4, SameText
  <2>6. Scan(b, u).quote = Quote
    <3>1. Inside(b, e)
      BY EscapedStaysInside DEF e, b
    <3> QED
      BY <2>1, <3>1 DEF Inside, u, n
  <2> QED
    BY <2>5, <2>6 DEF v
<1>6. Scan(b, Portion(j + 1)).quote = NoQuote
  <2> DEFINE v == Portion(j + 1)
             u == Longer(e, Quote)
  <2>1. Quote \in S /\ 1 \in Nat \ {0} /\ 1 \in Nat /\ 1 # 0 /\ j + 1 \in i..l /\ (j + 1) - i = n + 1
        /\ NoQuote # Quote /\ Escape # Quote
    <3>1. Quote \in S
      BY DEF Marks
    <3>2. NoQuote # Quote /\ Escape # Quote
      BY OutsideScans
    <3>3. j + 1 \in i..l /\ (j + 1) - i = n + 1
      BY <1>2, <1>3
    <3> QED
      BY <3>1, <3>2, <3>3
  <2>2. v \in Seq(S) /\ Len(v) = n + 1 /\ \A g \in 1..(n + 1) : v[g] = s[i + g]
    BY <1>4, <2>1
  <2> HIDE DEF v
  <2>3. u \in Seq(S) /\ Len(u) = n + 1 /\ u[n + 1] = Quote /\ \A g \in 1..n : u[g] = e[g]
    BY <1>1, <2>1 DEF Longer, n
  <2>4. ASSUME NEW g \in 1..(n + 1) PROVE v[g] = u[g]
    <3>1. CASE g = n + 1
      <4>1. i + g = j + 1
        BY <1>2, <1>3, <3>1
      <4> QED
        BY <1>2, <2>2, <2>3, <3>1, <4>1
    <3>2. CASE g # n + 1
      <4>1. g \in 1..n
        BY <1>3, <3>2
      <4> HIDE DEF u
      <4> QED
        BY <1>2, <2>2, <2>3, <4>1
    <3> QED
      BY <3>1, <3>2
  <2>5. v = u
    <3> HIDE DEF u
    <3> QED
      BY <2>2, <2>3, <2>4, SameText
  <2>6. b \in Scanning
    BY OutsideScans
  <2>7. Scan(b, u) = ScanStep(Scan(b, e), Quote)
    BY <1>1, <2>1, <2>6, ScanGrows
  <2>8. Scan(b, e) = At(1, Quote, i + Len(e))
    BY <2>1, ScanInside DEF e
  <2>9. Scan(b, e) = At(1, Quote, j)
    BY <1>2, <2>8 DEF n
  <2>10. ScanStep(At(1, Quote, j), Quote) = At(1, NoQuote, j + 1)
    BY <2>1, ScanMoves
  <2>11. At(1, NoQuote, j + 1).quote = NoQuote
    BY DEF At, Reached
  <2> QED
    BY <2>5, <2>7, <2>9, <2>10, <2>11 DEF v
<1>7. NoQuote # Quote
  BY OutsideScans
<1> HIDE DEF b
<1>8. j + 1 \in ends /\ \A k \in ends : j + 1 <= k
  <2>1. j + 1 \in (i + 1)..l
    BY <1>2, <1>3
  <2>2. ASSUME NEW k \in ends PROVE j + 1 <= k
    <3>1. k \in (i + 1)..l /\ Scan(b, Portion(k)).quote = NoQuote
      OBVIOUS
    <3>2. k \notin (i + 1)..j
      BY <1>5, <1>7, <3>1
    <3> QED
      BY <1>2, <1>3, <3>1, <3>2
  <2> QED
    BY <1>6, <2>1, <2>2
<1>9. ends \subseteq Nat
  BY <1>3
<1>10. EndOfString(s, i) = IF ends = {} THEN 0 ELSE CHOOSE k \in ends : \A h \in ends : k <= h
  BY DEF EndOfString, b, Portion, l, At, Reached, No
<1> HIDE DEF ends
<1>11. \A k \in ends : (\A h \in ends : k <= h) => k = j + 1
  BY <1>8, <1>9
<1> DEFINE the == CHOOSE k \in ends : \A h \in ends : k <= h
<1>12. the \in ends /\ \A h \in ends : the <= h
  BY <1>8
<1> HIDE DEF the
<1>13. the = j + 1
  BY <1>11, <1>12
<1> QED
  BY <1>8, <1>10, <1>13 DEF the

(* What holds from a on holds at b. *)
LEMMA UpFrom ==
    ASSUME NEW a \in Nat, NEW b \in Nat, a <= b, NEW D, a \in D,
           \A k \in a..b : k \in D /\ k < b => k + 1 \in D
    PROVE  b \in D
<1> DEFINE n == b - a
           same == {k \in 0..n : a + k \in D}
<1>1. n \in Nat /\ 0 \in 0..n /\ n \in 0..n /\ a + 0 = a /\ a + n = b
  OBVIOUS
<1> HIDE DEF n
<1>2. 0 \in same
  BY <1>1
<1>3. \A k \in 0..n : k \in same /\ k < n => k + 1 \in same
  <2> SUFFICES ASSUME NEW k \in 0..n, k \in same, k < n PROVE k + 1 \in same
    OBVIOUS
  <2>1. a + k \in a..b /\ a + k < b /\ a + k \in D /\ a + (k + 1) = (a + k) + 1 /\ k + 1 \in 0..n
    BY <1>1
  <2> QED
    BY <2>1
<1> HIDE DEF same
<1>4. \A k \in 0..n : k \in same
  BY <1>1, <1>2, <1>3, UpTo
<1>5. a + n \in D
  BY <1>1, <1>4 DEF same
<1> QED
  BY <1>1, <1>5

(* What stands at a place. *)
Shows(s, i, c) == s[i] = c

(* A pair more, and the text between two places. *)
With(a, key, v) == Append(a, <<key, v>>)
Between(s, i, j) == SubSeq(s, i, j - 1)

(* _parse_tool_args: what has been read, and up to where. *)
Got(p, a) == [pos |-> p, args |-> a]

(* A place where no pair begins, or that has been read. *)
LEMMA PairIdle ==
    ASSUME NEW s, NEW i, NEW p, NEW a, i < p \/ s[i] \notin Keys
    PROVE  PairStep(s, Got(p, a), i) = Got(p, a)
<1>1. Got(p, a).pos = p
  BY DEF Got
<1> QED
  BY <1>1 DEF PairStep

(* A place where a key and a literal begin. *)
LEMMA PairLiteral ==
    ASSUME NEW s, NEW i \in Nat, NEW p \in Nat, NEW a, ~(i < p), NEW key \in Keys, Shows(s, i, key),
           NEW n \in Nat, Len(s) = n, i + 2 <= n, NEW h, h = i + 1, Shows(s, h, "="),
           NEW g, g = i + 2, NEW c \in Literals, Shows(s, g, c), NEW r, r = i + 3, NEW b, b = With(a, key, Lit(c))
    PROVE  PairStep(s, Got(p, a), i) = Got(r, b)
<1>1. Got(p, a).pos = p /\ Got(p, a).args = a
  BY DEF Got
<1>2. ~(i + 2 > Len(s)) /\ ~(i < p) /\ s[i] \in Keys /\ s[i + 2] \in Literals
      /\ s[i] = key /\ s[i + 1] = "=" /\ s[i + 2] = c
  BY DEF Shows
<1>3. PairStep(s, Got(p, a), i) = [pos |-> i + 3, args |-> Append(a, <<s[i], Lit(s[i + 2])>>)]
  BY <1>1, <1>2 DEF PairStep
<1> QED
  BY <1>2, <1>3 DEF Got, With

(* A place where a key and a quoted string begin. *)
LEMMA PairString ==
    ASSUME NEW s, NEW i \in Nat, NEW p \in Nat, NEW a, ~(i < p), NEW key \in Keys, Shows(s, i, key),
           NEW n \in Nat, Len(s) = n, i + 2 <= n, NEW h, h = i + 1, Shows(s, h, "="),
           NEW g, g = i + 2, Shows(s, g, Quote), Quote \notin Literals,
           NEW e \in Nat, EndOfString(s, g) = e, e # 0, NEW t, t = i + 3, NEW w, w = Unescaped(Between(s, t, e)),
           NEW r, r = e + 1, NEW b, b = With(a, key, Str(w))
    PROVE  PairStep(s, Got(p, a), i) = Got(r, b)
<1>1. Got(p, a).pos = p /\ Got(p, a).args = a
  BY DEF Got
<1>2. ~(i + 2 > Len(s)) /\ ~(i < p) /\ s[i] \in Keys /\ s[i + 2] \notin Literals /\ s[i + 2] = Quote
      /\ s[i] = key /\ s[i + 1] = "="
  BY DEF Shows
<1>3. PairStep(s, Got(p, a), i) =
          LET e2 == EndOfString(s, i + 2)
          IN IF e2 = 0 THEN Got(p, a)
             ELSE [pos |-> e2 + 1, args |-> Append(a, <<s[i], Str(Unescaped(SubSeq(s, i + 3, e2 - 1)))>>)]
  BY <1>1, <1>2 DEF PairStep
<1>4. EndOfString(s, i + 2) = e
  OBVIOUS
<1>5. PairStep(s, Got(p, a), i) = [pos |-> e + 1, args |-> Append(a, <<s[i], Str(w)>>)]
  <2>1. w = Unescaped(SubSeq(s, i + 3, e - 1))
    BY DEF Between
  <2> QED
    BY <1>2, <1>3, <1>4, <2>1
<1> QED
  BY <1>2, <1>5 DEF Got, With

(* How long two texts are together. *)
LEMMA JoinedLen ==
    ASSUME NEW S, NEW v \in Seq(S), NEW w \in Seq(S), NEW u, u = v \o w
    PROVE  u \in Seq(S) /\ Len(u) = Len(v) + Len(w) /\ Len(v) \in Nat /\ Len(w) \in Nat
OBVIOUS

Pairings(S) == {Got(p, a) : p \in Nat, a \in Arguments(S)}

(* What is read of a string is a text again. *)
LEMMA UnescapedIsText ==
    ASSUME NEW S, Marks \subseteq S, NEW s \in Seq(S)
    PROVE  Unescaped(s) \in Seq(S) /\ Unescaped(s) = Undone(s).text
<1>1. Undone(s) \in Reading(S)
  BY UndoneGrows DEF Marks
<1>2. Unescaped(s) = Undone(s).text
  BY DEF Unescaped, Undone
<1> QED
  BY <1>1, <1>2 DEF Reading

(* The quote that ends a string lies behind the one that begins it. *)
LEMMA EndIsInside ==
    ASSUME NEW S, NEW s \in Seq(S), NEW i \in Nat, EndOfString(s, i) # 0
    PROVE  EndOfString(s, i) \in (i + 1)..Len(s)
<1> DEFINE b == [depth |-> 1, quote |-> Quote, escaped |-> FALSE, at |-> i]
           ends == {j \in (i + 1)..Len(s) : Scan(b, SubSeq(s, i + 1, j)).quote = NoQuote}
<1>1. EndOfString(s, i) = IF ends = {} THEN 0 ELSE CHOOSE j \in ends : \A k \in ends : j <= k
  BY DEF EndOfString
<1>2. ends \subseteq (i + 1)..Len(s) /\ ends \in SUBSET Nat
  OBVIOUS
<1> HIDE DEF ends
<1>3. ends # {}
  BY <1>1
<1>4. \E j \in ends : \A k \in ends : j <= k
  BY <1>2, <1>3, Least
<1> DEFINE the == CHOOSE j \in ends : \A k \in ends : j <= k
<1>5. the \in ends
  BY <1>4
<1>6. EndOfString(s, i) = the
  BY <1>1, <1>3
<1> HIDE DEF the
<1> QED
  BY <1>2, <1>5, <1>6

(* A step of _parse_tool_args keeps to arguments. *)
LEMMA PairStays ==
    ASSUME NEW S, Signs \subseteq S, NEW s \in Seq(S), NEW st \in Pairings(S), NEW i \in 1..Len(s)
    PROVE  PairStep(s, st, i) \in Pairings(S)
<1>1. PICK p \in Nat, a \in Arguments(S) : st = Got(p, a)
  BY DEF Pairings
<1>2. st.pos = p /\ st.args = a
  BY <1>1 DEF Got
<1>3. \A q \in Nat, c \in Arguments(S) : Got(q, c) \in Pairings(S)
  BY DEF Pairings
<1>4. \A k \in Keys, v \in Values(S) : Append(a, <<k, v>>) \in Arguments(S)
  BY DEF Arguments
<1> DEFINE e == EndOfString(s, i + 2)
           u == SubSeq(s, i + 3, e - 1)
<1>5. CASE i < p \/ s[i] \notin Keys \/ i + 2 > Len(s)
  BY <1>1, <1>2, <1>5 DEF PairStep
<1>6. CASE ~(i < p \/ s[i] \notin Keys \/ i + 2 > Len(s))
  <2>1. s[i] \in Keys /\ i + 2 <= Len(s) /\ i + 3 \in Nat /\ i + 2 \in Nat
    BY <1>6
  <2>2. CASE s[i + 1] = "=" /\ s[i + 2] \in Literals
    <3>1. PairStep(s, st, i) = Got(i + 3, Append(a, <<s[i], Lit(s[i + 2])>>))
      BY <1>2, <1>6, <2>2 DEF PairStep, Got
    <3>2. Lit(s[i + 2]) \in Values(S)
      BY <2>2 DEF Values
    <3> QED
      BY <1>3, <1>4, <2>1, <3>1, <3>2
  <2>3. CASE s[i + 1] = "=" /\ s[i + 2] \notin Literals /\ s[i + 2] = Quote /\ e # 0
    <3>1. PairStep(s, st, i) = Got(e + 1, Append(a, <<s[i], Str(Unescaped(u))>>))
      BY <1>2, <1>6, <2>3 DEF PairStep, Got
    <3>2. e \in ((i + 2) + 1)..Len(s)
      BY <2>1, <2>3, EndIsInside
    <3>3. u \in Seq(S)
      <4> HIDE DEF e
      <4>1. i + 3 \in Int /\ e - 1 \in Int /\ \A k \in (i + 3)..(e - 1) : s[k] \in S
        BY <3>2
      <4> QED
        BY <4>1, SubSeqProperties
    <3> HIDE DEF u, e
    <3>4. Unescaped(u) \in Seq(S)
      BY <3>3, UnescapedIsText DEF Signs
    <3>5. Str(Unescaped(u)) \in Values(S) /\ e + 1 \in Nat
      BY <3>2, <3>4 DEF Values
    <3> QED
      BY <1>3, <1>4, <2>1, <3>1, <3>5
  <2>4. CASE s[i + 1] # "=" \/ (s[i + 2] \notin Literals /\ (s[i + 2] # Quote \/ e = 0))
    BY <1>1, <1>2, <1>6, <2>4 DEF PairStep
  <2> QED
    BY <2>2, <2>3, <2>4
<1> QED
  BY <1>5, <1>6

(* _parse_tool_args goes through a text place by place. *)
LEMMA PairsRun ==
    ASSUME NEW S, Signs \subseteq S, NEW s \in Seq(S)
    PROVE  \E f \in [0..Len(s) -> Pairings(S)] :
              /\ f[0] = Got(1, <<>>) /\ Pairs(s) = f[Len(s)].args
              /\ \A i \in 1..Len(s) : f[i] = PairStep(s, f[i - 1], i)
<1> DEFINE n == Len(s)
           V == Pairings(S)
           b == Got(1, <<>>)
           step == [p \in V \X (1..n) |-> PairStep(s, p[1], p[2])]
           Is(f) == f = [i \in 0..n |-> IF i = 0 THEN b ELSE PairStep(s, f[i - 1], i)]
           the == CHOOSE f : Is(f)
<1>1. n \in Nat /\ \A i \in 1..n : i \in 1..Len(s)
  OBVIOUS
<1>2. Pairs(s) = the[n].args
  BY DEF Pairs, Got
<1> HIDE DEF n
<1>3. b \in V
  <2> DEFINE a == <<>>
  <2>1. a \in Arguments(S)
    BY DEF Arguments
  <2>2. V = {Got(p, c) : p \in Nat, c \in Arguments(S)} /\ b = Got(1, a)
    BY DEF Pairings
  <2> HIDE DEF a, b, V
  <2>3. \A p \in Nat, c \in Arguments(S) : Got(p, c) \in V
    BY <2>2
  <2>4. Got(1, a) \in V
    BY <2>1, <2>3
  <2> QED
    BY <2>2, <2>4
<1>4. \A st \in V, i \in 1..n : PairStep(s, st, i) \in V
  BY <1>1, PairStays
<1> HIDE DEF V, b
<1>5. step \in [V \X (1..n) -> V] /\ \A st \in V, i \in 1..n : step[<<st, i>>] = PairStep(s, st, i)
  BY <1>4
<1> HIDE DEF step
<1>6. PICK f \in [0..n -> V] : RunsBy(f, n, b, step)
  BY <1>1, <1>3, <1>5, RunExists
<1>7. f[0] = b /\ \A i \in 1..n : f[i] = PairStep(s, f[i - 1], i)
  <2>1. 0 \in 0..n /\ \A i \in 1..n : i \in 0..n /\ i - 1 \in 0..n /\ i # 0
    BY <1>1
  <2>2. f[0] = b /\ \A i \in 1..n : f[i] = step[<<f[i - 1], i>>]
    BY <1>6, <2>1 DEF RunsBy
  <2> QED
    BY <1>5, <1>6, <2>1, <2>2
<1>8. Is(f)
  <2>1. ASSUME NEW i \in 0..n PROVE f[i] = IF i = 0 THEN b ELSE PairStep(s, f[i - 1], i)
    <3>1. i = 0 \/ i \in 1..n
      BY <1>1
    <3> QED
      BY <1>7, <3>1
  <2>2. f = [i \in 0..n |-> f[i]]
    BY <1>6
  <2> QED
    BY <2>1, <2>2
<1>9. Is(the)
  <2> HIDE DEF Is
  <2> QED
    BY <1>8
<1> HIDE DEF the
<1>10. the[0] = b /\ \A i \in 1..n : the[i] = PairStep(s, the[i - 1], i)
  <2>1. 0 \in 0..n /\ \A i \in 1..n : i \in 0..n /\ i # 0
    BY <1>1
  <2> QED
    BY <1>9, <2>1
<1> HIDE DEF Is
<1>11. the[n] = f[n]
  <2> DEFINE same == {i \in 0..n : the[i] = f[i]}
  <2>1. 0 \in same
    BY <1>1, <1>7, <1>10
  <2>2. \A k \in 0..n : k \in same /\ k < n => k + 1 \in same
    <3> SUFFICES ASSUME NEW k \in 0..n, k \in same, k < n PROVE k + 1 \in same
      OBVIOUS
    <3>1. k + 1 \in 1..n /\ k + 1 \in 0..n /\ (k + 1) - 1 = k /\ the[k] = f[k]
      BY <1>1
    <3>2. the[k + 1] = PairStep(s, the[k], k + 1) /\ f[k + 1] = PairStep(s, f[k], k + 1)
      BY <1>7, <1>10, <3>1
    <3> QED
      BY <3>1, <3>2
  <2> HIDE DEF same
  <2>3. \A k \in 0..n : k \in same
    BY <1>1, <2>1, <2>2, UpTo
  <2>4. n \in 0..n
    BY <1>1
  <2> QED
    BY <2>3, <2>4 DEF same
<1> QED
  BY <1>2, <1>6, <1>7, <1>11 DEF n, V, b


(* A text of two signs. *)
LEMMA PairOfSigns ==
    ASSUME NEW S, NEW c \in S, NEW x \in S
    PROVE  <<c, x>> \in Seq(S) /\ Len(<<c, x>>) = 2 /\ <<c, x>>[1] = c /\ <<c, x>>[2] = x
OBVIOUS

(* A text of one sign. *)
LEMMA OneSign ==
    ASSUME NEW S, NEW c \in S
    PROVE  <<c>> \in Seq(S) /\ Len(<<c>>) = 1 /\ <<c>>[1] = c
OBVIOUS

(* Where the arguments of a call lie. *)
LEMMA BodyPlaces ==
    ASSUME NEW S, Signs \subseteq S, NEW args \in Arguments(S)
    PROVE  /\ Body(args) \in Seq(S)
           /\ \E o \in [0..Len(args) -> Nat] :
                 /\ o[0] = 0 /\ Len(Body(args)) = o[Len(args)]
                 /\ \A i \in 1..Len(args) :
                        o[i] = o[i - 1] + Len(Piece(args, i)) /\ Holds(Body(args), o[i - 1], Piece(args, i))
<1> DEFINE n == Len(args)
           t == [i \in 1..n |-> Piece(args, i)]
<1>1. n \in Nat /\ DOMAIN args = 1..n
  BY DEF Arguments
<1>2. \A i \in 1..n : t[i] \in Seq(S) /\ t[i] = Piece(args, i)
  BY PieceIsBalanced
<1>3. Body(args) = FlattenSeq(t)
  BY <1>1 DEF Body
<1>4. t \in [1..n -> Seq(S)]
  BY <1>2
<1> HIDE DEF n, t
<1>5. t \in Seq(Seq(S)) /\ Len(t) = n
  BY <1>1, <1>4
<1>6. /\ FlattenSeq(t) \in Seq(S)
      /\ \E o \in [0..n -> Nat] :
            /\ o[0] = 0 /\ Len(FlattenSeq(t)) = o[n]
            /\ \A i \in 1..n : o[i] = o[i - 1] + Len(t[i]) /\ Holds(FlattenSeq(t), o[i - 1], t[i])
  BY <1>5, FlattenPlaces
<1> QED
  BY <1>2, <1>3, <1>6 DEF n

(* One pair is read where it was written. *)
LEMMA PairRead ==
    ASSUME NEW S, Signs \subseteq S, NEW args \in Arguments(S), NEW i \in 1..Len(args),
           NEW s \in Seq(S), NEW h \in Nat, Holds(s, h, Piece(args, i)), NEW l \in Nat,
           l = h + Len(Piece(args, i)),
           NEW f, f[h] = Got(h + 1, Start(args, i - 1)),
           \A j \in (h + 1)..l : f[j] = PairStep(s, f[j - 1], j)
    PROVE  f[l] = Got(l + 1, Append(Start(args, i - 1), args[i]))
<1> DEFINE key == args[i][1]
           v == args[i][2]
           a == Start(args, i - 1)
           sep == IF i = 1 THEN <<>> ELSE <<",", " ">>
           left == <<key, "=">>
           ren == Rendered(v)
           m == h + Len(sep)
<1>1. args[i] \in Keys \X Values(S) /\ args[i] = <<key, v>> /\ key \in Keys /\ v \in Values(S)
  <2>1. args[i] \in Keys \X Values(S)
    BY DEF Arguments
  <2> QED
    BY <2>1
<1>2. key \in S /\ "=" \in S /\ "," \in S /\ " " \in S /\ "," \notin Keys /\ " " \notin Keys
      /\ Quote \notin Literals /\ Marks \subseteq S
  <2>1. "," \notin Keys /\ " " \notin Keys
    BY DEF Keys
  <2>2. Quote \notin Literals
    BY DEF Literals, Quote
  <2>3. "=" \in S /\ "," \in S /\ " " \in S /\ Marks \subseteq S /\ Keys \subseteq S
    BY DEF Signs
  <2> QED
    BY <1>1, <2>1, <2>2, <2>3
<1>3. ren \in Seq(S)
  BY <1>1, RenderedIsBalanced
<1>4. Piece(args, i) = (sep \o left) \o ren
  BY DEF Piece
<1>5. a \in Arguments(S)
  <2>1. i - 1 \in 0..Len(args) /\ args \in Seq(Keys \X Values(S))
    BY DEF Arguments
  <2> QED
    BY <2>1, Starts DEF Arguments
<1> HIDE DEF key, v, a, ren
<1>6. /\ sep \in Seq(S) /\ Len(sep) \in {0, 2} /\ \A k \in 1..Len(sep) : sep[k] \notin Keys
      /\ left \in Seq(S) /\ Len(left) = 2 /\ left[1] = key /\ left[2] = "="
  <2>1. left \in Seq(S) /\ Len(left) = 2 /\ left[1] = key /\ left[2] = "="
    BY <1>2, PairOfSigns
  <2> HIDE DEF left
  <2>2. CASE i = 1
    BY <2>1, <2>2
  <2>3. CASE i # 1
    <3> DEFINE two == <<",", " ">>
    <3>1. two \in Seq(S) /\ Len(two) = 2 /\ two[1] = "," /\ two[2] = " "
      BY <1>2, PairOfSigns
    <3>2. \A k \in 1..2 : k = 1 \/ k = 2
      OBVIOUS
    <3>3. sep = two
      BY <2>3
    <3> HIDE DEF two, sep
    <3> QED
      BY <1>2, <2>1, <3>1, <3>2, <3>3
  <2> QED
    BY <2>2, <2>3
<1> HIDE DEF sep, left
<1> DEFINE sl == sep \o left
<1>7. sl \in Seq(S) /\ Len(sl) = Len(sep) + 2 /\ Len(sl \o ren) = (Len(sep) + 2) + Len(ren)
  <2>1. sep \in Seq(S) /\ left \in Seq(S) /\ Len(left) = 2
    BY <1>6
  <2> DEFINE all == sl \o ren
  <2>2. sl = sep \o left /\ all = sl \o ren
    OBVIOUS
  <2> HIDE DEF sl, all
  <2>6. sep \in Seq(S)
    BY <2>1
  <2>7. left \in Seq(S)
    BY <2>1
  <2>8. sl = sep \o left
    BY <2>2
  <2>3. sl \in Seq(S) /\ Len(sl) = Len(sep) + Len(left)
    BY ONLY <2>6, <2>7, <2>8, JoinedLen
  <2>4. Len(all) = Len(sl) + Len(ren)
    BY <1>3, <2>2, <2>3, JoinedLen
  <2>5. Len(all) = (Len(sep) + 2) + Len(ren)
    BY <2>1, <2>3, <2>4
  <2> QED
    BY <2>1, <2>3, <2>5 DEF all
<1>8. Holds(s, h, sl \o ren)
  BY <1>4
<1>9. Holds(s, h, sl) /\ Holds(s, h + Len(sl), ren)
  <2> HIDE DEF sl
  <2> QED
    BY <1>3, <1>7, <1>8, HoldsSplit
<1>10. Holds(s, h, sep) /\ Holds(s, h + Len(sep), left)
  BY <1>6, <1>9, HoldsSplit
<1> DEFINE q == m + 2
<1>11. /\ m \in Nat /\ m >= h /\ q \in Nat /\ l = q + Len(ren) /\ h + Len(sl) = q /\ Len(ren) \in Nat
       /\ Len(s) \in Nat
  <2>1. Len(sep) \in Nat /\ Len(ren) \in Nat
    BY <1>3, <1>6
  <2>2. l = h + Len(sl \o ren)
    BY <1>4
  <2> HIDE DEF sl
  <2> QED
    BY <1>7, <2>1, <2>2
<1>12. Holds(s, q, ren) /\ Holds(s, m, left)
  BY <1>9, <1>10, <1>11
<1> HIDE DEF sl
<1>13. s[m + 1] = key /\ s[m + 2] = "=" /\ q + Len(ren) <= Len(s)
  BY <1>6, <1>12 DEF Holds
<1>14. \A j \in (h + 1)..m : s[j] \notin Keys
  <2> SUFFICES ASSUME NEW j \in (h + 1)..m PROVE s[j] \notin Keys
    OBVIOUS
  <2>1. j - h \in 1..Len(sep) /\ h + (j - h) = j
    BY <1>6
  <2>2. s[h + (j - h)] = sep[j - h]
    BY <1>10, <2>1 DEF Holds
  <2> QED
    BY <1>6, <2>1, <2>2
<1> HIDE DEF m, q
<1> DEFINE st == Got(h + 1, a)
<1>15. f[m] = st
  <2>1. f[h] = st
    BY DEF a
  <2>2. ASSUME NEW j \in (h + 1)..m, f[j - 1] = st PROVE f[j] = st
    <3>1. j \in (h + 1)..l /\ j \in Nat /\ h + 1 \in Nat
      BY <1>11 DEF q
    <3>2. f[j] = PairStep(s, st, j)
      BY <2>2, <3>1
    <3> DEFINE p == h + 1
    <3>4. s[j] \notin Keys
      BY <1>14
    <3> HIDE DEF p
    <3>5. PairStep(s, Got(p, a), j) = Got(p, a)
      BY <3>4, PairIdle
    <3>3. PairStep(s, st, j) = st
      BY <3>5 DEF p
    <3> QED
      BY <3>2, <3>3
  <2> HIDE DEF st
  <2>4. m \in Nat /\ h \in Nat /\ h <= m
    BY <1>11
  <2> DEFINE idle == {k \in h..m : f[k] = st}
  <2>3. \A k \in h..m : k \in idle /\ k < m => k + 1 \in idle
    <3> SUFFICES ASSUME NEW k \in h..m, k \in idle, k < m PROVE k + 1 \in idle
      OBVIOUS
    <3>1. k + 1 \in (h + 1)..m /\ (k + 1) - 1 = k /\ f[k] = st /\ k + 1 \in h..m
      BY <2>4
    <3>2. f[k + 1] = st
      BY <2>2, <3>1
    <3> QED
      BY <3>1, <3>2
  <2>5. h \in idle
    BY <2>1, <2>4
  <2> HIDE DEF idle
  <2>6. m \in idle
    BY ONLY <2>3, <2>4, <2>5, UpFrom
  <2> QED
    BY <2>6 DEF idle
<1> DEFINE x == m + 1
           got == Got(l + 1, Append(a, args[i]))
<1>16. /\ x \in Nat /\ h + 1 \in Nat /\ ~(x < h + 1) /\ s[x] = key /\ x + 1 = m + 2 /\ s[x + 1] = "="
       /\ x + 2 = q + 1 /\ x - 1 = m
  BY <1>11, <1>13 DEF q
<1> DEFINE p == h + 1
<1> HIDE DEF x, p
<1>17. x + 2 <= l /\ PairStep(s, st, x) = got
  <2>1. ASSUME NEW c \in Literals, v = Lit(c) PROVE x + 2 <= l /\ PairStep(s, st, x) = got
    <3>1. v.kind = "literal" /\ v.text = <<c>>
      BY <2>1 DEF Lit
    <3>2. ren = <<c>>
      BY <3>1 DEF Rendered, ren
    <3>3. Len(ren) = 1 /\ ren[1] = c
      BY <3>2
    <3>4. s[q + 1] = c
      BY <1>12, <3>3 DEF Holds
    <3>5. s[x + 2] = c /\ x + 2 <= Len(s) /\ x + 3 = l + 1 /\ x + 2 <= l
      BY <1>11, <1>13, <1>16, <3>3, <3>4
    <3> DEFINE r == l + 1
               b == Append(a, args[i])
               n == Len(s)
               y == x + 1
               g == x + 2
    <3>6. r = x + 3 /\ x + 2 <= n /\ Len(s) = n /\ n \in Nat /\ y = x + 1 /\ g = x + 2
      BY <1>11, <3>5
    <3>7. b = With(a, key, Lit(c))
      BY <1>1, <2>1 DEF With
    <3>8. x \in Nat /\ p \in Nat /\ ~(x < p) /\ Shows(s, x, key) /\ key \in Keys /\ Shows(s, y, "=")
      BY <1>1, <1>16 DEF p, Shows
    <3>9. c \in Literals /\ Shows(s, g, c)
      BY <2>1, <3>5 DEF Shows
    <3> HIDE DEF r, b, n, y, g
    <3>10. PairStep(s, Got(p, a), x) = Got(r, b)
      BY ONLY <3>6, <3>7, <3>8, <3>9, PairLiteral
    <3> QED
      BY <3>5, <3>10 DEF r, b, p
  <2>2. ASSUME NEW w \in Seq(S), v = Str(w) PROVE x + 2 <= l /\ PairStep(s, st, x) = got
    <3> DEFINE e == Escaped(w)
               qq == <<Quote>>
               qe == qq \o e
    <3>1. v.kind = "string" /\ v.text = w
      BY <2>2 DEF Str
    <3>2. ren = qe \o qq
      BY <3>1 DEF Rendered, ren
    <3>3. e \in Seq(S) /\ qq \in Seq(S) /\ Len(qq) = 1 /\ qq[1] = Quote
      <4>1. Quote \in S
        BY <1>2 DEF Marks
      <4>2. e \in Seq(S)
        BY <1>2, EscapesUndone
      <4> QED
        BY <4>1, <4>2, OneSign
    <3> HIDE DEF e, qq
    <3>4. qe \in Seq(S) /\ Len(qe) = 1 + Len(e) /\ Len(e) \in Nat /\ Len(ren) = Len(e) + 2
      <4>1. qe = qq \o e
        OBVIOUS
      <4> HIDE DEF qe
      <4>2. qe \in Seq(S) /\ Len(qe) = Len(qq) + Len(e) /\ Len(e) \in Nat
        <5>1. qq \in Seq(S) /\ e \in Seq(S)
          BY <3>3
        <5> QED
          BY ONLY <4>1, <5>1, JoinedLen
      <4>3. Len(ren) = Len(qe) + Len(qq)
        <5>1. qq \in Seq(S) /\ qe \in Seq(S)
          BY <3>3, <4>2
        <5> QED
          BY ONLY <3>2, <5>1, JoinedLen
      <4> QED
        BY <3>3, <4>2, <4>3
    <3>5. Holds(s, q, qe) /\ Holds(s, q + Len(qe), qq)
      <4> HIDE DEF qe
      <4>1. Holds(s, q, qe \o qq)
        BY <1>12, <3>2
      <4> QED
        BY <1>11, <3>3, <3>4, <4>1, HoldsSplit
    <3>6. Holds(s, q, qq) /\ Holds(s, q + Len(qq), e)
      BY <1>11, <3>3, <3>5, HoldsSplit
    <3> DEFINE g == q + 1
               z == g + Len(e)
    <3>7. g \in Nat /\ z \in Nat /\ q + Len(qq) = g /\ q + Len(qe) = z /\ z + 1 = l /\ z + 1 <= Len(s)
      <4>1. q \in Nat /\ Len(s) \in Nat /\ l = q + Len(ren) /\ q + Len(ren) <= Len(s)
        BY <1>11, <1>13
      <4>2. Len(qq) = 1 /\ Len(qe) = 1 + Len(e) /\ Len(e) \in Nat /\ Len(ren) = Len(e) + 2
        BY <3>3, <3>4
      <4> HIDE DEF qe
      <4> QED
        BY ONLY <4>1, <4>2
    <3> HIDE DEF qe
    <3>8. s[g] = Quote /\ s[z + 1] = Quote /\ Holds(s, g, e)
      <4>1. 1 \in 1..Len(qq)
        BY <3>3
      <4>2. s[q + 1] = qq[1] /\ s[z + 1] = qq[1]
        <5>1. Holds(s, q, qq) /\ Holds(s, z, qq)
          BY <3>5, <3>6, <3>7
        <5> HIDE DEF z
        <5> QED
          BY <4>1, <5>1 DEF Holds
      <4>3. Holds(s, g, e)
        BY <3>6, <3>7
      <4> QED
        BY <3>3, <4>2, <4>3
    <3>9. x + 2 = g /\ x + 3 = g + 1
      BY <1>16
    <3>14. z = g + Len(e) /\ z >= g
      <4>1. g \in Nat /\ Len(e) \in Nat
        BY <3>4, <3>7
      <4> QED
        BY ONLY <4>1
    <3> HIDE DEF g, z
    <3>10. EndOfString(s, g) = z + 1
      <4>1. g \in Nat /\ z \in Nat /\ z = g + Len(Escaped(w)) /\ z + 1 <= Len(s) /\ s[z + 1] = Quote
            /\ Holds(s, g, Escaped(w))
        BY <3>7, <3>8, <3>14 DEF e
      <4>2. Marks \subseteq S
        BY <1>2
      <4> QED
        BY <4>1, <4>2, StringEnds
    <3>11. SubSeq(s, g + 1, z) = e
      <4>1. s \in Seq(S) /\ g \in Nat /\ e \in Seq(S) /\ Holds(s, g, e)
        BY <3>3, <3>7, <3>8
      <4>2. SubSeq(s, g + 1, g + Len(e)) = e
        BY ONLY <4>1, HoldsCut
      <4> QED
        BY ONLY <3>14, <4>2
    <3>12. Unescaped(e) = w
      <4>1. Undone(e) = [open |-> FALSE, text |-> w]
        BY <1>2, EscapesUndone DEF e
      <4> QED
        <5>1. Marks \subseteq S
          BY <1>2
        <5>2. Unescaped(e) = Undone(e).text
          BY <3>3, <5>1, UnescapedIsText
        <5> QED
          BY <4>1, <5>2
    <3>13. z + 1 # 0 /\ (z + 1) - 1 = z /\ x + 2 <= l /\ x + 2 <= Len(s)
      <4>1. z \in Nat /\ z + 1 = l /\ z + 1 <= Len(s) /\ Len(s) \in Nat
        BY <1>11, <3>7
      <4>2. g \in Nat /\ z >= g /\ x + 2 = g
        BY <3>7, <3>9, <3>14
      <4> QED
        BY ONLY <4>1, <4>2
    <3> DEFINE r == l + 1
               b == Append(a, args[i])
               n == Len(s)
               y == z + 1
               d == x + 1
               t == x + 3
    <3>15. /\ r = y + 1 /\ x + 2 <= n /\ Len(s) = n /\ n \in Nat /\ y \in Nat /\ y # 0
           /\ EndOfString(s, g) = y /\ g = x + 2 /\ Shows(s, g, Quote) /\ d = x + 1
      BY <1>11, <3>7, <3>8, <3>9, <3>10, <3>13 DEF Shows
    <3>17. b = With(a, key, Str(w))
      BY <1>1, <2>2 DEF With
    <3>18. x \in Nat /\ p \in Nat /\ ~(x < p) /\ Shows(s, x, key) /\ key \in Keys /\ Shows(s, d, "=")
           /\ Quote \notin Literals
      BY <1>1, <1>2, <1>16 DEF p, Shows
    <3>19. t = x + 3 /\ w = Unescaped(Between(s, t, y))
      <4>1. y - 1 = z /\ t = g + 1
        BY <3>7, <3>9
      <4> HIDE DEF t, y, g, z
      <4>2. Between(s, t, y) = SubSeq(s, g + 1, z)
        BY <4>1 DEF Between
      <4> QED
        BY <3>11, <3>12, <4>2 DEF t
    <3> HIDE DEF r, b, n, y, d, t
    <3>16. PairStep(s, Got(p, a), x) = Got(r, b)
      BY ONLY <3>15, <3>17, <3>18, <3>19, PairString
    <3> QED
      BY <3>13, <3>16 DEF r, b, p
  <2> QED
    BY <1>1, <2>1, <2>2 DEF Values
<1>18. f[x] = got
  <2>1. x \in (h + 1)..l
    BY <1>11, <1>16, <1>17
  <2> QED
    BY <1>15, <1>16, <1>17, <2>1
<1>19. ASSUME NEW j \in (x + 1)..l, f[j - 1] = got PROVE f[j] = got
  <2>1. j \in (h + 1)..l /\ j \in Nat /\ l + 1 \in Nat /\ j < l + 1
    <3>1. h \in Nat /\ l \in Nat /\ x \in Nat /\ m \in Nat /\ m >= h /\ x - 1 = m
      BY <1>11, <1>16
    <3> QED
      BY ONLY <3>1
  <2>2. f[j] = PairStep(s, f[j - 1], j)
    BY <2>1
  <2>3. PairStep(s, got, j) = got
    <3> DEFINE r == l + 1
               c == Append(a, args[i])
    <3>1. j < r
      BY <2>1
    <3> HIDE DEF r, c
    <3>2. PairStep(s, Got(r, c), j) = Got(r, c)
      BY <3>1, PairIdle
    <3> QED
      BY <3>2 DEF r, c
  <2> QED
    BY <1>19, <2>2, <2>3
<1> HIDE DEF got
<1>20. x <= l /\ x \in Nat /\ l \in Nat
  BY <1>16, <1>17
<1>21. f[l] = got
  <2> DEFINE idle == {k \in x..l : f[k] = got}
  <2>3. \A k \in x..l : k \in idle /\ k < l => k + 1 \in idle
    <3> SUFFICES ASSUME NEW k \in x..l, k \in idle, k < l PROVE k + 1 \in idle
      OBVIOUS
    <3>1. k + 1 \in (x + 1)..l /\ (k + 1) - 1 = k /\ f[k] = got /\ k + 1 \in x..l
      BY <1>20
    <3>2. f[k + 1] = got
      BY <1>19, <3>1
    <3> QED
      BY <3>1, <3>2
  <2>5. x \in idle
    BY <1>18, <1>20
  <2> HIDE DEF idle
  <2>6. l \in idle
    BY ONLY <1>20, <2>3, <2>5, UpFrom
  <2> QED
    BY <2>6 DEF idle
<1> QED
  BY <1>21 DEF got, a

(* A start, and the next sign. *)
LEMMA StartGrows ==
    ASSUME NEW S, NEW e \in Seq(S), NEW i \in 1..Len(e), NEW g, g = i - 1
    PROVE  Start(e, i) = Append(Start(e, g), e[i]) /\ Start(e, 0) = <<>> /\ Start(e, Len(e)) = e
<1> DEFINE n == Len(e)
           v == Start(e, i)
           w == Start(e, g)
           u == Append(w, e[i])
           z == Start(e, 0)
           a == Start(e, n)
<1>1. n \in Nat /\ i \in 0..n /\ g \in 0..n /\ 0 \in 0..n /\ n \in 0..n /\ e[i] \in S /\ i = g + 1
  OBVIOUS
<1>2. /\ v \in Seq(S) /\ Len(v) = i /\ (\A h \in 1..i : v[h] = e[h])
      /\ w \in Seq(S) /\ Len(w) = g /\ (\A h \in 1..g : w[h] = e[h])
      /\ z \in Seq(S) /\ Len(z) = 0 /\ a \in Seq(S) /\ Len(a) = n /\ \A h \in 1..n : a[h] = e[h]
  BY <1>1, Starts
<1> HIDE DEF v, w, z, a
<1>3. u \in Seq(S) /\ Len(u) = g + 1 /\ u[g + 1] = e[i] /\ \A h \in 1..g : u[h] = w[h]
  BY <1>1, <1>2
<1> HIDE DEF u
<1>4. ASSUME NEW h \in 1..i PROVE v[h] = u[h]
  <2>1. h = g + 1 \/ h \in 1..g
    BY <1>1
  <2> QED
    BY <1>1, <1>2, <1>3, <2>1
<1>5. v = u
  BY <1>1, <1>2, <1>3, <1>4, SameText
<1>6. z = <<>>
  BY <1>2
<1>7. a = e
  <2>1. Len(a) = Len(e) /\ \A h \in 1..Len(a) : a[h] = e[h]
    BY <1>1, <1>2 DEF n
  <2> HIDE DEF n
  <2> QED
    BY <1>2, <2>1, SameText
<1> QED
  BY <1>5, <1>6, <1>7 DEF v, u, w, z, a, n

(* The states of _parse_tool_args between two places. *)
PairsGo(f, s, h, l) == \A j \in (h + 1)..l : f[j] = PairStep(s, f[j - 1], j)

(* One more pair is read behind those before it. *)
LEMMA PairReads ==
    ASSUME NEW S, Signs \subseteq S, NEW args \in Arguments(S), NEW i \in 1..Len(args),
           NEW s \in Seq(S), NEW h \in Nat, NEW w, w = Piece(args, i), Holds(s, h, w),
           NEW l \in Nat, l = h + Len(w), NEW f, PairsGo(f, s, h, l),
           NEW g, g = i - 1, NEW p, p = h + 1, Shows(f, h, Got(p, Start(args, g))),
           NEW r, r = l + 1
    PROVE  Shows(f, l, Got(r, Start(args, i)))
<1>1. f[h] = Got(h + 1, Start(args, i - 1)) /\ Holds(s, h, Piece(args, i)) /\ l = h + Len(Piece(args, i))
  BY DEF Shows
<1>2. \A j \in (h + 1)..l : f[j] = PairStep(s, f[j - 1], j)
  BY DEF PairsGo
<1>3. f[l] = Got(l + 1, Append(Start(args, i - 1), args[i]))
  BY <1>1, <1>2, PairRead
<1>4. Append(Start(args, i - 1), args[i]) = Start(args, i)
  <2> DEFINE T == Keys \X Values(S)
  <2>1. args \in Seq(T)
    BY DEF Arguments
  <2> HIDE DEF T
  <2>2. Start(args, i) = Append(Start(args, g), args[i])
    BY <2>1, StartGrows
  <2> QED
    BY <2>2
<1> QED
  BY <1>3, <1>4 DEF Shows

(* _parse_tool_args reads the arguments that were written. *)
LEMMA PairsRead ==
    ASSUME NEW S, Signs \subseteq S, NEW args \in Arguments(S)
    PROVE  Body(args) \in Seq(S) /\ Pairs(Body(args)) = args
<1> DEFINE s == Body(args)
           n == Len(args)
<1>1. s \in Seq(S)
  BY BodyPlaces
<1>2. PICK o \in [0..n -> Nat] :
        /\ o[0] = 0 /\ Len(s) = o[n]
        /\ \A i \in 1..n : o[i] = o[i - 1] + Len(Piece(args, i)) /\ Holds(s, o[i - 1], Piece(args, i))
  BY BodyPlaces
<1> HIDE DEF s
<1>3. PICK f \in [0..Len(s) -> Pairings(S)] :
              /\ f[0] = Got(1, <<>>) /\ Pairs(s) = f[Len(s)].args
              /\ \A i \in 1..Len(s) : f[i] = PairStep(s, f[i - 1], i)
  BY <1>1, PairsRun
<1>4. n \in Nat /\ args \in Seq(Keys \X Values(S)) /\ Len(s) \in Nat
  BY <1>1 DEF Arguments
<1>5. Start(args, 0) = <<>> /\ Start(args, n) = args
  <2> DEFINE T == Keys \X Values(S)
  <2>1. args \in Seq(T) /\ 0 \in 0..n
    BY <1>4
  <2> HIDE DEF T
  <2>2. CASE n = 0
    <3>1. args = <<>>
      BY <2>1, <2>2
    <3>2. Start(args, 0) \in Seq(T) /\ Len(Start(args, 0)) = 0
      BY <2>1, Starts
    <3>3. Start(args, 0) = <<>>
      BY <3>2
    <3> QED
      BY <2>2, <3>1, <3>3
  <2>3. CASE n # 0
    <3>1. 1 \in 1..n /\ 0 = 1 - 1
      BY <1>4, <2>3
    <3> QED
      BY <2>1, <3>1, StartGrows
  <2> QED
    BY <2>2, <2>3
<1> DEFINE good == {k \in 0..n : Shows(f, o[k], Got(o[k] + 1, Start(args, k)))}
<1>6. 0 \in good
  <2>1. 0 \in 0..n /\ o[0] = 0 /\ 0 + 1 = 1 /\ f[0] = Got(1, Start(args, 0))
    BY <1>2, <1>3, <1>4, <1>5
  <2> QED
    BY <2>1 DEF Shows
<1>7. \A k \in 0..n : k \in good /\ k < n => k + 1 \in good
  <2> SUFFICES ASSUME NEW k \in 0..n, k \in good, k < n PROVE k + 1 \in good
    OBVIOUS
  <2> DEFINE i == k + 1
             w == Piece(args, i)
             h == o[k]
             l == o[i]
             p == h + 1
             r == l + 1
  <2>1. i \in 1..n /\ i \in 0..n /\ k = i - 1
    BY <1>4
  <2>2. h \in Nat /\ l \in Nat /\ l = h + Len(w) /\ Holds(s, h, w) /\ l <= Len(s)
    <3>1. h \in Nat /\ l \in Nat /\ o[i - 1] = h
      BY <2>1
    <3>2. l = h + Len(w) /\ Holds(s, h, w)
      BY <1>2, <2>1, <3>1
    <3>3. h + Len(w) <= Len(s)
      BY <3>2 DEF Holds
    <3> QED
      BY <3>1, <3>2, <3>3
  <2>3. w = Piece(args, i) /\ p = h + 1 /\ r = l + 1 /\ Shows(f, h, Got(p, Start(args, k)))
    OBVIOUS
  <2> HIDE DEF i, w, h, l, p, r, good
  <2>4. PairsGo(f, s, h, l)
    <3> SUFFICES ASSUME NEW j \in (h + 1)..l PROVE f[j] = PairStep(s, f[j - 1], j)
      BY DEF PairsGo
    <3>1. j \in 1..Len(s)
      BY <1>4, <2>2
    <3> QED
      BY <1>3, <3>1
  <2>5. args \in Arguments(S) /\ i \in 1..Len(args) /\ s \in Seq(S) /\ Signs \subseteq S
    BY <1>1, <2>1
  <2>6. Shows(f, l, Got(r, Start(args, i)))
    BY ONLY <2>1, <2>2, <2>3, <2>4, <2>5, PairReads
  <2> QED
    BY <2>1, <2>6 DEF good, i, l, r
<1> HIDE DEF good
<1>8. \A k \in 0..n : k \in good
  BY <1>4, <1>6, <1>7, UpTo
<1>9. f[o[n]] = Got(o[n] + 1, Start(args, n))
  <2>1. n \in good
    BY <1>4, <1>8
  <2> QED
    BY <2>1 DEF good, Shows
<1>10. Pairs(s) = args
  <2>1. Pairs(s) = Got(o[n] + 1, args).args
    BY <1>2, <1>3, <1>5, <1>9
  <2> QED
    BY <2>1 DEF Got
<1> QED
  BY <1>1, <1>10 DEF s

(* _parse_textual_tool_calls: what has been read, and up to where. *)
Seen(p, c) == [pos |-> p, calls |-> c]
More(c, x) == Append(c, x)

(* A place without a head, or that has been read. *)
LEMMA CallIdle ==
    ASSUME NEW s, NEW i, NEW p, NEW c, i < p \/ s[i] # Opening
    PROVE  CallStep(s, Seen(p, c), i) = Seen(p, c)
<1>1. Seen(p, c).pos = p
  BY DEF Seen
<1> QED
  BY <1>1 DEF CallStep

(* A head that is not closed is passed over. *)
LEMMA CallMissed ==
    ASSUME NEW s, NEW i, NEW p, NEW c, ~(i < p), Shows(s, i, Opening), Closing(s, i) = 0,
           NEW q, q = i + 1
    PROVE  CallStep(s, Seen(p, c), i) = Seen(q, c)
<1>1. Seen(p, c).pos = p /\ s[i] = Opening /\ [Seen(p, c) EXCEPT !.pos = q] = Seen(q, c)
  BY DEF Seen, Shows
<1> QED
  BY <1>1 DEF CallStep

(* A head that is closed is a call. *)
LEMMA CallFound ==
    ASSUME NEW s, NEW i, NEW p, NEW c, ~(i < p), Shows(s, i, Opening),
           NEW e, Closing(s, i) = e, e # 0, NEW q, q = e + 2, NEW g, g = i + 1,
           NEW a, a = Pairs(Between(s, g, e)), NEW d, d = More(c, a)
    PROVE  CallStep(s, Seen(p, c), i) = Seen(q, d)
<1>1. Seen(p, c).pos = p /\ Seen(p, c).calls = c /\ s[i] = Opening
  BY DEF Seen, Shows
<1>2. CallStep(s, Seen(p, c), i) = [pos |-> e + 2, calls |-> Append(c, Pairs(SubSeq(s, i + 1, e - 1)))]
  BY <1>1 DEF CallStep
<1>3. a = Pairs(SubSeq(s, i + 1, e - 1))
  BY DEF Between
<1> QED
  BY <1>2, <1>3 DEF Seen, More

(* A head is closed within the text, if at all. *)
LEMMA ClosingIsInside ==
    ASSUME NEW S, NEW s \in Seq(S), NEW i \in 1..Len(s)
    PROVE  Closing(s, i) \in 0..Len(s)
<1> DEFINE b == At(1, NoQuote, i)
           r == From(s, i)
           st == Scan(b, r)
           l == Len(s)
<1>1. l \in Nat /\ i \in Nat /\ i <= l /\ s[i] \in S /\ 1 \in Nat
  OBVIOUS
<1>2. b \in Scanning
  BY <1>1, OutsideScans
<1>3. r \in Seq(S)
  <2>1. i \in 0..l /\ l \in i..l
    BY <1>1
  <2>2. SubSeq(s, i + 1, l) \in Seq(S)
    BY <2>1, PiecesOf
  <2> QED
    BY <2>2 DEF From
<1>4. Closing(s, i) = IF st.depth = 0 /\ st.at < Len(s) /\ s[st.at + 1] = "]" THEN st.at ELSE 0
  BY DEF Closing, HeadScan, From, At, Reached, No
<1> HIDE DEF b, r
<1>5. st \in Scanning
  BY <1>1, <1>2, <1>3, ScanGrows
<1> HIDE DEF st
<1>6. st.at \in Nat
  BY <1>5 DEF Scanning, At, Behind, Reached
<1> QED
  BY <1>1, <1>4, <1>6

Callings(S) == {Seen(p, c) : p \in Nat, c \in Seq(Arguments(S))}

(* A step of _parse_textual_tool_calls keeps to calls. *)
LEMMA CallStays ==
    ASSUME NEW S, Signs \subseteq S, NEW s \in Seq(S), NEW st \in Callings(S), NEW i \in 1..Len(s)
    PROVE  CallStep(s, st, i) \in Callings(S)
<1>1. PICK p \in Nat, c \in Seq(Arguments(S)) : st = Seen(p, c)
  BY DEF Callings
<1>2. \A q \in Nat, d \in Seq(Arguments(S)) : Seen(q, d) \in Callings(S)
  BY DEF Callings
<1>3. \A a \in Arguments(S) : More(c, a) \in Seq(Arguments(S))
  BY DEF More
<1>4. i + 1 \in Nat /\ Closing(s, i) \in 0..Len(s) /\ Len(s) \in Nat
  BY ClosingIsInside
<1>5. CASE i < p \/ s[i] # Opening
  <2>1. CallStep(s, Seen(p, c), i) = Seen(p, c)
    BY <1>5, CallIdle
  <2> QED
    BY <1>1, <1>2, <2>1
<1>6. CASE ~(i < p) /\ s[i] = Opening /\ Closing(s, i) = 0
  <2> DEFINE q == i + 1
  <2>1. Shows(s, i, Opening) /\ q = i + 1 /\ q \in Nat
    BY <1>4, <1>6 DEF Shows
  <2> HIDE DEF q
  <2>2. CallStep(s, Seen(p, c), i) = Seen(q, c)
    BY <1>6, <2>1, CallMissed
  <2> QED
    BY <1>1, <1>2, <2>1, <2>2
<1>7. CASE ~(i < p) /\ s[i] = Opening /\ Closing(s, i) # 0
  <2> DEFINE e == Closing(s, i)
             q == e + 2
             g == i + 1
             u == SubSeq(s, i + 1, e - 1)
             a == Pairs(Between(s, g, e))
             d == More(c, a)
  <2>1. Shows(s, i, Opening) /\ Closing(s, i) = e /\ e # 0 /\ q = e + 2 /\ g = i + 1 /\ q \in Nat
        /\ e \in 0..Len(s) /\ a = Pairs(Between(s, g, e)) /\ d = More(c, a)
    BY <1>4, <1>7 DEF Shows
  <2>2. u = Between(s, g, e)
    BY DEF Between
  <2> HIDE DEF e, q, g, a, d
  <2>3. u \in Seq(S)
    <3>1. i + 1 \in Int /\ e - 1 \in Int /\ \A k \in (i + 1)..(e - 1) : s[k] \in S
      BY <2>1
    <3> QED
      BY <3>1, SubSeqProperties
  <2> HIDE DEF u
  <2>4. a \in Arguments(S)
    <3>1. PICK f \in [0..Len(u) -> Pairings(S)] : Pairs(u) = f[Len(u)].args
      BY <2>3, PairsRun
    <3>2. f[Len(u)] \in Pairings(S)
      BY <2>3, <3>1
    <3>3. PICK x \in Nat, y \in Arguments(S) : f[Len(u)] = Got(x, y)
      BY <3>2 DEF Pairings
    <3>4. Got(x, y).args = y
      BY DEF Got
    <3> QED
      BY <2>1, <2>2, <3>1, <3>3, <3>4
  <2>5. CallStep(s, Seen(p, c), i) = Seen(q, d)
    <3>1. ~(i < p)
      BY <1>7
    <3> QED
      BY ONLY <2>1, <3>1, CallFound
  <2> QED
    BY <1>1, <1>2, <1>3, <2>1, <2>4, <2>5
<1> QED
  BY <1>5, <1>6, <1>7

(* _parse_textual_tool_calls goes through a text place by place. *)
LEMMA CallsRun ==
    ASSUME NEW S, Signs \subseteq S, NEW s \in Seq(S)
    PROVE  \E f \in [0..Len(s) -> Callings(S)] :
              /\ f[0] = Seen(1, <<>>) /\ Parse(s) = f[Len(s)].calls
              /\ \A i \in 1..Len(s) : f[i] = CallStep(s, f[i - 1], i)
<1> DEFINE n == Len(s)
           V == Callings(S)
           b == Seen(1, <<>>)
           step == [p \in V \X (1..n) |-> CallStep(s, p[1], p[2])]
           Is(f) == f = [i \in 0..n |-> IF i = 0 THEN b ELSE CallStep(s, f[i - 1], i)]
           the == CHOOSE f : Is(f)
<1>1. n \in Nat /\ \A i \in 1..n : i \in 1..Len(s)
  OBVIOUS
<1>2. Parse(s) = the[n].calls
  BY DEF Parse, Seen
<1> HIDE DEF n
<1>3. b \in V
  <2> DEFINE a == <<>>
  <2>1. a \in Seq(Arguments(S))
    OBVIOUS
  <2>2. V = {Seen(p, c) : p \in Nat, c \in Seq(Arguments(S))} /\ b = Seen(1, a)
    BY DEF Callings
  <2> HIDE DEF a, b, V
  <2>3. \A p \in Nat, c \in Seq(Arguments(S)) : Seen(p, c) \in V
    BY <2>2
  <2>4. Seen(1, a) \in V
    BY <2>1, <2>3
  <2> QED
    BY <2>2, <2>4
<1>4. \A st \in V, i \in 1..n : CallStep(s, st, i) \in V
  BY <1>1, CallStays
<1> HIDE DEF V, b
<1>5. step \in [V \X (1..n) -> V] /\ \A st \in V, i \in 1..n : step[<<st, i>>] = CallStep(s, st, i)
  BY <1>4
<1> HIDE DEF step
<1>6. PICK f \in [0..n -> V] : RunsBy(f, n, b, step)
  BY <1>1, <1>3, <1>5, RunExists
<1>7. f[0] = b /\ \A i \in 1..n : f[i] = CallStep(s, f[i - 1], i)
  <2>1. 0 \in 0..n /\ \A i \in 1..n : i \in 0..n /\ i - 1 \in 0..n /\ i # 0
    BY <1>1
  <2>2. f[0] = b /\ \A i \in 1..n : f[i] = step[<<f[i - 1], i>>]
    BY <1>6, <2>1 DEF RunsBy
  <2> QED
    BY <1>5, <1>6, <2>1, <2>2
<1>8. Is(f)
  <2>1. ASSUME NEW i \in 0..n PROVE f[i] = IF i = 0 THEN b ELSE CallStep(s, f[i - 1], i)
    <3>1. i = 0 \/ i \in 1..n
      BY <1>1
    <3> QED
      BY <1>7, <3>1
  <2>2. f = [i \in 0..n |-> f[i]]
    BY <1>6
  <2> QED
    BY <2>1, <2>2
<1>9. Is(the)
  <2> HIDE DEF Is
  <2> QED
    BY <1>8
<1> HIDE DEF the
<1>10. the[0] = b /\ \A i \in 1..n : the[i] = CallStep(s, the[i - 1], i)
  <2>1. 0 \in 0..n /\ \A i \in 1..n : i \in 0..n /\ i # 0
    BY <1>1
  <2> QED
    BY <1>9, <2>1
<1> HIDE DEF Is
<1>11. the[n] = f[n]
  <2> DEFINE same == {i \in 0..n : the[i] = f[i]}
  <2>1. 0 \in same
    BY <1>1, <1>7, <1>10
  <2>2. \A k \in 0..n : k \in same /\ k < n => k + 1 \in same
    <3> SUFFICES ASSUME NEW k \in 0..n, k \in same, k < n PROVE k + 1 \in same
      OBVIOUS
    <3>1. k + 1 \in 1..n /\ k + 1 \in 0..n /\ (k + 1) - 1 = k /\ the[k] = f[k]
      BY <1>1
    <3>2. the[k + 1] = CallStep(s, the[k], k + 1) /\ f[k + 1] = CallStep(s, f[k], k + 1)
      BY <1>7, <1>10, <3>1
    <3> QED
      BY <3>1, <3>2
  <2> HIDE DEF same
  <2>3. \A k \in 0..n : k \in same
    BY <1>1, <2>1, <2>2, UpTo
  <2>4. n \in 0..n
    BY <1>1
  <2> QED
    BY <2>3, <2>4 DEF same
<1> QED
  BY <1>2, <1>6, <1>7, <1>11 DEF n, V, b


(* The states of _parse_textual_tool_calls between two places, and at one:  *)
(* the calls that have been read, nothing beyond the place.                 *)
CallsGo(f, s, h, l) == \A j \in (h + 1)..l : f[j] = CallStep(s, f[j - 1], j)
Reads(f, h, c) == \E p \in Nat : p <= h + 1 /\ f[h] = Seen(p, c)

Mark == "\n"
Close == <<")", "]", Mark>>
Block(args) == <<Opening>> \o (Body(args) \o Close)

(* The three signs that end a call. *)
LEMMA CloseIs ==
    ASSUME NEW S, Signs \cup {Mark} \subseteq S
    PROVE  /\ Close \in Seq(S) /\ Len(Close) = 3 /\ Close[1] = ")" /\ Close[2] = "]" /\ Close[3] = Mark
           /\ Mark # Opening
<1>1. ")" \in S /\ "]" \in S /\ Mark \in S
  BY DEF Signs
<1>2. Mark # Opening
  BY DEF Mark, Opening
<1> DEFINE a == ")"
           b == "]"
           c == Mark
<1>3. a \in S /\ b \in S /\ c \in S
  BY <1>1
<1>4. Close = <<a, b, c>>
  BY DEF Close
<1> HIDE DEF a, b, c
<1>5. Close \in Seq(S) /\ Len(Close) = 3 /\ Close[1] = a /\ Close[2] = b /\ Close[3] = c
  BY <1>3, <1>4
<1> QED
  BY <1>2, <1>5 DEF a, b, c

(* How long a call is as a text. *)
LEMMA BlockParts ==
    ASSUME NEW S, Signs \cup {Mark} \subseteq S, NEW args \in Arguments(S)
    PROVE  Block(args) \in Seq(S) /\ Len(Block(args)) = Len(Body(args)) + 4
<1> DEFINE w == Body(args)
           v == <<Opening>>
           wt == w \o Close
           b == v \o wt
<1>1. w \in Seq(S)
  <2>1. Signs \subseteq S
    OBVIOUS
  <2> QED
    BY <2>1, BodyIsBalanced
<1>2. Close \in Seq(S) /\ Len(Close) = 3
  BY CloseIs
<1>3. v \in Seq(S) /\ Len(v) = 1
  <2>1. Opening \in S
    BY DEF Signs
  <2> QED
    BY <2>1, OneSign
<1>4. Block(args) = b
  BY DEF Block
<1> HIDE DEF w, v
<1>5. wt = w \o Close
  OBVIOUS
<1> HIDE DEF wt
<1>6. b = v \o wt
  OBVIOUS
<1> HIDE DEF b
<1>7. wt \in Seq(S) /\ Len(wt) = Len(w) + Len(Close) /\ Len(w) \in Nat
  <2>1. w \in Seq(S) /\ Close \in Seq(S)
    BY <1>1, <1>2
  <2> QED
    BY ONLY <1>5, <2>1, JoinedLen
<1>8. b \in Seq(S) /\ Len(b) = Len(v) + Len(wt)
  <2>1. v \in Seq(S) /\ wt \in Seq(S)
    BY <1>3, <1>7
  <2> QED
    BY ONLY <1>6, <2>1, JoinedLen
<1>9. Len(b) = Len(w) + 4
  BY <1>2, <1>3, <1>7, <1>8
<1> QED
  BY <1>4, <1>8, <1>9 DEF w

(* One call is read where it was written. *)
LEMMA CallReads ==
    ASSUME NEW S, Signs \cup {Mark} \subseteq S, NEW args \in Arguments(S), NEW s \in Seq(S), NEW h \in Nat,
           Holds(s, h, Block(args)), NEW l \in Nat, l = h + Len(Block(args)),
           NEW f, CallsGo(f, s, h, l), NEW c, Reads(f, h, c), NEW d, d = More(c, args)
    PROVE  Reads(f, l, d)
<1> DEFINE w == Body(args)
           v == <<Opening>>
           wt == w \o Close
           i == h + 1
           j == i + Len(w)
<1>1. Signs \subseteq S /\ Opening \in S
  BY DEF Signs
<1>2. w \in Seq(S) /\ Balanced(w) /\ Pairs(w) = args
  BY <1>1, BodyIsBalanced, PairsRead
<1>3. Close \in Seq(S) /\ Len(Close) = 3 /\ Close[1] = ")" /\ Close[2] = "]" /\ Close[3] = Mark /\ Mark # Opening
  BY CloseIs
<1>4. Len(Block(args)) = Len(w) + 4
  BY BlockParts
<1>5. v \in Seq(S) /\ Len(v) = 1 /\ v[1] = Opening
  BY <1>1, OneSign
<1>6. Holds(s, h, v \o wt)
  BY DEF Block
<1> HIDE DEF w, v
<1>7. wt \in Seq(S) /\ Len(w) \in Nat
  BY <1>2, <1>3
<1>8. Holds(s, h, v) /\ Holds(s, h + Len(v), wt)
  <2> HIDE DEF wt
  <2> QED
    BY <1>5, <1>6, <1>7, HoldsSplit
<1>9. Holds(s, i, w \o Close) /\ i \in Nat
  BY <1>5, <1>8
<1> HIDE DEF i, wt
<1>10. Holds(s, i, w) /\ Holds(s, i + Len(w), Close)
  BY <1>2, <1>3, <1>9, HoldsSplit
<1>11. /\ s[h + 1] = Opening /\ s[j + 1] = ")" /\ s[j + 2] = "]" /\ s[j + 3] = Mark /\ j + 3 <= Len(s)
       /\ j \in Nat /\ i = h + 1 /\ l = j + 3 /\ j >= i /\ Len(s) \in Nat
  <2>1. 1 \in 1..Len(v) /\ 1 \in 1..Len(Close) /\ 2 \in 1..Len(Close) /\ 3 \in 1..Len(Close)
    BY <1>3, <1>5
  <2>2. s[h + 1] = Opening
    BY <1>5, <1>8, <2>1 DEF Holds
  <2>3. j \in Nat /\ j >= i /\ i = h + 1 /\ l = j + 3 /\ Holds(s, j, Close) /\ Len(s) \in Nat
    BY <1>4, <1>7, <1>9, <1>10 DEF i
  <2> HIDE DEF j
  <2>4. s[j + 1] = ")" /\ s[j + 2] = "]" /\ s[j + 3] = Mark /\ j + 3 <= Len(s)
    BY <1>3, <2>1, <2>3 DEF Holds
  <2> QED
    BY <2>2, <2>3, <2>4
<1>12. Closing(s, i) = j + 1
  <2>1. i \in Nat \ {0} /\ j = i + Len(w) /\ j + 2 <= Len(s) /\ s[j + 1] = ")" /\ s[j + 2] = "]" /\ j \in Nat
    BY <1>9, <1>11
  <2> HIDE DEF j
  <2> QED
    BY <1>2, <1>10, <2>1, ClosingFound
<1>13. SubSeq(s, i + 1, j) = w
  BY <1>2, <1>9, <1>10, HoldsCut
<1>14. PICK p \in Nat : p <= i /\ f[h] = Seen(p, c)
  BY <1>11 DEF Reads
<1> HIDE DEF j
<1> DEFINE e == j + 1
           q == e + 2
           g == i + 1
           st == Seen(q, d)
<1>15. CallStep(s, Seen(p, c), i) = st
  <2>1. ~(i < p) /\ Shows(s, i, Opening) /\ Closing(s, i) = e /\ e # 0 /\ q = e + 2 /\ g = i + 1
    BY <1>9, <1>11, <1>12, <1>14 DEF Shows
  <2>2. e - 1 = j /\ g = i + 1
    BY <1>11
  <2> HIDE DEF e, q, g
  <2>3. Between(s, g, e) = w
    BY <1>13, <2>2 DEF Between
  <2>4. args = Pairs(Between(s, g, e)) /\ d = More(c, args)
    BY <1>2, <2>3
  <2>5. CallStep(s, Seen(p, c), i) = Seen(q, d)
    BY ONLY <2>1, <2>4, CallFound
  <2> QED
    BY <2>5
<1>16. f[i] = st
  <2>1. i \in (h + 1)..l /\ i - 1 = h
    BY <1>9, <1>11
  <2>2. f[i] = CallStep(s, f[i - 1], i)
    BY <2>1 DEF CallsGo
  <2> QED
    BY <1>14, <1>15, <2>1, <2>2
<1>17. q = l /\ q \in Nat /\ i \in Nat /\ i <= l
  BY <1>9, <1>11
<1>18. ASSUME NEW k \in (i + 1)..l, f[k - 1] = st PROVE f[k] = st
  <2>1. k \in (h + 1)..l
    BY <1>11, <1>17
  <2>2. f[k] = CallStep(s, f[k - 1], k)
    BY <2>1 DEF CallsGo
  <2>3. k < q \/ s[k] # Opening
    BY <1>3, <1>11, <1>17
  <2> HIDE DEF q
  <2>4. CallStep(s, Seen(q, d), k) = Seen(q, d)
    BY <2>3, CallIdle
  <2> QED
    BY <1>18, <2>2, <2>4
<1> HIDE DEF st
<1>19. f[l] = st
  <2> DEFINE idle == {k \in i..l : f[k] = st}
  <2>1. \A k \in i..l : k \in idle /\ k < l => k + 1 \in idle
    <3> SUFFICES ASSUME NEW k \in i..l, k \in idle, k < l PROVE k + 1 \in idle
      OBVIOUS
    <3>1. k + 1 \in (i + 1)..l /\ (k + 1) - 1 = k /\ f[k] = st /\ k + 1 \in i..l
      BY <1>17
    <3>2. f[k + 1] = st
      BY <1>18, <3>1
    <3> QED
      BY <3>1, <3>2
  <2>2. i \in idle /\ l \in Nat
    BY <1>16, <1>17
  <2> HIDE DEF idle
  <2>3. l \in idle
    BY ONLY <1>17, <2>1, <2>2, UpFrom
  <2> QED
    BY <2>3 DEF idle
<1>20. q \in Nat /\ q <= l + 1 /\ f[l] = Seen(q, d)
  BY <1>17, <1>19 DEF st
<1> QED
  BY <1>20 DEF Reads

(* Three texts, whichever two are strung together first. *)
LEMMA ConcatRegroups ==
    ASSUME NEW S, NEW u \in Seq(S), NEW v \in Seq(S), NEW w \in Seq(S)
    PROVE  (u \o v) \o w = u \o (v \o w)
OBVIOUS

(* The signs that end a call, one after the other. *)
LEMMA CloseGrows == \A x : Longer(<<>>, ")") = <<")">> /\ Close = Longer(Longer(Longer(<<>>, ")"), "]"), Mark)
<1> DEFINE a == ")"
           b == "]"
           c == Mark
           S == {a, b, c}
           u == <<a, b, c>>
           v == <<a>>
           w == Append(v, b)
           x == Append(w, c)
<1>1. a \in S /\ b \in S /\ c \in S
  OBVIOUS
<1>2. Close = u /\ Longer(Longer(Longer(<<>>, a), b), c) = x /\ Longer(<<>>, a) = v
  BY DEF Close, Longer
<1> HIDE DEF a, b, c, S
<1>3. u \in Seq(S) /\ Len(u) = 3 /\ u[1] = a /\ u[2] = b /\ u[3] = c
  BY <1>1
<1>4. w \in Seq(S) /\ Len(w) = 2 /\ w[1] = a /\ w[2] = b
  BY <1>1
<1> HIDE DEF w
<1>5. x \in Seq(S) /\ Len(x) = 3 /\ x[1] = a /\ x[2] = b /\ x[3] = c
  <2>1. w \in Seq(S) /\ c \in S
    BY <1>1, <1>4
  <2>2. x \in Seq(S) /\ Len(x) = Len(w) + 1 /\ x[Len(w) + 1] = c /\ \A i \in 1..Len(w) : x[i] = w[i]
    BY ONLY <2>1
  <2> HIDE DEF x
  <2>3. 1 \in 1..Len(w) /\ 2 \in 1..Len(w) /\ Len(w) + 1 = 3
    BY <1>4
  <2> QED
    BY <1>4, <2>2, <2>3
<1> HIDE DEF u, x
<1>6. \A i \in 1..Len(u) : u[i] = x[i]
  <2>1. \A i \in 1..3 : i = 1 \/ i = 2 \/ i = 3
    OBVIOUS
  <2> QED
    BY <1>3, <1>5, <2>1
<1>7. u = x
  BY <1>3, <1>5, <1>6, SameText
<1> QED
  BY <1>2, <1>7 DEF a, b, c, v

(* A call, read as a text, leaves the depth as it was. *)
LEMMA BlockIsBalanced ==
    ASSUME NEW S, Signs \cup {Mark} \subseteq S, NEW args \in Arguments(S)
    PROVE  Balanced(Block(args))
<1> DEFINE w == Body(args)
           v == <<Opening>>
           wt == w \o Close
           n == Len(w)
           one == Longer(<<>>, ")")
           two == Longer(one, "]")
           all == Longer(two, Mark)
<1>1. Signs \subseteq S /\ Opening \in S /\ ")" \in S /\ "]" \in S /\ Mark \in S
  BY DEF Signs
<1>2. w \in Seq(S) /\ Balanced(w)
  BY <1>1, BodyIsBalanced
<1>3. Close \in Seq(S) /\ Close = all /\ <<>> \in Seq(S)
  BY CloseIs, CloseGrows
<1>4. one \in Seq(S) /\ two \in Seq(S)
  <2>1. one \in Seq(S)
    BY <1>1, <1>3, StartsOfLonger
  <2> HIDE DEF one
  <2> QED
    BY <1>1, <2>1, StartsOfLonger
<1> HIDE DEF two, one
<1>5. v \in Seq(S) /\ Len(v) = 1
  BY <1>1, OneSign
<1>6. Block(args) = v \o wt
  BY DEF Block
<1>7. Len(Block(args)) = n + 4
  BY BlockParts
<1>8. /\ "]" \notin {Quote, Single, "(", Opening, ")"} /\ Mark \notin {Quote, Single, "(", Opening, ")"}
      /\ Opening \in {"(", Opening}
  BY DEF Quote, Single, Opening, Mark
<1> HIDE DEF w, v
<1>9. n \in Nat /\ wt \in Seq(S)
  BY <1>2, <1>3
<1> HIDE DEF wt, n
<1> SUFFICES ASSUME NEW d \in Nat \ {0}, NEW a \in Nat
             PROVE  Scan(At(d, NoQuote, a), Block(args)) = At(d, NoQuote, a + Len(Block(args)))
  BY DEF Balanced
<1> DEFINE b == At(d, NoQuote, a)
           x == d + 1
           y == a + 1
           z == y + n
           t == z + 1
           g == t + 1
           m == g + 1
           b1 == At(x, NoQuote, y)
           b2 == At(x, NoQuote, z)
           b3 == At(d, NoQuote, t)
           b4 == At(d, NoQuote, g)
           b5 == At(d, NoQuote, m)
<1>10. /\ d \in Nat /\ d # 0 /\ x \in Nat /\ x \in Nat \ {0} /\ x # 0 /\ y \in Nat /\ z \in Nat /\ t \in Nat
       /\ g \in Nat /\ m \in Nat /\ x - 1 = d /\ m = a + Len(Block(args))
  BY <1>7, <1>9
<1>11. b \in Scanning /\ b1 \in Scanning /\ b2 \in Scanning
  <2> HIDE DEF x, y, z
  <2> QED
    BY <1>10, OutsideScans
<1>12. ScanStep(b, Opening) = b1
  BY <1>8, <1>10, ScanMoves
<1>13. ScanStep(b2, ")") = b3
  <2>1. ScanStep(At(x, NoQuote, z), ")") = At(x - 1, NoQuote, z + 1)
    <3> HIDE DEF x, z
    <3> QED
      BY <1>10, ScanMoves
  <2> QED
    BY <1>10, <2>1
<1>14. ScanStep(b3, "]") = b4 /\ ScanStep(b4, Mark) = b5
  <2>1. ScanStep(At(d, NoQuote, t), "]") = At(d, NoQuote, t + 1)
    <3> HIDE DEF t
    <3> QED
      BY <1>8, <1>10, ScanMoves
  <2>2. ScanStep(At(d, NoQuote, g), Mark) = At(d, NoQuote, g + 1)
    <3> HIDE DEF g
    <3> QED
      BY <1>8, <1>10, ScanMoves
  <2> QED
    BY <2>1, <2>2
<1>15. Scan(b1, w) = b2
  <2> HIDE DEF x, y
  <2> QED
    BY <1>2, <1>10 DEF Balanced, n
<1> HIDE DEF b, b1, b2, b3, b4, b5
<1>16. Scan(b, v) = b1
  BY <1>11, <1>12, ScanOne DEF v
<1>17. Scan(b2, Close) = b5
  <2>1. Scan(b2, <<>>) = b2 /\ Scan(b2, Longer(<<>>, ")")) = ScanStep(Scan(b2, <<>>), ")")
    <3> DEFINE none == <<>>
               par == ")"
    <3>1. none \in Seq(S) /\ par \in S
      BY <1>1, <1>3
    <3> HIDE DEF none, par
    <3>2. Scan(b2, <<>>) = b2 /\ Scan(b2, Longer(none, par)) = ScanStep(Scan(b2, none), par)
      BY <1>11, <3>1, ScanGrows
    <3> QED
      BY <3>2 DEF none, par
  <2>2. Scan(b2, one) = b3
    BY <1>13, <2>1 DEF one
  <2>3. Scan(b2, Longer(one, "]")) = ScanStep(Scan(b2, one), "]")
    BY <1>1, <1>4, <1>11, ScanGrows
  <2>4. Scan(b2, two) = b4
    BY <1>14, <2>2, <2>3 DEF two
  <2>5. Scan(b2, Longer(two, Mark)) = ScanStep(Scan(b2, two), Mark)
    BY <1>1, <1>4, <1>11, ScanGrows
  <2> QED
    BY <1>3, <1>14, <2>4, <2>5
<1>18. Scan(b1, wt) = Scan(Scan(b1, w), Close)
  <2>1. Scan(b1, w \o Close) = Scan(Scan(b1, w), Close)
    BY <1>2, <1>3, <1>11, ScanJoins
  <2> QED
    BY <2>1 DEF wt
<1>19. Scan(b, v \o wt) = Scan(Scan(b, v), wt)
  BY <1>5, <1>9, <1>11, ScanJoins
<1>20. Scan(b, Block(args)) = b5
  BY <1>6, <1>15, <1>16, <1>17, <1>18, <1>19
<1> QED
  BY <1>10, <1>20 DEF b, b5

(* FromSplit, for all texts at once. *)
LEMMA FromSplits ==
    \A S : \A s \in Seq(S) : \A k \in Nat, w \in Seq(S), j \in Nat :
        Holds(s, k, w) /\ j = k + Len(w) => From(s, k) = w \o From(s, j)
BY FromSplit

(* A head in the text before the calls that is no call, see                 *)
(* ProtocolAssumption.                                                      *)
NoCall(p, i) == LET st == HeadScan(p, i)
                IN  st.quote = NoQuote /\ (st.depth = 0 => st.at < Len(p) /\ p[st.at + 1] # "]")

(* Such a head is passed over, whatever calls follow. *)
LEMMA HeadIsMissed ==
    ASSUME NEW S, NEW p \in Seq(S), NEW rest \in Seq(S), Balanced(rest), NEW s, s = p \o rest,
           NEW i \in 1..Len(p), NoCall(p, i)
    PROVE  Closing(s, i) = 0
<1> DEFINE b == At(1, NoQuote, i)
           m == Len(p)
           r == From(p, i)
           st == Scan(b, r)
<1>1. m \in Nat /\ i \in Nat /\ i \in 0..m /\ p[i] \in S /\ 1 \in Nat /\ 0 \in Nat /\ 0 + i = i /\ i <= m
  OBVIOUS
<1>2. s \in Seq(S) /\ Len(s) = m + Len(rest) /\ Holds(s, 0, p) /\ Holds(s, m, rest) /\ Len(rest) \in Nat
      /\ \A k \in 1..m : s[k] = p[k]
  <2>1. s \in Seq(S) /\ Len(s) = m + Len(rest) /\ Len(rest) \in Nat /\ \A k \in 1..m : s[k] = p[k]
    OBVIOUS
  <2>2. Holds(p \o rest, 0, p) /\ Holds(p \o rest, Len(p), rest)
    BY HoldsParts
  <2> QED
    BY <2>1, <2>2
<1>3. From(s, m) = rest
  <2>1. SubSeq(s, m + 1, m + Len(rest)) = rest
    BY <1>1, <1>2, HoldsCut
  <2> QED
    BY <1>2, <2>1 DEF From
<1>4. r \in Seq(S) /\ Len(r) = m - i /\ Holds(p, i, r)
  <2> DEFINE c == SubSeq(p, i + 1, m)
  <2>1. i \in 0..Len(p) /\ m \in i..Len(p)
    BY <1>1
  <2>2. c \in Seq(S) /\ Len(c) = m - i /\ \A k \in 1..(m - i) : c[k] = p[i + k]
    BY <2>1, PiecesOf
  <2>3. r = c
    BY DEF From
  <2> HIDE DEF c, r
  <2>4. r \in Seq(S) /\ Len(r) = m - i /\ \A k \in 1..(m - i) : r[k] = p[i + k]
    BY <2>2, <2>3
  <2> QED
    BY <1>1, <2>4 DEF Holds
<1> HIDE DEF r, m
<1>5. Holds(s, i, r)
  <2>1. Holds(s, 0 + i, r)
    BY <1>1, <1>2, <1>4, HoldsWithin
  <2> QED
    BY <1>1, <2>1
<1>6. From(s, i) = r \o rest
  <2>1. m = i + Len(r)
    BY <1>1, <1>4
  <2>2. From(s, i) = r \o From(s, m)
    <3>1. s \in Seq(S)
      BY <1>2
    <3>2. \A k \in Nat, w \in Seq(S), j \in Nat : Holds(s, k, w) /\ j = k + Len(w) => From(s, k) = w \o From(s, j)
      BY ONLY <3>1, FromSplits
    <3>3. i \in Nat /\ m \in Nat /\ r \in Seq(S)
      BY <1>1, <1>4
    <3> QED
      BY ONLY <1>5, <2>1, <3>2, <3>3
  <2> QED
    BY <1>3, <2>2
<1>7. b \in Scanning
  BY <1>1, OutsideScans
<1>8. st = HeadScan(p, i)
  BY DEF HeadScan, From, b, r, At, Reached, No
<1>9. HeadScan(s, i) = Scan(b, From(s, i))
  BY DEF HeadScan, From, b, At, Reached, No
<1>10. Closing(s, i) = LET end == Scan(b, From(s, i)) IN
                       IF end.depth = 0 /\ end.at < Len(s) /\ s[end.at + 1] = "]" THEN end.at ELSE 0
  BY <1>9 DEF Closing
<1> HIDE DEF b
<1>11. st \in Scanning
  BY <1>1, <1>4, <1>7, ScanGrows
<1>12. Scan(b, From(s, i)) = Scan(st, rest)
  BY <1>4, <1>6, <1>7, ScanJoins
<1>13. st.quote = NoQuote /\ (st.depth = 0 => st.at < Len(p) /\ p[st.at + 1] # "]")
  BY <1>8 DEF NoCall
<1> HIDE DEF st
<1>14. PICK d \in Nat, a \in Nat : st = At(d, NoQuote, a)
  <2>1. NoQuote # Quote /\ NoQuote # Single
    BY DEF NoQuote, Quote, Single
  <2>2. CASE \E d \in Nat, q \in {NoQuote, Quote, Single}, a \in Nat : st = At(d, q, a)
    <3>1. PICK d \in Nat, q \in {NoQuote, Quote, Single}, a \in Nat : st = At(d, q, a)
      BY <2>2
    <3>2. At(d, q, a).quote = q
      BY DEF At, Reached
    <3> QED
      BY <1>13, <3>1, <3>2
  <2>3. CASE \E d \in Nat \ {0}, q \in {Quote, Single}, a \in Nat : st = Behind(d, q, a)
    <3>1. PICK d \in Nat \ {0}, q \in {Quote, Single}, a \in Nat : st = Behind(d, q, a)
      BY <2>3
    <3>2. Behind(d, q, a).quote = q
      BY DEF Behind, Reached
    <3> QED
      BY <1>13, <2>1, <3>1, <3>2
  <2> QED
    BY <1>11, <2>2, <2>3 DEF Scanning
<1>15. st.depth = d /\ st.at = a
  BY <1>14 DEF At, Reached
<1>16. CASE d = 0
  <2>1. Scan(st, rest) = st
    BY <1>14, <1>16, ScanDone
  <2>2. a < m /\ p[a + 1] # "]"
    BY <1>13, <1>15, <1>16 DEF m
  <2>3. a + 1 \in 1..m
    BY <1>1, <2>2
  <2>4. s[a + 1] # "]"
    BY <1>2, <2>2, <2>3
  <2> QED
    BY <1>10, <1>12, <1>15, <2>1, <2>4
<1>17. CASE d # 0
  <2>1. d \in Nat \ {0}
    BY <1>17
  <2>2. Scan(st, rest) = At(d, NoQuote, a + Len(rest))
    BY <1>14, <2>1 DEF Balanced
  <2>3. At(d, NoQuote, a + Len(rest)).depth = d
    BY DEF At, Reached
  <2> QED
    BY <1>10, <1>12, <1>17, <2>2, <2>3
<1> QED
  BY <1>16, <1>17

(* No call is read in the text before the calls. *)
LEMMA ProseIsPassed ==
    ASSUME NEW S, NEW p \in Seq(S), NEW rest \in Seq(S), Balanced(rest), NEW s, s = p \o rest,
           NEW m, m = Len(p), NEW f, CallsGo(f, s, 0, m), Shows(f, 0, Seen(1, <<>>)),
           \A i \in 1..m : p[i] = Opening => NoCall(p, i)
    PROVE  Reads(f, m, <<>>)
<1>1. m \in Nat /\ \A k \in 1..m : s[k] = p[k]
  OBVIOUS
<1>2. \A i \in 1..m : s[i] = Opening => Closing(s, i) = 0
  <2> SUFFICES ASSUME NEW i \in 1..m, s[i] = Opening PROVE Closing(s, i) = 0
    OBVIOUS
  <2>1. NoCall(p, i) /\ i \in 1..Len(p)
    BY <1>1
  <2> QED
    BY <2>1, HeadIsMissed
<1>3. \A j \in 1..m : f[j] = CallStep(s, f[j - 1], j)
  <2>1. 0 + 1 = 1
    OBVIOUS
  <2> QED
    BY <2>1 DEF CallsGo
<1> DEFINE none == <<>>
           good == {k \in 0..m : Reads(f, k, none)}
<1>4. 0 \in good
  <2>1. f[0] = Seen(1, none) /\ 1 \in Nat /\ 1 <= 0 + 1 /\ 0 \in 0..m
    BY <1>1 DEF Shows
  <2> HIDE DEF none
  <2> QED
    BY <2>1 DEF Reads
<1> HIDE DEF none
<1>5. \A k \in 0..m : k \in good /\ k < m => k + 1 \in good
  <2> SUFFICES ASSUME NEW k \in 0..m, k \in good, k < m PROVE k + 1 \in good
    OBVIOUS
  <2> DEFINE i == k + 1
             q == i + 1
  <2>1. i \in 1..m /\ i \in 0..m /\ i - 1 = k /\ i \in Nat /\ q \in Nat /\ q = i + 1 /\ k \in Nat /\ k + 1 = i
    BY <1>1
  <2>2. PICK h \in Nat : h <= k + 1 /\ f[k] = Seen(h, none)
    BY DEF Reads
  <2>3. f[i] = CallStep(s, Seen(h, none), i)
    BY <1>3, <2>1, <2>2
  <2> HIDE DEF i, q, good
  <2>4. CASE s[i] # Opening
    <3>1. CallStep(s, Seen(h, none), i) = Seen(h, none)
      <4>1. i < h \/ s[i] # Opening
        BY <2>4
      <4> QED
        BY ONLY <4>1, CallIdle
    <3>2. h <= i + 1
      BY <2>1, <2>2
    <3>3. Reads(f, i, none)
      BY <2>3, <3>1, <3>2 DEF Reads
    <3> QED
      BY <2>1, <3>3 DEF good
  <2>5. CASE s[i] = Opening
    <3>1. ~(i < h) /\ Shows(s, i, Opening) /\ Closing(s, i) = 0
      BY <1>2, <2>1, <2>2, <2>5 DEF Shows
    <3>2. CallStep(s, Seen(h, none), i) = Seen(q, none)
      BY ONLY <2>1, <3>1, CallMissed
    <3>3. q <= i + 1 /\ q \in Nat
      BY <2>1
    <3>4. Reads(f, i, none)
      BY <2>3, <3>2, <3>3 DEF Reads
    <3> QED
      BY <2>1, <3>4 DEF good
  <2> QED
    BY <2>4, <2>5
<1> HIDE DEF good
<1>6. \A k \in 0..m : k \in good
  BY <1>1, <1>4, <1>5, UpTo
<1>7. m \in good
  BY <1>1, <1>6
<1> QED
  BY <1>7 DEF good, none

Written(calls) == FlattenSeq([i \in DOMAIN calls |-> Block(calls[i])])

(* Every call that is written behind such a text is read. *)
LEMMA CallsRead ==
    ASSUME NEW S, Signs \cup {Mark} \subseteq S, NEW p \in Seq(S), NEW calls \in Seq(Arguments(S)),
           \A i \in 1..Len(p) : p[i] = Opening => NoCall(p, i)
    PROVE  Parse(p \o Written(calls)) = calls
<1> DEFINE A == Arguments(S)
           n == Len(calls)
           m == Len(p)
           t == [i \in 1..n |-> Block(calls[i])]
           w == Written(calls)
           s == p \o w
<1>1. Signs \subseteq S /\ calls \in Seq(A) /\ n \in Nat /\ m \in Nat /\ \A i \in 1..n : calls[i] \in A
  OBVIOUS
<1>2. \A a \in A : Block(a) \in Seq(S) /\ Balanced(Block(a))
  BY BlockParts, BlockIsBalanced
<1>3. w = FlattenSeq(t)
  <2>1. DOMAIN calls = 1..n
    BY ONLY <1>1
  <2> QED
    BY <2>1 DEF Written
<1> HIDE DEF A, w
<1>4. t \in Seq(Seq(S)) /\ Len(t) = n /\ \A i \in 1..n : Balanced(t[i]) /\ t[i] = Block(calls[i]) /\ t[i] \in Seq(S)
  <2>1. \A i \in 1..n : Balanced(t[i]) /\ t[i] = Block(calls[i]) /\ t[i] \in Seq(S)
    BY <1>1, <1>2
  <2>2. t \in [1..n -> Seq(S)]
    BY <2>1
  <2> HIDE DEF t, n
  <2>3. t \in Seq(Seq(S)) /\ Len(t) = n
    BY <1>1, <2>2
  <2> QED
    BY <2>1, <2>3
<1> HIDE DEF t, n, m
<1>5. w \in Seq(S) /\ Balanced(w)
  <2>1. \A i \in 1..Len(t) : Balanced(t[i])
    BY <1>4
  <2> QED
    BY <1>3, <1>4, <2>1, FlattenIsBalanced
<1>6. PICK o \in [0..n -> Nat] :
        /\ o[0] = 0 /\ Len(w) = o[n]
        /\ \A i \in 1..n : o[i] = o[i - 1] + Len(t[i]) /\ Holds(w, o[i - 1], t[i])
  BY <1>3, <1>4, FlattenPlaces
<1>7. s \in Seq(S) /\ Len(s) = m + Len(w) /\ Holds(s, m, w) /\ Len(w) \in Nat /\ m <= Len(s)
  <2>1. p \in Seq(S) /\ w \in Seq(S)
    BY <1>5
  <2>2. s = p \o w
    OBVIOUS
  <2>3. Holds(p \o w, Len(p), w)
    BY <2>1, HoldsParts
  <2>4. Holds(s, m, w)
    BY <2>2, <2>3 DEF m
  <2> HIDE DEF s
  <2>5. s \in Seq(S) /\ Len(s) = Len(p) + Len(w) /\ Len(w) \in Nat
    BY ONLY <2>1, <2>2, JoinedLen
  <2> QED
    BY <1>1, <2>4, <2>5 DEF m
<1>8. PICK f \in [0..Len(s) -> Callings(S)] :
              /\ f[0] = Seen(1, <<>>) /\ Parse(s) = f[Len(s)].calls
              /\ \A i \in 1..Len(s) : f[i] = CallStep(s, f[i - 1], i)
  <2> HIDE DEF s
  <2> QED
    BY <1>1, <1>7, CallsRun
<1>9. s = p \o w
  OBVIOUS
<1> HIDE DEF s
<1>10. \A h \in Nat, l \in Nat : l <= Len(s) => CallsGo(f, s, h, l)
  <2> SUFFICES ASSUME NEW h \in Nat, NEW l \in Nat, l <= Len(s), NEW j \in (h + 1)..l
               PROVE  f[j] = CallStep(s, f[j - 1], j)
    BY DEF CallsGo
  <2>1. j \in 1..Len(s)
    BY <1>1, <1>7
  <2> QED
    BY <1>8, <2>1
<1>11. Reads(f, m, <<>>)
  <2>1. CallsGo(f, s, 0, m) /\ Shows(f, 0, Seen(1, <<>>)) /\ m = Len(p)
    BY <1>1, <1>7, <1>8, <1>10 DEF Shows, m
  <2>2. \A i \in 1..m : p[i] = Opening => NoCall(p, i)
    BY DEF m
  <2>3. p \in Seq(S) /\ w \in Seq(S) /\ Balanced(w)
    BY <1>5
  <2> QED
    BY ONLY <1>9, <2>1, <2>2, <2>3, ProseIsPassed
<1>12. Start(calls, 0) = <<>> /\ Start(calls, n) = calls
       /\ \A i \in 1..n : Start(calls, i) = Append(Start(calls, i - 1), calls[i])
  <2>1. CASE n = 0
    <3>1. calls = <<>> /\ 0 \in 0..Len(calls) /\ calls \in Seq(A)
      BY <1>1, <2>1 DEF n
    <3>2. Start(calls, 0) \in Seq(A) /\ Len(Start(calls, 0)) = 0
      BY ONLY <3>1, Starts
    <3>3. Start(calls, 0) = <<>>
      BY ONLY <3>2
    <3>4. \A i \in 1..n : FALSE
      BY <2>1
    <3> QED
      BY <2>1, <3>1, <3>3, <3>4
  <2>2. CASE n # 0
    <3>1. ASSUME NEW i \in 1..n
          PROVE  /\ Start(calls, i) = Append(Start(calls, i - 1), calls[i])
                 /\ Start(calls, 0) = <<>> /\ Start(calls, n) = calls
      <4> DEFINE g == i - 1
      <4>1. i \in 1..Len(calls) /\ g = i - 1 /\ calls \in Seq(A)
        BY <1>1 DEF n
      <4> HIDE DEF g
      <4>2. Start(calls, i) = Append(Start(calls, g), calls[i]) /\ Start(calls, 0) = <<>>
            /\ Start(calls, Len(calls)) = calls
        BY <4>1, StartGrows
      <4> QED
        BY <4>1, <4>2 DEF n
    <3>2. 1 \in 1..n
      BY <1>1, <2>2
    <3> QED
      BY <3>1, <3>2
  <2> QED
    BY <2>1, <2>2
<1> DEFINE good == {k \in 0..n : Reads(f, m + o[k], Start(calls, k))}
<1>13. 0 \in good
  <2>1. 0 \in 0..n /\ m + o[0] = m
    BY <1>1, <1>6
  <2> QED
    BY <1>11, <1>12, <2>1
<1>14. \A k \in 0..n : k \in good /\ k < n => k + 1 \in good
  <2> SUFFICES ASSUME NEW k \in 0..n, k \in good, k < n PROVE k + 1 \in good
    OBVIOUS
  <2> DEFINE i == k + 1
             args == calls[i]
             h == m + o[k]
             l == m + o[i]
             c == Start(calls, k)
             d == Start(calls, i)
  <2>1. i \in 1..n /\ i \in 0..n /\ i - 1 = k
    BY <1>1
  <2>2. args \in Arguments(S) /\ t[i] = Block(args) /\ t[i] \in Seq(S)
    BY <1>1, <1>4, <2>1 DEF A
  <2>3. o[k] \in Nat /\ o[i] \in Nat /\ o[i] = o[k] + Len(t[i]) /\ Holds(w, o[k], t[i])
    <3>1. o[i - 1] = o[k] /\ o[k] \in Nat /\ o[i] \in Nat
      BY <2>1
    <3> QED
      BY <1>6, <2>1, <3>1
  <2>4. h \in Nat /\ l \in Nat /\ l = h + Len(Block(args)) /\ l <= Len(s)
    <3>1. Len(t[i]) \in Nat
      BY <2>2
    <3>2. o[k] + Len(t[i]) <= Len(w)
      BY <2>3 DEF Holds
    <3> DEFINE x == o[k]
               y == o[i]
               z == Len(t[i])
               u == Len(s)
               v == Len(w)
    <3>3. x \in Nat /\ y \in Nat /\ z \in Nat /\ y = x + z /\ x + z <= v /\ u = m + v /\ m \in Nat /\ v \in Nat
          /\ h = m + x /\ l = m + y /\ Len(Block(args)) = z
      BY <1>1, <1>7, <2>2, <2>3, <3>1, <3>2
    <3>4. u = Len(s)
      OBVIOUS
    <3> HIDE DEF x, y, z, u, v, h, l
    <3> QED
      BY ONLY <3>3, <3>4
  <2>5. Holds(s, h, Block(args))
    <3> DEFINE u == t[i]
               x == o[k]
    <3>1. u \in Seq(S) /\ x \in Nat /\ Holds(w, x, u)
      BY <2>2, <2>3
    <3> HIDE DEF u, x
    <3>2. Holds(s, m + x, u)
      BY <1>1, <1>5, <1>7, <3>1, HoldsWithin
    <3> QED
      BY <2>2, <3>2 DEF u, x
  <2>6. d = More(c, args)
    BY <1>12, <2>1 DEF More
  <2>7. Reads(f, h, c)
    OBVIOUS
  <2> HIDE DEF i, args, h, l, c, d, good
  <2>8. CallsGo(f, s, h, l) /\ s \in Seq(S) /\ Signs \cup {Mark} \subseteq S
    BY <1>7, <1>10, <2>4
  <2>9. Reads(f, l, d)
    BY ONLY <2>2, <2>4, <2>5, <2>6, <2>7, <2>8, CallReads
  <2> QED
    BY <2>1, <2>9 DEF good, l, d, i
<1> HIDE DEF good
<1>15. \A k \in 0..n : k \in good
  BY <1>1, <1>13, <1>14, UpTo
<1>16. Reads(f, m + o[n], calls)
  <2>1. n \in good
    BY <1>1, <1>15
  <2> QED
    BY <1>12, <2>1 DEF good
<1>17. PICK q \in Nat : f[m + o[n]] = Seen(q, calls)
  BY <1>16 DEF Reads
<1>18. Parse(s) = Seen(q, calls).calls
  BY <1>6, <1>7, <1>8, <1>17
<1> QED
  BY <1>9, <1>18 DEF Seen, w

(* What the formatter writes of a call, and a line end, is its Block. *)
LEMMA FormatIsBlock ==
    ASSUME NEW S, Signs \cup {Mark} \subseteq S, NEW args \in Arguments(S)
    PROVE  Format(args) \o <<"\n">> = Block(args)
<1> DEFINE w == Body(args)
           v == <<Opening>>
           a == ")"
           b == "]"
           c == "\n"
           two == <<a, b>>
           one == <<c>>
           vw == v \o w
           wt == w \o two
<1>1. Signs \subseteq S /\ Opening \in S /\ a \in S /\ b \in S /\ c \in S
  BY DEF Signs, Mark
<1>2. Format(args) = vw \o two
  BY DEF Format, Body, Piece
<1>3. w \in Seq(S)
  BY <1>1, BodyIsBalanced
<1>4. Close = <<a, b, c>> /\ Block(args) = v \o (w \o Close)
  BY DEF Close, Mark, Block
<1> HIDE DEF w, a, b, c
<1>5. v \in Seq(S) /\ two \in Seq(S) /\ one \in Seq(S)
  BY <1>1
<1>6. two \o one = Close
  <2> DEFINE x == two \o one
             y == <<a, b, c>>
  <2>1. x \in Seq(S) /\ Len(x) = 3 /\ x[1] = a /\ x[2] = b /\ x[3] = c
    BY <1>1
  <2>2. y \in Seq(S) /\ Len(y) = 3 /\ y[1] = a /\ y[2] = b /\ y[3] = c
    BY <1>1
  <2> HIDE DEF x, y
  <2>3. \A i \in 1..Len(x) : x[i] = y[i]
    <3>1. \A i \in 1..3 : i = 1 \/ i = 2 \/ i = 3
      OBVIOUS
    <3> QED
      BY <2>1, <2>2, <3>1
  <2>4. x = y
    BY <2>1, <2>2, <2>3, SameText
  <2> QED
    BY <1>4, <2>4 DEF x, y
<1> HIDE DEF v, two, one
<1>7. vw \in Seq(S)
  BY <1>3, <1>5
<1>8. (vw \o two) \o one = vw \o (two \o one)
  <2> HIDE DEF vw
  <2> QED
    BY <1>5, <1>7, ConcatRegroups
<1>9. two \o one \in Seq(S)
  BY <1>5
<1>10. (v \o w) \o Close = v \o (w \o Close)
  <2>1. Close \in Seq(S)
    BY <1>6, <1>9
  <2>2. v \in Seq(S) /\ w \in Seq(S)
    BY <1>3, <1>5
  <2> QED
    BY ONLY <2>1, <2>2, ConcatRegroups
<1>11. Format(args) \o one = Block(args)
  BY <1>2, <1>4, <1>6, <1>8, <1>10
<1> QED
  BY <1>11 DEF one, c

-----------------------------------------------------------------------------
(* Whatever characters the arguments and the text before them are made of. *)
Characters == Typed \cup (Signs \cup {Mark}) \cup UNION {Range(p) : p \in Prose}

(* A text over some signs is one over more. *)
LEMMA LongerAlphabet ==
    ASSUME NEW S, NEW T, S \subseteq T, NEW s \in Seq(S)
    PROVE  s \in Seq(T)
OBVIOUS

(* The calls that are written behind a text without calls are read back:     *)
(* how many there are, their arguments and types, whatever a string holds    *)
(* (format_tool_call, _parse_textual_tool_calls).                            *)
THEOREM CallsAreReadBack ==
    ASSUME ProtocolAssumption, NEW p \in Prose, NEW calls \in Seq(Arguments(Characters))
    PROVE  Parse(p \o FlattenSeq([i \in DOMAIN calls |-> Format(calls[i]) \o <<"\n">>])) = calls
<1> DEFINE S == Characters
           A == Arguments(S)
           written == FlattenSeq([i \in DOMAIN calls |-> Format(calls[i]) \o <<"\n">>])
<1>1. Signs \cup {Mark} \subseteq S /\ Range(p) \subseteq S
  BY DEF Characters
<1>2. p \in Seq(Range(p)) /\ \A i \in DOMAIN p : p[i] = Opening => NoCall(p, i)
  BY DEF ProtocolAssumption, NoCall
<1>3. p \in Seq(S)
  BY <1>1, <1>2, LongerAlphabet
<1>4. \A i \in 1..Len(p) : p[i] = Opening => NoCall(p, i)
  BY <1>2, <1>3
<1>5. calls \in Seq(A)
  OBVIOUS
<1> HIDE DEF S
<1>6. \A a \in A : Format(a) \o <<"\n">> = Block(a)
  BY <1>1, FormatIsBlock
<1> HIDE DEF A
<1>7. \A i \in DOMAIN calls : calls[i] \in A
  BY <1>5
<1>8. written = Written(calls)
  <2>1. \A i \in DOMAIN calls : Format(calls[i]) \o <<"\n">> = Block(calls[i])
    BY <1>6, <1>7
  <2>2. [i \in DOMAIN calls |-> Format(calls[i]) \o <<"\n">>] = [i \in DOMAIN calls |-> Block(calls[i])]
    BY <2>1
  <2> QED
    BY <2>2 DEF Written
<1> HIDE DEF written
<1>9. Parse(p \o Written(calls)) = calls
  BY <1>1, <1>3, <1>4, <1>5, CallsRead DEF A
<1> QED
  BY <1>8, <1>9 DEF written

ProtocolSpec == ProtocolInit /\ [][Type]_protocolVars

(* What is taught reads back as it was meant, however long the argument.     *)
THEOREM CallsAlwaysSurvive ==
    ASSUME ProtocolAssumption
    PROVE  ProtocolSpec => []CallsSurviveText
<1> DEFINE Typing == value \in Seq(Typed) /\ before \in Prose
<1>1. ProtocolInit => Typing
  BY DEF ProtocolInit
<1>2. Typing /\ [Type]_protocolVars => Typing'
  <2> SUFFICES ASSUME Typing, [Type]_protocolVars PROVE Typing'
    OBVIOUS
  <2>1. CASE Type
    BY <2>1 DEF Type
  <2>2. CASE UNCHANGED protocolVars
    BY <2>2 DEF protocolVars
  <2> QED
    BY <2>1, <2>2
<1>3. Typing => CallsSurviveText
  <2> SUFFICES ASSUME Typing, NEW calls \in Taught
               PROVE  Parse(before \o FlattenSeq([i \in DOMAIN calls |-> Format(calls[i]) \o <<"\n">>])) = calls
    BY DEF CallsSurviveText
  <2> DEFINE S == Characters
             KV == Keys \X Values(S)
             A == Seq(KV)
  <2>1. Str(value) \in Values(S) /\ Lit("7") \in Values(S) /\ Lit("true") \in Values(S)
    <3>1. Typed \subseteq S
      BY DEF Characters
    <3>2. value \in Seq(S)
      BY <3>1, LongerAlphabet
    <3>3. "7" \in Literals /\ "true" \in Literals
      BY DEF Literals
    <3> HIDE DEF S
    <3> QED
      BY <3>2, <3>3 DEF Values
  <2>2. "query" \in Keys /\ "k" \in Keys
    BY DEF Keys
  <2> DEFINE q == <<"query", Str(value)>>
             k == <<"k", Str(value)>>
             seven == <<"k", Lit("7")>>
             true == <<"k", Lit("true")>>
  <2>3. q \in KV /\ k \in KV /\ seven \in KV /\ true \in KV
    BY <2>1, <2>2
  <2>4. calls = << <<q>>, <<k>> >> \/ calls = << <<seven, q>> >> \/ calls = << <<q, true>> >>
    BY DEF Taught
  <2> HIDE DEF KV, q, k, seven, true
  <2>5. <<q>> \in A /\ <<k>> \in A /\ <<seven, q>> \in A /\ <<q, true>> \in A
    BY <2>3
  <2> DEFINE a1 == <<q>>
             a2 == <<k>>
             a3 == <<seven, q>>
             a4 == <<q, true>>
  <2>6. a1 \in A /\ a2 \in A /\ a3 \in A /\ a4 \in A
        /\ (calls = <<a1, a2>> \/ calls = <<a3>> \/ calls = <<a4>>)
    BY <2>4, <2>5
  <2>7. A = Arguments(Characters)
    BY DEF Arguments, KV
  <2> HIDE DEF A, a1, a2, a3, a4
  <2>8. calls \in Seq(A)
    <3>1. <<a1, a2>> \in Seq(A) /\ <<a3>> \in Seq(A) /\ <<a4>> \in Seq(A)
      BY ONLY <2>6
    <3> QED
      BY ONLY <2>6, <3>1
  <2> QED
    BY <2>7, <2>8, CallsAreReadBack
<1> QED
  BY <1>1, <1>2, <1>3, PTL DEF ProtocolSpec
=============================================================================
