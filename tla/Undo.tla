-------------------------------- MODULE Undo --------------------------------
(***************************************************************************)
(* agent/undo.py: the snapshot before an approved file_write or            *)
(* file_delete, its rollback, and the verdict crash recovery takes from it *)
(* about a write that the crash cut.  An approved write is a snapshot on   *)
(* the event loop (controller.py) and a write in a thread; a rollback runs *)
(* in a thread of its own; either may be cut by a crash.                   *)
(***************************************************************************)
EXTENDS Integers, FiniteSets

CONSTANTS
  Paths,         \* the files that are written
  Workspace,     \* those inside workspace/
  Texts,         \* their contents
  Missing,       \* the content of a file that does not exist
  Alike,         \* <<p, q>>: the name given for p is part of q's path, or the reverse
  MaxSnapshots,  \* bound: approved writes
  MaxChanges     \* bound: other writes, weeks and crashes

ASSUME UndoAssumption ==
  /\ Workspace \subseteq Paths /\ Missing \notin Texts
  /\ Alike \subseteq Paths \X Paths
  /\ MaxSnapshots \in Nat /\ MaxChanges \in Nat

VARIABLES
  files,    \* what each file holds
  aged,     \* files whose mtime lies before the TTL
  slot,     \* meta last_undo
  shots,    \* workspace/undo
  writes,   \* approved writes whose tool has not written yet
  back,     \* rollback_last, where its thread is
  step,     \* the green write the journal has as started
  note,     \* what crash recovery says of a write that was cut
  taken,    \* snapshots taken so far: their file names differ
  last,     \* history: the last approved write that was recorded, and what stood there
  changes

undoVars == <<files, aged, slot, shots, writes, back, step, note, taken, last, changes>>
disk     == <<files, aged>>

NoSlot == [kind |-> "none"]
NoStep == [path |-> "none"]
Resting == [at |-> "idle", slot |-> NoSlot, last |-> NoStep]

\* the trust zone of file_write and file_delete: yellow outside workspace/
NeedsApproval(p) == p \notin Workspace

Existing == {p \in Paths : files[p] # Missing}

UndoInit ==
  /\ files \in [Paths -> Texts \cup {Missing}] /\ aged \in SUBSET Existing
  /\ slot = NoSlot /\ shots = {} /\ writes = {} /\ back = Resting
  /\ step = NoStep /\ note = "none"
  /\ taken = 0 /\ last = NoStep /\ changes = 0

Change == changes < MaxChanges /\ changes' = changes + 1

Put(p, text) == files' = [files EXCEPT ![p] = text] /\ aged' = aged \ {p}

-----------------------------------------------------------------------------
\* _prune_old: copy2 kept the mtime of the file, so a snapshot is as old as
\* the content it holds
Kept == {s \in shots : ~s.aged}

\* mutant: a file that does not exist yet leaves the slot as it was
SlotIfExisting(p) ==
  IF files[p] = Missing THEN slot
  ELSE [kind |-> "overwritten", target |-> p, snap |-> taken + 1]

SlotFor(p) ==
  IF files[p] = Missing THEN [kind |-> "created", target |-> p]
  ELSE [kind |-> "overwritten", target |-> p, snap |-> taken + 1]

\* snapshot_before_write.  A copy that fails is logged and forgotten; so is,
\* in the controller, a slot that could not be saved.
Snapshot(p) ==
  \E copied, saved \in BOOLEAN :
    LET copies == files[p] # Missing /\ copied
        records == saved /\ (files[p] = Missing \/ copies)
        shot == [id |-> taken + 1, text |-> files[p], aged |-> p \in aged]
    IN /\ taken' = taken + 1
       /\ shots' = IF copies THEN Kept \cup {shot} ELSE Kept
       /\ slot' = IF records THEN SlotFor(p) ELSE slot
       /\ last' = IF records THEN [path |-> p, text |-> files[p]] ELSE last

\* _run_approved_tool; a path that leaves workspace/ by ".." is refused by
\* the snapshot and by the tool alike
Approve(p, text) ==
  /\ NeedsApproval(p) /\ taken < MaxSnapshots
  /\ Snapshot(p)
  /\ writes' = writes \cup {[path |-> p, text |-> text]}
  /\ UNCHANGED <<disk, back, step, note, changes>>

\* write_file, delete_file (which finds nothing to delete), or an exception
Land(w) ==
  /\ writes' = writes \ {w}
  /\ Put(w.path, w.text) \/ UNCHANGED disk
  /\ UNCHANGED <<slot, shots, back, step, note, taken, last, changes>>

\* the executor's own write inside workspace/, between its two journal entries
StartGreen(p, text) ==
  /\ ~NeedsApproval(p) /\ step = NoStep /\ Change
  /\ step' = [path |-> p, text |-> text]
  /\ UNCHANGED <<disk, slot, shots, writes, back, note, taken, last>>

LandGreen ==
  /\ step # NoStep
  /\ Put(step.path, step.text) /\ step' = NoStep
  /\ UNCHANGED <<slot, shots, writes, back, note, taken, last, changes>>

(* what else writes files takes no snapshot, approved or not *)

Makes(p, text) ==
  /\ Change /\ text # Missing /\ Put(p, text)
  /\ UNCHANGED <<slot, shots, writes, back, step, note, taken, last>>

\* file_archive, with what it found of its files; the archive is there even
\* if one was not found
ArchiveFiles(p, text) == Makes(p, text)

ConvertImage(p, text) == Existing # {} /\ Makes(p, text)

DownloadFile(p, text) == Makes(p, text)

\* file_extract: several files, some of them over what was there; those of a
\* tar archive keep the mtime they have in it
Extract(places, text) ==
  /\ Change /\ text # Missing /\ Existing # {}
  /\ files' = [q \in Paths |-> IF q \in places THEN text ELSE files[q]]
  /\ \E old \in SUBSET places : aged' = (aged \ places) \cup old
  /\ UNCHANGED <<slot, shots, writes, back, step, note, taken, last>>

\* file_move keeps the mtime
MoveFile(p, q) ==
  /\ Change /\ p # q /\ files[p] # Missing
  /\ files' = [files EXCEPT ![q] = files[p], ![p] = Missing]
  /\ aged' = IF p \in aged THEN (aged \ {p}) \cup {q} ELSE aged \ {p, q}
  /\ UNCHANGED <<slot, shots, writes, back, step, note, taken, last>>

\* Lin or a shell command
ChangedByHand(p, text) ==
  /\ Change /\ Put(p, text)
  /\ UNCHANGED <<slot, shots, writes, back, step, note, taken, last>>

\* UNDO_TTL_DAYS pass
Weeks ==
  /\ Change /\ writes = {} /\ step = NoStep /\ back = Resting
  /\ aged' = Existing /\ shots' = {[s EXCEPT !.aged = TRUE] : s \in shots}
  /\ UNCHANGED <<files, slot, writes, back, step, note, taken, last>>

-----------------------------------------------------------------------------
\* rollback_last: reads the slot, ...
Rollback ==
  /\ back.at = "idle" /\ slot # NoSlot
  /\ back' = [at |-> "found", slot |-> slot, last |-> last]
  /\ UNCHANGED <<disk, slot, shots, writes, step, note, taken, last, changes>>

Snaps(s) == {shot \in shots : s.kind = "overwritten" /\ shot.id = s.snap}

\* ... puts the file back, ...
Restore ==
  /\ back.at = "found"
  /\ \/ /\ back.slot.kind = "created"
        /\ Put(back.slot.target, Missing)
     \/ \E s \in Snaps(back.slot) :
          /\ files' = [files EXCEPT ![back.slot.target] = s.text]
          /\ aged' = IF s.aged THEN aged \cup {back.slot.target} ELSE aged \ {back.slot.target}
  /\ back' = [back EXCEPT !.at = "restored"]
  /\ UNCHANGED <<slot, shots, writes, step, note, taken, last, changes>>

\* ... or cannot
RestoreFails ==
  /\ back.at = "found" /\ back' = Resting
  /\ UNCHANGED <<disk, slot, shots, writes, step, note, taken, last, changes>>

\* ... and empties the slot, whatever it holds by then
ClearSlot ==
  /\ back.at = "restored" /\ back' = Resting
  /\ slot' = NoSlot
  /\ UNCHANGED <<disk, shots, writes, step, note, taken, last, changes>>

\* verify_last_write: filename_hint may match a file of another name
Verdict(hint) ==
  CASE slot = NoSlot -> "unknown"
    [] slot.target # hint /\ <<hint, slot.target>> \notin Alike -> "unknown"
    [] slot.kind = "created" -> IF files[slot.target] = Missing THEN "not landed" ELSE "landed"
    [] Snaps(slot) = {} -> "unknown"
    [] OTHER -> IF \E s \in Snaps(slot) : s.text = files[slot.target]
                THEN "not landed" ELSE "landed"

\* The process dies, and the next one takes its verdict for the session's note.
CrashAndVerify ==
  /\ Change
  /\ writes' = {} /\ back' = Resting /\ step' = NoStep
  /\ note' = IF step = NoStep THEN "none" ELSE Verdict(step.path)
  /\ UNCHANGED <<disk, slot, shots, taken, last>>

UndoNext ==
  \/ \E p \in Paths, text \in Texts \cup {Missing} :
       \/ Approve(p, text)
       \/ StartGreen(p, text)
       \/ ArchiveFiles(p, text)
       \/ DownloadFile(p, text)
       \/ ConvertImage(p, text)
       \/ ChangedByHand(p, text)
  \/ \E p, q \in Paths : MoveFile(p, q)
  \/ \E places \in SUBSET Paths, text \in Texts : Extract(places, text)
  \/ \E w \in writes : Land(w)
  \/ LandGreen
  \/ Weeks
  \/ Rollback
  \/ Restore
  \/ RestoreFails
  \/ ClearSlot
  \/ CrashAndVerify

UndoSpec == UndoInit /\ [][UndoNext]_undoVars

-----------------------------------------------------------------------------
UndoTypeOK ==
  /\ files \in [Paths -> Texts \cup {Missing}] /\ aged \subseteq Existing
  /\ slot.kind \in {"none", "created", "overwritten"}
  /\ \A s \in shots : s.id \in 1..taken /\ s.text \in Texts
  /\ back.at \in {"idle", "found", "restored"}
  /\ note \in {"none", "unknown", "landed", "not landed"}
  /\ taken \in 0..MaxSnapshots /\ changes \in 0..MaxChanges

\* A rollback that restores puts the file of the last approved write that
\* was recorded, and no other file, back to what stood there before that
\* write: through snapshots that fail, are pruned by the age of what they
\* hold, or were taken for a file that did not exist (undo.py:49-72, 120-151).
RollbackExact ==
  [][back.at = "found" /\ back'.at = "restored" =>
       files' = [files EXCEPT ![back.last.path] = back.last.text]]_undoVars
=============================================================================
