---------------------------- MODULE House_proofs ----------------------------
(***************************************************************************)
(* The small machines of the house: the folder of run logs, the undo slot, *)
(* the plan of the day, the bus and the window, for any files, threads,    *)
(* dates, processes and bounds; at the end the types of all six machines   *)
(* together, the launcher's from its own proofs.                           *)
(***************************************************************************)
EXTENDS MCHouse, Launcher_proofs, FiniteSetTheorems, TLAPS

-----------------------------------------------------------------------------
(* Audit.                                                                  *)

(***************************************************************************)
(* MilestonesHonest is not inductive: between the reading of the counter   *)
(* and its mark the milestone must stay beyond the counter and below what  *)
(* was counted.  A milestone that was told stays at or below the counter.  *)
(***************************************************************************)
AuditTypes ==
  /\ normal \subseteq 1..written /\ IsFiniteSet(normal) /\ written \in Nat
  /\ counter \in Milestones \cup {0} /\ peak \in Nat
  /\ check \in [at : {"idle", "count", "load", "save"}, count : Nat,
                mark : Milestones \cup {0}]
  /\ fired \in [Milestones -> Nat]

CheckInv ==
  /\ check.at \in {"load", "save"} => check.count <= peak
  /\ check.at = "save" =>
       /\ check.mark \in Milestones
       /\ counter < check.mark /\ check.mark <= check.count

AuditInv ==
  /\ AuditTypes
  /\ Cardinality(normal) <= peak /\ counter <= peak
  /\ \A m \in Milestones : fired[m] <= 1 /\ (fired[m] > 0 => m <= counter)
  /\ CheckInv

\* A folder that loses a log is no fuller; one that gets a log is still finite.
LEMMA Folder ==
  ASSUME NEW S, IsFiniteSet(S), NEW x
  PROVE  /\ IsFiniteSet(S \cup {x}) /\ IsFiniteSet(S \ {x})
         /\ Cardinality(S) \in Nat /\ Cardinality(S \cup {x}) \in Nat
         /\ Cardinality(S \ {x}) \in Nat /\ Cardinality(S \ {x}) <= Cardinality(S)
<1>1. IsFiniteSet(S \cup {x})
  BY FS_AddElement
<1>2. IsFiniteSet(S \ {x}) /\ Cardinality(S \ {x}) <= Cardinality(S)
  BY FS_Subset
<1> QED BY <1>1, <1>2, FS_CardinalityType

\* The machine is started on a folder without logs.
LEMMA AuditStarts == AuditInit => AuditInv
<1>1. IsFiniteSet({}) /\ Cardinality({}) = 0
  BY FS_EmptySet
<1> QED
  BY <1>1, AuditAssumption
  DEF AuditAssumption, AuditInit, AuditInv, AuditTypes, CheckInv, NoCheck, NoneFired

\* Every step of the counting thread, the archivers and the log writers keeps it.
LEMMA AuditStep == AuditInv /\ [AuditNext]_auditVars => AuditInv'
<1> SUFFICES ASSUME AuditInv, [AuditNext]_auditVars PROVE AuditInv'
  OBVIOUS
<1> USE AuditAssumption DEF AuditAssumption, AuditInv, AuditTypes, CheckInv
<1>0. Cardinality(normal) \in Nat
  BY FS_CardinalityType
<1>1. CASE CloseLog
  <2>0. IsFiniteSet(normal \cup {written + 1}) /\ Cardinality(normal \cup {written + 1}) \in Nat
    BY Folder
  <2>1. IsFiniteSet(normal') /\ Cardinality(normal') \in Nat
    BY <1>0, <1>1, <2>0 DEF CloseLog
  <2>2. peak' \in Nat /\ Cardinality(normal') <= peak' /\ peak <= peak'
    BY <1>1, <2>1 DEF CloseLog, Higher
  <2>3. normal' \subseteq 1..written' /\ written' \in Nat
    BY <1>1 DEF CloseLog
  <2> QED BY <1>1, <2>1, <2>2, <2>3 DEF CloseLog, NoCheck
<1>2. CASE CountLogs
  BY <1>0, <1>2 DEF CountLogs
<1>3. CASE LoadCounter
  <2>1. CASE check' = NoCheck
    BY <1>3, <2>1 DEF LoadCounter, NoCheck
  <2>2. ASSUME NEW m \in Crossed(check.count), check' = [check EXCEPT !.at = "save", !.mark = m]
        PROVE  AuditInv'
    BY <1>3, <2>2 DEF LoadCounter, Crossed
  <2> QED BY <1>3, <2>1, <2>2 DEF LoadCounter
<1>4. CASE SaveCounter
  <2>1. check.mark \in Milestones /\ counter < check.mark /\ check.mark <= peak /\ check.mark \in Nat
    BY <1>4 DEF SaveCounter
  <2>2. fired[check.mark] = 0
    BY <2>1
  <2>3. fired' \in [Milestones -> Nat] /\ \A m \in Milestones :
          fired'[m] = IF m = check.mark THEN 1 ELSE fired[m]
    BY <1>4, <2>1, <2>2 DEF SaveCounter
  <2> QED BY <1>4, <2>1, <2>3 DEF SaveCounter, NoCheck
<1>5. CASE CheckRaises
  BY <1>5 DEF CheckRaises, NoCheck
<1>6. ASSUME NEW a \in Archivers, ListAndZip(a) PROVE AuditInv'
  BY <1>6 DEF ListAndZip
<1>7. ASSUME NEW a \in Archivers, NEW f \in archive[a].files, Unlink(a, f) PROVE AuditInv'
  <2>0. /\ IsFiniteSet(normal \ {f}) /\ Cardinality(normal \ {f}) \in Nat
        /\ Cardinality(normal \ {f}) <= Cardinality(normal)
    BY Folder
  <2>1. IsFiniteSet(normal') /\ Cardinality(normal') <= Cardinality(normal) /\ Cardinality(normal') \in Nat
    <3>1. normal' = normal \/ normal' = normal \ {f}
      BY <1>7 DEF Unlink
    <3>2. CASE normal' = normal
      BY <1>0, <3>2
    <3>3. CASE normal' = normal \ {f}
      BY <2>0, <3>3
    <3> QED BY <3>1, <3>2, <3>3
  <2>2. normal' \subseteq normal
    BY <1>7 DEF Unlink
  <2> QED BY <1>0, <1>7, <2>1, <2>2 DEF Unlink
<1>8. ASSUME NEW a \in Archivers, ResetCounter(a) PROVE AuditInv'
  BY <1>0, <1>8 DEF ResetCounter, NoneFired
<1>9. CASE AuditCrash
  BY <1>9 DEF AuditCrash, NoCheck
<1>10. CASE UNCHANGED auditVars
  BY <1>10 DEF auditVars
<1> QED BY <1>1, <1>2, <1>3, <1>4, <1>5, <1>6, <1>7, <1>8, <1>9, <1>10 DEF AuditNext

\* Whatever a thread does to folder and counter in the middle of a check, each
\* milestone is told at most once between two resets and none is marked that no
\* check has counted.
THEOREM MilestonesTold == AuditSpec => []MilestonesHonest
<1>1. AuditInv => MilestonesHonest
  BY DEF AuditInv, MilestonesHonest
<1> QED BY <1>1, AuditStarts, AuditStep, PTL DEF AuditSpec

-----------------------------------------------------------------------------
(* Undo.                                                                   *)

(***************************************************************************)
(* RollbackExact rests on what a slot says of the last recorded write.  A  *)
(* rollback keeps the slot it found, and what the slot said then, while    *)
(* others snapshot and prune: ids are never used twice, so a snapshot it   *)
(* still finds is the one it means.                                        *)
(***************************************************************************)
Tells(s, l) ==
  /\ s.kind \in {"created", "overwritten"}
  /\ s.target = l.path
  /\ s.kind = "created" => l.text = Missing
  /\ s.kind = "overwritten" =>
       /\ s.snap \in 1..taken
       /\ \A shot \in shots : shot.id = s.snap => shot.text = l.text

UndoInv ==
  /\ taken \in Nat
  /\ \A shot \in shots : shot.id \in 1..taken
  /\ slot = NoSlot \/ Tells(slot, last)
  /\ back.at \in {"idle", "found", "restored"}
  /\ back.at = "found" => Tells(back.slot, back.last)

\* Nothing a slot says changes while no snapshot is taken and none gets older.
LEMMA StillTells ==
  ASSUME taken' = taken, shots' = shots, NEW s, NEW l, Tells(s, l)
  PROVE  Tells(s, l)'
  BY DEF Tells

\* The machine is started without a slot and without snapshots.
LEMMA UndoStarts == UndoInit => UndoInv
  BY DEF UndoInit, UndoInv, Resting

\* A snapshot is pruned or joined by one with a new id.
LEMMA SnapshotTells ==
  ASSUME UndoInv, NEW p, Snapshot(p), back' = back
  PROVE  UndoInv'
<1> USE DEF UndoInv
<1> PICK copied \in BOOLEAN, saved \in BOOLEAN :
      LET copies == files[p] # Missing /\ copied
          records == saved /\ (files[p] = Missing \/ copies)
          shot == [id |-> taken + 1, text |-> files[p], aged |-> p \in aged]
      IN /\ taken' = taken + 1
         /\ shots' = IF copies THEN Kept \cup {shot} ELSE Kept
         /\ slot' = IF records THEN SlotFor(p) ELSE slot
         /\ last' = IF records THEN [path |-> p, text |-> files[p]] ELSE last
  BY DEF Snapshot
<1>1. taken' = taken + 1 /\ taken' \in Nat /\ taken + 1 \notin 1..taken /\ 1..taken \subseteq 1..taken'
  OBVIOUS
<1>2. \A shot \in shots' : shot \in shots \/ (shot.id = taken + 1 /\ shot.text = files[p])
  BY DEF Kept
<1>3. \A shot \in shots' : shot.id \in 1..taken'
  BY <1>1, <1>2
<1>4. ASSUME NEW s, NEW l, Tells(s, l) PROVE Tells(s, l)'
  BY <1>1, <1>2, <1>4 DEF Tells
<1>5. slot' = NoSlot \/ Tells(slot, last)'
  <2>1. CASE slot' = SlotFor(p) /\ last' = [path |-> p, text |-> files[p]]
    <3>1. CASE files[p] = Missing
      BY <2>1, <3>1 DEF SlotFor, Tells
    <3>2. CASE files[p] # Missing
      <4>1. \A shot \in shots : shot.id # taken + 1
        BY <1>1
      <4> QED BY <1>1, <1>2, <2>1, <3>2, <4>1 DEF SlotFor, Tells
    <3> QED BY <3>1, <3>2
  <2>2. CASE slot' = slot /\ last' = last
    BY <1>4, <2>2
  <2> QED BY <2>1, <2>2
<1>6. back'.at = "found" => Tells(back.slot, back.last)'
  BY <1>4
<1> QED BY <1>1, <1>3, <1>5, <1>6

\* A step that takes no snapshot and finds no slot.
LEMMA OthersTell ==
  ASSUME UndoInv, taken' = taken, slot' = slot, last' = last,
         back' = back \/ back' = Resting,
         \A shot \in shots' : \E old \in shots : shot.id = old.id /\ shot.text = old.text
  PROVE  UndoInv'
<1>1. ASSUME NEW s, NEW l, Tells(s, l) PROVE Tells(s, l)'
  BY <1>1 DEF Tells
<1> QED BY <1>1 DEF UndoInv, Resting

\* Every write, snapshot, pruning, rollback and crash keeps it.
LEMMA UndoStep == UndoInv /\ [UndoNext]_undoVars => UndoInv'
<1> SUFFICES ASSUME UndoInv, [UndoNext]_undoVars PROVE UndoInv'
  OBVIOUS
<1>0. \A shot \in shots : \E old \in shots : shot.id = old.id /\ shot.text = old.text
  OBVIOUS
<1>1. ASSUME NEW p \in Paths, NEW text \in Texts \cup {Missing}, Approve(p, text)
      PROVE  UndoInv'
  BY <1>1, SnapshotTells DEF Approve
<1>2. ASSUME NEW p \in Paths, NEW text \in Texts \cup {Missing},
             \/ StartGreen(p, text) \/ ArchiveFiles(p, text) \/ DownloadFile(p, text)
             \/ ConvertImage(p, text) \/ ChangedByHand(p, text)
      PROVE  UndoInv'
  BY <1>0, <1>2, OthersTell
  DEF StartGreen, ArchiveFiles, DownloadFile, ConvertImage, ChangedByHand, Makes
<1>3. ASSUME NEW p \in Paths, NEW q \in Paths, MoveFile(p, q) PROVE UndoInv'
  BY <1>0, <1>3, OthersTell DEF MoveFile
<1>4. ASSUME NEW places \in SUBSET Paths, NEW text \in Texts, Extract(places, text)
      PROVE  UndoInv'
  BY <1>0, <1>4, OthersTell DEF Extract
<1>5. ASSUME NEW w \in writes, Land(w) PROVE UndoInv'
  BY <1>0, <1>5, OthersTell DEF Land
<1>6. CASE LandGreen
  BY <1>0, <1>6, OthersTell DEF LandGreen
<1>7. CASE Weeks
  <2>1. \A shot \in shots' : \E old \in shots : shot.id = old.id /\ shot.text = old.text
    <3> SUFFICES ASSUME NEW shot \in shots'
                 PROVE  \E old \in shots : shot.id = old.id /\ shot.text = old.text
      OBVIOUS
    <3>1. PICK old \in shots : shot = [old EXCEPT !.aged = TRUE]
      BY <1>7 DEF Weeks
    <3> QED BY <3>1
  <2> QED BY <1>7, <2>1, OthersTell DEF Weeks
<1>8. CASE Rollback
  BY <1>8 DEF Rollback, UndoInv, Tells
<1>9. CASE Restore
  <2>1. back'.at = "restored"
    BY <1>9 DEF Restore, UndoInv
  <2> QED BY <1>9, <2>1 DEF Restore, UndoInv, Tells
<1>10. CASE RestoreFails
  BY <1>0, <1>10, OthersTell DEF RestoreFails
<1>11. CASE ClearSlot
  BY <1>11 DEF ClearSlot, UndoInv, Resting
<1>12. CASE CrashAndVerify
  BY <1>0, <1>12, OthersTell DEF CrashAndVerify
<1>13. CASE UNCHANGED undoVars
  BY <1>0, <1>13, OthersTell DEF undoVars
<1> QED
  BY <1>1, <1>2, <1>3, <1>4, <1>5, <1>6, <1>7, <1>8, <1>9, <1>10, <1>11, <1>12, <1>13
  DEF UndoNext

\* A rollback that restores does to the files what undoes the last recorded
\* write, and nothing else.
LEMMA RestoresLast ==
  UndoInv /\ [UndoNext]_undoVars =>
    (back.at = "found" /\ back'.at = "restored" =>
       files' = [files EXCEPT ![back.last.path] = back.last.text])
<1> SUFFICES ASSUME UndoInv, [UndoNext]_undoVars, back.at = "found", back'.at = "restored"
             PROVE  files' = [files EXCEPT ![back.last.path] = back.last.text]
  OBVIOUS
<1>1. Restore
  BY DEF UndoNext, undoVars, Approve, StartGreen, ArchiveFiles, DownloadFile, ConvertImage,
         ChangedByHand, Makes, MoveFile, Extract, Land, LandGreen, Weeks, Rollback,
         RestoreFails, ClearSlot, CrashAndVerify, Resting
<1>2. Tells(back.slot, back.last)
  BY DEF UndoInv
<1>3. CASE back.slot.kind = "created" /\ Put(back.slot.target, Missing)
  BY <1>2, <1>3 DEF Put, Tells
<1>4. ASSUME NEW s \in Snaps(back.slot), files' = [files EXCEPT ![back.slot.target] = s.text]
      PROVE  files' = [files EXCEPT ![back.last.path] = back.last.text]
  BY <1>2, <1>4 DEF Snaps, Tells
<1> QED BY <1>1, <1>3, <1>4 DEF Restore

\* Whatever else writes, snapshots, prunes or crashes meanwhile: a rollback
\* that restores brings back what the last recorded approved write replaced.
THEOREM RollbackRestores == UndoSpec => RollbackExact
<1>1. UndoSpec => []UndoInv
  BY UndoStarts, UndoStep, PTL DEF UndoSpec
<1> QED BY <1>1, RestoresLast, PTL DEF UndoSpec, RollbackExact

-----------------------------------------------------------------------------
(* The plan of the day.                                                    *)

(***************************************************************************)
(* RecurringOnce is inductive only with what a hydration under way has     *)
(* found missing: when it commits, every row of such a task was committed  *)
(* by another thread since it began.                                       *)
(***************************************************************************)
PlanRow == [date : Nat, rid : Nat, timed : BOOLEAN, status : Statuses, beside : SUBSET Nat]

Batch == [pc : {"going"}, on : Nat, new : Seq(Nat \ {0}), base : Nat, todo : SUBSET (Nat \ {0})]

\* a row of the task was in the plan when the transaction began
Stood(h, rid) ==
  \E id \in DOMAIN rows : id <= h.base /\ rows[id].date = h.on /\ rows[id].rid = rid

Going(h) ==
  /\ h \in Batch /\ h.base <= Len(rows)
  /\ \A i \in DOMAIN h.new : h.new[i] \notin h.todo /\ ~Stood(h, h.new[i])
  /\ \A i, j \in DOMAIN h.new : h.new[i] = h.new[j] => i = j

PlanInv ==
  /\ rows \in Seq(PlanRow) /\ today \in Nat
  /\ recurring \in Seq([active : BOOLEAN, days : Patterns])
  /\ RecurringOnce
  /\ \A th \in ToolThreads : hydrating[th].pc = "going" => Going(hydrating[th])
  /\ \A th \in ToolThreads : hydrating[th].pc \in {"idle", "called", "going"}
  /\ hydrating = [th \in ToolThreads |-> hydrating[th]]

\* Rows that keep date and rid, or are joined by one of no recurring task,
\* disturb neither RecurringOnce nor a hydration.
LEMMA SameIds ==
  ASSUME PlanInv, UNCHANGED <<recurring, today, hydrating>>, rows' \in Seq(PlanRow),
         DOMAIN rows \subseteq DOMAIN rows',
         \A i \in DOMAIN rows : /\ rows'[i].date = rows[i].date /\ rows'[i].rid = rows[i].rid
                                /\ rows'[i].beside = rows[i].beside,
         \A i \in DOMAIN rows' \ DOMAIN rows : rows'[i].rid = NoRecurring
  PROVE  PlanInv'
<1>0. DOMAIN rows = 1..Len(rows) /\ DOMAIN rows' = 1..Len(rows') /\ Len(rows) \in Nat /\ Len(rows') \in Nat
  BY DEF PlanInv
<1>1. RecurringOnce'
  BY DEF PlanInv, RecurringOnce
<1>2. ASSUME NEW h, NEW rid \in Nat \ {0}, ~Stood(h, rid) PROVE ~Stood(h, rid)'
  BY <1>2 DEF Stood, NoRecurring
<1>3. ASSUME NEW th \in ToolThreads, hydrating'[th].pc = "going" PROVE Going(hydrating[th])'
  <2>1. Going(hydrating[th])
    BY <1>3 DEF PlanInv
  <2>2. \A i \in DOMAIN hydrating[th].new : hydrating[th].new[i] \in Nat \ {0}
    BY <2>1 DEF Going, Batch
  <2>3. hydrating[th].base <= Len(rows')
    BY <1>0, <2>1 DEF Going, Batch
  <2> QED BY <1>2, <2>1, <2>2, <2>3 DEF Going
<1> QED BY <1>1, <1>3 DEF PlanInv

\* The tables are empty at the start and nobody hydrates.
LEMMA PlanStarts == PlanInit => PlanInv
  BY DEF PlanInit, PlanInv, RecurringOnce, NotHydrating

\* The tables' own operations.
LEMMA Appended ==
  ASSUME NEW S, NEW s \in Seq(S), NEW e \in S
  PROVE  /\ Append(s, e) \in Seq(S) /\ DOMAIN Append(s, e) = 1..Len(s) + 1
         /\ DOMAIN s = 1..Len(s) /\ Len(s) \in Nat
         /\ \A i \in DOMAIN s : Append(s, e)[i] = s[i]
         /\ Append(s, e)[Len(s) + 1] = e
  OBVIOUS

\* A field of one row is written.
LEMMA Updated ==
  ASSUME NEW S, NEW s \in Seq(S), NEW i \in DOMAIN s, NEW e \in S
  PROVE  /\ [s EXCEPT ![i] = e] \in Seq(S) /\ DOMAIN [s EXCEPT ![i] = e] = DOMAIN s
         /\ \A j \in DOMAIN s : [s EXCEPT ![i] = e][j] = IF j = i THEN e ELSE s[j]
  OBVIOUS

\* A row of a table is a row.
LEMMA Element == ASSUME NEW S, NEW s \in Seq(S), NEW i \in DOMAIN s PROVE s[i] \in S
  OBVIOUS

\* A function on 1..n is a sequence.
LEMMA FromFunction ==
  ASSUME NEW S, NEW n \in Nat, NEW f \in [1..n -> S]
  PROVE  f \in Seq(S) /\ Len(f) = n /\ DOMAIN f = 1..n
  OBVIOUS

\* The rows of a batch follow the rows of the table.
LEMMA Joined ==
  ASSUME NEW S, NEW s \in Seq(S), NEW t \in Seq(S)
  PROVE  /\ s \o t \in Seq(S) /\ Len(s) \in Nat /\ Len(t) \in Nat
         /\ DOMAIN s = 1..Len(s) /\ DOMAIN t = 1..Len(t)
         /\ DOMAIN (s \o t) = 1..(Len(s) + Len(t))
         /\ \A i \in 1..Len(s) : (s \o t)[i] = s[i]
         /\ \A i \in 1..(Len(s) + Len(t)) :
              i > Len(s) => i - Len(s) \in 1..Len(t) /\ (s \o t)[i] = t[i - Len(s)]
  OBVIOUS

\* A thread that starts or ends a hydration leaves the others as they are.
LEMMA OnlyThis ==
  ASSUME PlanInv, NEW th \in ToolThreads, NEW h, UNCHANGED rows, Step(th, h),
         recurring' \in Seq([active : BOOLEAN, days : Patterns]), today' \in Nat,
         h.pc \in {"idle", "called", "going"}, h.pc = "going" => Going(h)
  PROVE  PlanInv'
<1>1. \A g : Going(g) => Going(g)'
  BY DEF Going, Stood
<1>2. RecurringOnce'
  BY DEF PlanInv, RecurringOnce
<1>3. \A o \in ToolThreads : hydrating'[o] = IF o = th THEN h ELSE hydrating[o]
  BY DEF PlanInv, Step
<1> QED BY <1>1, <1>2, <1>3 DEF PlanInv, Step

\* A recurring task that is looked at enters the batch once, and only if the
\* date had no row of it when the plan was read.
LEMMA LookAtKeeps ==
  ASSUME PlanInv, NEW th \in ToolThreads, NEW rid \in DOMAIN recurring, LookAt(th, rid)
  PROVE  PlanInv'
<1> DEFINE h == hydrating[th]
           n == IF h.on \in recurring[rid].days /\ ~Made(h.on, rid) THEN Append(h.new, rid) ELSE h.new
           g == [h EXCEPT !.todo = h.todo \ {rid}, !.new = n]
<1>1. h.pc = "going" /\ rid \in h.todo /\ Step(th, g) /\ UNCHANGED <<rows, recurring, today>>
  BY DEF LookAt
<1>2. Going(h)
  BY <1>1 DEF PlanInv
<1>3. Going([h EXCEPT !.todo = h.todo \ {rid}, !.new = n])
  <2>1. rid \in Nat \ {0}
    BY <1>1, <1>2 DEF Going
  <2>2. CASE n = h.new
    BY <1>2, <2>2 DEF Going, Batch, Stood
  <2>3. CASE n = Append(h.new, rid) /\ ~Made(h.on, rid)
    <3>1. \A i \in DOMAIN h.new : h.new[i] # rid
      BY <1>1, <1>2 DEF Going
    <3>2. h \in Batch
      BY <1>2 DEF Going
    <3>3. /\ n \in Seq(Nat \ {0}) /\ DOMAIN n = 1..Len(h.new) + 1 /\ Len(h.new) \in Nat
          /\ DOMAIN h.new = 1..Len(h.new) /\ n[Len(h.new) + 1] = rid
          /\ \A i \in DOMAIN h.new : n[i] = h.new[i]
      BY <2>1, <2>3, <3>2, Appended DEF Batch
    <3> HIDE DEF n
    <3>4. /\ [h EXCEPT !.todo = h.todo \ {rid}, !.new = n] \in Batch
          /\ g.on = h.on /\ g.new = n /\ g.base = h.base /\ g.todo = h.todo \ {rid}
      BY <3>2, <3>3 DEF Batch
    <3>5. \A i \in DOMAIN n : n[i] = rid \/ (i \in DOMAIN h.new /\ n[i] = h.new[i])
      BY <3>3
    <3>6. \A i \in DOMAIN n : n[i] \notin h.todo \ {rid} /\ ~Stood(h, n[i])
      BY <1>2, <2>3, <3>5 DEF Going, Made, Stood
    <3>7. \A i, j \in DOMAIN n : n[i] = n[j] => i = j
      <4>1. \A i, j \in DOMAIN h.new : h.new[i] = h.new[j] => i = j
        BY <1>2 DEF Going
      <4>2. \A i \in DOMAIN n : i = Len(h.new) + 1 \/ i \in DOMAIN h.new
        BY <3>3
      <4>3. ASSUME NEW i \in DOMAIN n, NEW j \in DOMAIN n, n[i] = n[j] PROVE i = j
        <5>1. CASE i \in DOMAIN h.new /\ j \in DOMAIN h.new
          BY <3>3, <4>1, <4>3, <5>1
        <5>2. CASE i = Len(h.new) + 1 /\ j \in DOMAIN h.new
          BY <3>1, <3>3, <4>3, <5>2
        <5>3. CASE j = Len(h.new) + 1 /\ i \in DOMAIN h.new
          BY <3>1, <3>3, <4>3, <5>3
        <5> QED BY <4>2, <5>1, <5>2, <5>3
      <4> QED BY <4>3
    <3> QED BY <1>2, <3>4, <3>6, <3>7 DEF Going, Stood
  <2> QED BY <2>2, <2>3
<1>4. g.pc = "going"
  BY <1>1
<1> QED BY <1>1, <1>3, <1>4, OnlyThis DEF PlanInv

\* What is inserted was not in the plan when the transaction began.
LEMMA CommitKeeps ==
  ASSUME PlanInv, NEW th \in ToolThreads, Commit(th)
  PROVE  PlanInv'
<1> DEFINE h == hydrating[th]
           more == Inserted(h)
<1>1. /\ h.pc = "going" /\ rows' = rows \o more /\ Step(th, NotHydrating)
      /\ UNCHANGED <<recurring, today>>
  BY DEF Commit
<1>2. Going(h)
  BY <1>1 DEF PlanInv
<1>3. more \in Seq(PlanRow) /\ Len(more) = Len(h.new) /\ DOMAIN more = DOMAIN h.new
  <2>1. h.new \in Seq(Nat \ {0}) /\ h.on \in Nat
    BY <1>2 DEF Going, Batch
  <2>2. Len(h.new) \in Nat /\ DOMAIN h.new = 1..Len(h.new)
    BY <2>1
  <2>3. \A i \in 1..Len(h.new) : DayTask(h.on, h.new[i], TRUE, (h.base + 1)..Len(rows)) \in PlanRow
    <3>1. (h.base + 1)..Len(rows) \in SUBSET Nat
      BY <1>2 DEF Going, Batch, PlanInv
    <3> QED BY <2>1, <3>1 DEF DayTask, PlanRow, Statuses
  <2>4. more = [i \in 1..Len(h.new) |-> DayTask(h.on, h.new[i], TRUE, (h.base + 1)..Len(rows))]
    BY <2>2 DEF Inserted
  <2>5. more \in [1..Len(h.new) -> PlanRow]
    BY <2>3, <2>4
  <2> HIDE DEF more
  <2> QED BY <2>2, <2>5, FromFunction
<1>4. \A i \in DOMAIN more : /\ more[i].date = h.on /\ more[i].rid = h.new[i]
                             /\ more[i].beside = (h.base + 1)..Len(rows)
  BY <1>3 DEF Inserted, DayTask
<1>5. rows \in Seq(PlanRow)
  BY DEF PlanInv
<1> HIDE DEF more
<1>6. /\ rows' \in Seq(PlanRow) /\ DOMAIN rows' = 1..(Len(rows) + Len(more))
      /\ DOMAIN rows = 1..Len(rows) /\ Len(rows) \in Nat /\ Len(more) \in Nat
      /\ \A i \in DOMAIN rows : rows'[i] = rows[i]
      /\ \A i \in DOMAIN rows' \ DOMAIN rows : i - Len(rows) \in DOMAIN more /\ rows'[i] = more[i - Len(rows)]
  <2>1. /\ rows \o more \in Seq(PlanRow) /\ Len(rows) \in Nat /\ Len(more) \in Nat
        /\ DOMAIN rows = 1..Len(rows) /\ DOMAIN more = 1..Len(more)
        /\ DOMAIN (rows \o more) = 1..(Len(rows) + Len(more))
        /\ \A i \in 1..Len(rows) : (rows \o more)[i] = rows[i]
        /\ \A i \in 1..(Len(rows) + Len(more)) :
             i > Len(rows) => i - Len(rows) \in 1..Len(more) /\ (rows \o more)[i] = more[i - Len(rows)]
    BY <1>3, <1>5, Joined
  <2>2. rows' = rows \o more
    BY <1>1
  <2> QED BY ONLY <2>1, <2>2
<1>7. RecurringOnce'
  <2> SUFFICES ASSUME NEW i \in DOMAIN rows', NEW j \in DOMAIN rows', i < j,
                      rows'[i].rid # NoRecurring, rows'[i].rid = rows'[j].rid,
                      rows'[i].date = rows'[j].date
               PROVE  i \in rows'[j].beside
    BY DEF RecurringOnce
  <2>1. CASE j \in DOMAIN rows
    <3>1. i \in DOMAIN rows
      BY <1>6, <2>1
    <3> QED BY <1>6, <2>1, <3>1 DEF PlanInv, RecurringOnce
  <2>2. CASE i \in DOMAIN rows /\ j \notin DOMAIN rows
    <3>1. j - Len(rows) \in DOMAIN more /\ rows'[j] = more[j - Len(rows)] /\ rows'[i] = rows[i]
      BY <1>6, <2>2
    <3>2. rows[i].date = h.on /\ rows[i].rid = h.new[j - Len(rows)]
      BY <1>4, <3>1
    <3>3. j - Len(rows) \in DOMAIN h.new
      BY <1>3, <3>1
    <3>4. ~(i <= h.base)
      BY <1>2, <2>2, <3>2, <3>3 DEF Going, Stood
    <3>5. i \in (h.base + 1)..Len(rows)
      BY <1>2, <1>6, <2>2, <3>4 DEF Going, Batch
    <3> QED BY <1>4, <3>1, <3>5
  <2>3. CASE i \notin DOMAIN rows /\ j \notin DOMAIN rows
    <3>1. h.new[i - Len(rows)] = h.new[j - Len(rows)]
      BY <1>4, <1>6, <2>3
    <3>2. i - Len(rows) = j - Len(rows)
      BY <1>2, <1>3, <1>6, <2>3, <3>1 DEF Going
    <3>3. i \in Nat /\ j \in Nat
      BY <1>6
    <3> QED BY <1>6, <3>2, <3>3
  <2> QED BY <2>1, <2>2, <2>3
<1>8. \A o \in ToolThreads : hydrating'[o] = IF o = th THEN NotHydrating ELSE hydrating[o]
  BY <1>1 DEF Step, PlanInv
<1>9. ASSUME NEW g, Going(g) PROVE Going(g)'
  <2>1. Len(rows') = Len(rows) + Len(more) /\ g.base <= Len(rows) /\ g.base \in Nat
    BY <1>6, <1>9 DEF Going, Batch
  <2>2. g.base <= Len(rows')
    BY <1>6, <2>1
  <2>3. \A id \in DOMAIN rows' : id <= g.base => id \in DOMAIN rows /\ rows'[id] = rows[id]
    BY <1>6, <2>1
  <2>4. \A rid : Stood(g, rid)' => Stood(g, rid)
    BY <2>3 DEF Stood
  <2> QED BY <1>9, <2>2, <2>4 DEF Going
<1> QED BY <1>1, <1>6, <1>7, <1>8, <1>9 DEF PlanInv, Step, NotHydrating

\* Every step of the tools and of the day's turn keeps it.
LEMMA PlanStep == PlanInv /\ [PlanNext]_planVars => PlanInv'
<1> SUFFICES ASSUME PlanInv, [PlanNext]_planVars PROVE PlanInv'
  OBVIOUS
<1>1. ASSUME NEW th \in ToolThreads, NEW timed \in BOOLEAN, AddTask(th, timed) PROVE PlanInv'
  <2>1. DayTask(today, NoRecurring, timed, {}) \in PlanRow
    BY DEF PlanInv, DayTask, PlanRow, NoRecurring, Statuses
  <2>2. DayTask(today, NoRecurring, timed, {}).rid = NoRecurring
    BY DEF DayTask
  <2>3. rows' = Append(rows, DayTask(today, NoRecurring, timed, {})) /\ rows \in Seq(PlanRow)
    BY <1>1 DEF AddTask, AddDayTask, PlanInv
  <2>4. /\ rows' \in Seq(PlanRow) /\ DOMAIN rows \subseteq DOMAIN rows'
        /\ \A i \in DOMAIN rows : rows'[i] = rows[i]
        /\ \A i \in DOMAIN rows' \ DOMAIN rows : rows'[i].rid = NoRecurring
    BY <2>1, <2>2, <2>3, Appended
  <2> QED BY <1>1, <2>4, SameIds DEF AddTask
<1>2. ASSUME NEW th \in ToolThreads, NEW id \in DOMAIN rows,
             \/ \E status \in Statuses \ {"pending"} : MarkTask(th, id, status)
             \/ \E timed \in BOOLEAN : Reschedule(th, id, timed)
      PROVE  PlanInv'
  <2> DEFINE SameShape ==
        /\ rows' \in Seq(PlanRow) /\ DOMAIN rows' = DOMAIN rows
        /\ \A i \in DOMAIN rows : rows'[i].date = rows[i].date /\ rows'[i].rid = rows[i].rid /\ rows'[i].beside = rows[i].beside
  <2>1. SameShape
    <3>1. rows \in Seq(PlanRow) /\ rows[id] \in PlanRow
      BY DEF PlanInv
    <3>2. ASSUME NEW status \in Statuses, rows' = [rows EXCEPT ![id].status = status]
          PROVE  SameShape
      <4>1. [rows[id] EXCEPT !.status = status] \in PlanRow
        BY <3>1 DEF PlanRow
      <4>2. /\ [rows[id] EXCEPT !.status = status].date = rows[id].date
            /\ [rows[id] EXCEPT !.status = status].rid = rows[id].rid
            /\ [rows[id] EXCEPT !.status = status].beside = rows[id].beside
        BY <3>1 DEF PlanRow
      <4> QED BY <3>1, <3>2, <4>1, <4>2, Updated
    <3>3. ASSUME NEW timed \in BOOLEAN, rows' = [rows EXCEPT ![id].timed = timed]
          PROVE  SameShape
      <4>1. [rows[id] EXCEPT !.timed = timed] \in PlanRow
        BY <3>1 DEF PlanRow
      <4>2. /\ [rows[id] EXCEPT !.timed = timed].date = rows[id].date
            /\ [rows[id] EXCEPT !.timed = timed].rid = rows[id].rid
            /\ [rows[id] EXCEPT !.timed = timed].beside = rows[id].beside
        BY <3>1 DEF PlanRow
      <4> QED BY <3>1, <3>3, <4>1, <4>2, Updated
    <3> QED BY <1>2, <3>2, <3>3 DEF MarkTask, UpdateTaskStatus, Reschedule, RescheduleTask
  <2> QED BY <1>2, <2>1, SameIds DEF MarkTask, Reschedule
<1>3. ASSUME NEW th \in ToolThreads, NEW rid \in DOMAIN recurring, DeleteRecurringTask(th, rid)
      PROVE  PlanInv'
  <2>1. recurring' \in Seq([active : BOOLEAN, days : Patterns])
    <3>1. recurring \in Seq([active : BOOLEAN, days : Patterns])
      BY DEF PlanInv
    <3>2. recurring[rid] \in [active : BOOLEAN, days : Patterns]
      BY <3>1, Element
    <3>3. [recurring[rid] EXCEPT !.active = FALSE] \in [active : BOOLEAN, days : Patterns]
      BY <3>2
    <3> QED BY <1>3, <3>1, <3>3, Updated DEF DeleteRecurringTask, Deactivate
  <2> QED BY <1>3, <2>1 DEF DeleteRecurringTask, PlanInv, RecurringOnce, Going, Stood
<1>4. ASSUME NEW th \in ToolThreads, NEW rid \in DOMAIN recurring, LookAt(th, rid) PROVE PlanInv'
  BY <1>4, LookAtKeeps
<1>5. ASSUME NEW th \in ToolThreads, NEW days \in Patterns, AddRecurringTask(th, days) PROVE PlanInv'
  <2>1. recurring' \in Seq([active : BOOLEAN, days : Patterns])
    BY <1>5 DEF AddRecurringTask, InsertRecurring, PlanInv
  <2> QED BY <1>5, <2>1, OnlyThis DEF AddRecurringTask, Step, PlanInv
<1>6. ASSUME NEW th \in ToolThreads, ListActive(th) PROVE PlanInv'
  <2> DEFINE h == [pc |-> "going", on |-> today, new |-> <<>>, base |-> Len(rows),
                   todo |-> {rid \in DOMAIN recurring : recurring[rid].active}]
  <2>1. Going(h) /\ h.pc = "going"
    BY DEF Going, Batch, PlanInv
  <2> QED BY <1>6, <2>1, OnlyThis DEF ListActive, PlanInv
<1>7. ASSUME NEW th \in ToolThreads, Commit(th) PROVE PlanInv'
  BY <1>7, CommitKeeps
<1>8. ASSUME NEW th \in ToolThreads, RollBack(th) PROVE PlanInv'
  BY <1>8, OnlyThis DEF RollBack, NotHydrating, PlanInv
<1>9. CASE Midnight
  BY <1>9 DEF Midnight, PlanInv, RecurringOnce, Going, Stood
<1>10. CASE PlanCrash
  BY <1>10 DEF PlanCrash, PlanInv, RecurringOnce, NotHydrating
<1>11. CASE UNCHANGED planVars
  BY <1>11 DEF planVars, PlanInv, RecurringOnce, Going, Stood
<1> QED
  BY <1>1, <1>2, <1>3, <1>4, <1>5, <1>6, <1>7, <1>8, <1>9, <1>10, <1>11 DEF PlanNext

\* For any number of tool threads, days fields, dates and tasks: a hydration
\* never makes again what stood in the plan when it began.
THEOREM MadeOnce == PlanSpec => []RecurringOnce
<1>1. PlanInv => RecurringOnce
  BY DEF PlanInv
<1> QED BY <1>1, PlanStarts, PlanStep, PTL DEF PlanSpec

-----------------------------------------------------------------------------
(* The bus.                                                                *)

(***************************************************************************)
(* HeardInOrder says nothing of the lines a process has yet to read, nor   *)
(* of those the server has yet to send, and is not inductive.  What        *)
(* reached a client - heard, or in the outbox of the connection it has -   *)
(* is in order and behind everything its publisher still has in an inbox;  *)
(* and a broadcast under way has given its line only to those it has met.  *)
(* The last part is where a short drain is needed: a client that comes     *)
(* back during the broadcast that already reached it would get it twice.   *)
(***************************************************************************)
Line     == Links \X Nat
Elems(s) == {s[i] : i \in DOMAIN s}

Later(a, b) == a[1] = b[1] => a[2] < b[2]
InOrder(s)  == \A i, j \in DOMAIN s : i < j => Later(s[i], s[j])
Rising(s)   == \A i, j \in DOMAIN s : i < j => s[i] < s[j]

\* what a client has heard or can still read
Coming(c)  == IF Connected(c) THEN Elems(outbox[LinkOf(c)]) ELSE {}
Reached(c) == Elems(heard[c]) \cup Coming(c)

BusTypes ==
  /\ link \in [Clients -> Nat] /\ made \in [Clients -> Nat] /\ said \in [Clients -> Nat]
  /\ \A c \in Clients : link[c] <= made[c] /\ made[c] <= MaxLinks
  /\ inbox \in [Links -> Seq(Nat)] /\ outbox \in [Links -> Seq(Line)]
  /\ heard \in [Clients -> Seq(Line)]
  /\ handler = [k \in Links |-> handler[k]] /\ subs \subseteq Links

\* a connection that is not made yet has carried nothing
Unused ==
  /\ \A c \in Clients : made[c] = 0 => heard[c] = <<>>
  /\ \A k \in Links : k[2] > made[k[1]] =>
       outbox[k] = <<>> /\ inbox[k] = <<>> /\ handler[k].pc = "none"

\* the server's inboxes are in order and hold what was published
Waiting ==
  \A k \in Links : Rising(inbox[k]) /\ \A n \in Elems(inbox[k]) : n <= said[k[1]]

\* a client's lines are in order, those it has yet to read come after the others
Ordered ==
  \A c \in Clients :
    /\ InOrder(heard[c])
    /\ Connected(c) => InOrder(outbox[LinkOf(c)])
    /\ \A a \in Elems(heard[c]), b \in Coming(c) : Later(a, b)

\* what reached a client is older than what the server has not read
Behind ==
  \A c \in Clients : \A a \in Reached(c) :
    /\ a[2] <= said[a[1][1]] /\ a[1][2] <= made[a[1][1]]
    /\ \A n \in Elems(inbox[a[1]]) : a[2] < n

Shaped(h) ==
  h = [pc |-> "sending", line |-> h.line, began |-> h.began, done |-> h.done, dead |-> h.dead]

\* the walk of h went on to g
WentOn(h, g) ==
  g = h \/ (Shaped(g) /\ g.line = h.line /\ h.done \subseteq g.done)

\* the walk h with a line of k: whom it has not met has not got the line
Sending(k, h) ==
  /\ Shaped(h)
  /\ h.line \in Line /\ h.line[1] = k /\ h.line[2] <= said[k[1]] /\ k[2] <= made[k[1]]
  /\ \A n \in Elems(inbox[k]) : h.line[2] < n
  /\ \A c \in Clients : \A a \in Reached(c) : a[1] = k =>
       /\ a[2] <= h.line[2]
       /\ Connected(c) /\ LinkOf(c) \notin h.done => a[2] < h.line[2]

BusInv ==
  /\ BusTypes /\ Unused /\ Waiting /\ Ordered /\ Behind
  /\ \A k \in Links : handler[k].pc = "sending" => Sending(k, handler[k])

\* A line is added to the end of an inbox, an outbox or what was heard.
LEMMA SeqFacts ==
  ASSUME NEW S, NEW s \in Seq(S), NEW e \in S
  PROVE  /\ Append(s, e) \in Seq(S)
         /\ Elems(Append(s, e)) = Elems(s) \cup {e}
         /\ InOrder(s) /\ (\A a \in Elems(s) : Later(a, e)) => InOrder(Append(s, e))
<1>1. /\ Append(s, e) \in Seq(S) /\ Len(s) \in Nat /\ DOMAIN s = 1..Len(s)
      /\ DOMAIN Append(s, e) = 1..Len(s) + 1
      /\ \A i \in DOMAIN s : Append(s, e)[i] = s[i]
      /\ Append(s, e)[Len(s) + 1] = e
  OBVIOUS
<1>2. DOMAIN Append(s, e) = DOMAIN s \cup {Len(s) + 1}
  BY <1>1
<1>3. Elems(Append(s, e)) = Elems(s) \cup {e}
  BY <1>1, <1>2 DEF Elems
<1>4. ASSUME InOrder(s), \A a \in Elems(s) : Later(a, e) PROVE InOrder(Append(s, e))
  <2> SUFFICES ASSUME NEW i \in DOMAIN Append(s, e), NEW j \in DOMAIN Append(s, e), i < j
               PROVE  Later(Append(s, e)[i], Append(s, e)[j])
    BY DEF InOrder
  <2>1. i \in DOMAIN s /\ s[i] \in Elems(s)
    BY <1>1 DEF Elems
  <2>2. CASE j \in DOMAIN s
    BY <1>1, <1>4, <2>1, <2>2 DEF InOrder
  <2>3. CASE j = Len(s) + 1
    BY <1>1, <1>4, <2>1, <2>3
  <2> QED BY <1>2, <2>2, <2>3
<1> QED BY <1>1, <1>3, <1>4

\* A later number at the end of an inbox.
LEMMA RisingAppend ==
  ASSUME NEW s \in Seq(Nat), NEW e \in Nat, Rising(s), \A n \in Elems(s) : n < e
  PROVE  Rising(Append(s, e))
<1>1. /\ Len(s) \in Nat /\ DOMAIN s = 1..Len(s)
      /\ DOMAIN Append(s, e) = 1..Len(s) + 1
      /\ \A i \in DOMAIN s : Append(s, e)[i] = s[i]
      /\ Append(s, e)[Len(s) + 1] = e
  OBVIOUS
<1> SUFFICES ASSUME NEW i \in DOMAIN Append(s, e), NEW j \in DOMAIN Append(s, e), i < j
             PROVE  Append(s, e)[i] < Append(s, e)[j]
  BY DEF Rising
<1>2. i \in DOMAIN s /\ s[i] \in Elems(s)
  BY <1>1 DEF Elems
<1>3. CASE j \in DOMAIN s
  BY <1>1, <1>2, <1>3 DEF Rising
<1>4. CASE j = Len(s) + 1
  BY <1>1, <1>2, <1>4
<1> QED BY <1>1, <1>3, <1>4

\* The first line is taken.
LEMMA TailFacts ==
  ASSUME NEW S, NEW s \in Seq(S), s # <<>>
  PROVE  /\ Head(s) \in S /\ Tail(s) \in Seq(S)
         /\ Head(s) \in Elems(s) /\ Elems(Tail(s)) \subseteq Elems(s)
         /\ InOrder(s) => InOrder(Tail(s)) /\ \A a \in Elems(Tail(s)) : Later(Head(s), a)
         /\ Rising(s) => Rising(Tail(s)) /\ \A n \in Elems(Tail(s)) : Head(s) < n
<1>1. /\ Len(s) \in Nat \ {0} /\ DOMAIN s = 1..Len(s) /\ Head(s) = s[1] /\ Tail(s) \in Seq(S)
      /\ Len(Tail(s)) = Len(s) - 1 /\ DOMAIN Tail(s) = 1..Len(s) - 1
      /\ \A i \in 1..Len(s) - 1 : Tail(s)[i] = s[i + 1]
  OBVIOUS
<1>2. 1 \in DOMAIN s /\ \A i \in DOMAIN Tail(s) : i + 1 \in DOMAIN s /\ 1 < i + 1
  BY <1>1
<1>3. Head(s) \in S /\ Head(s) \in Elems(s)
  BY <1>1, <1>2 DEF Elems
<1>4. Elems(Tail(s)) \subseteq Elems(s)
  BY <1>1, <1>2 DEF Elems
<1>5. ASSUME InOrder(s) PROVE InOrder(Tail(s)) /\ \A a \in Elems(Tail(s)) : Later(Head(s), a)
  <2>1. \A i, j \in DOMAIN Tail(s) : i < j => i + 1 < j + 1
    BY <1>1
  <2> QED BY <1>1, <1>2, <1>5, <2>1 DEF InOrder, Elems
<1>6. ASSUME Rising(s) PROVE Rising(Tail(s)) /\ \A n \in Elems(Tail(s)) : Head(s) < n
  <2>1. \A i, j \in DOMAIN Tail(s) : i < j => i + 1 < j + 1
    BY <1>1
  <2> QED BY <1>1, <1>2, <1>6, <2>1 DEF Rising, Elems
<1> QED BY <1>1, <1>3, <1>4, <1>5, <1>6

\* An empty box.
LEMMA NoElems == Elems(<<>>) = {} /\ InOrder(<<>>) /\ Rising(<<>>)
  BY DEF Elems, InOrder, Rising

\* Nobody is connected at the start.
LEMMA BusStarts == BusInit => BusInv
<1> SUFFICES ASSUME BusInit PROVE BusInv
  OBVIOUS
<1>1. BusTypes
  BY BusAssumption DEF BusAssumption, BusInit, BusTypes, Links
<1>2. \A c \in Clients : ~Connected(c) /\ heard[c] = <<>> /\ Reached(c) = {} /\ Coming(c) = {}
  BY NoElems DEF BusInit, Connected, Reached, Coming
<1>3. Unused /\ Waiting
  BY NoElems DEF BusInit, Unused, Waiting
<1>4. Ordered /\ Behind
  BY <1>2, NoElems DEF Ordered, Behind
<1> QED BY <1>1, <1>3, <1>4 DEF BusInv, BusInit

\* The connection a client has is one it made.
LEMMA LinkFacts ==
  ASSUME BusTypes, NEW c \in Clients
  PROVE  /\ LinkOf(c) = <<c, link[c]>> /\ made[c] \in Nat /\ link[c] \in Nat /\ link[c] <= made[c]
         /\ Connected(c) => LinkOf(c) \in Links
  BY BusAssumption DEF BusAssumption, BusTypes, Connected, LinkOf, Links

\* What reached a client is a line some connection carried.
LEMMA ReachedLine ==
  ASSUME BusTypes, NEW c \in Clients, NEW a \in Reached(c)
  PROVE  a \in Line /\ a[1] \in Links /\ a[1][1] \in Clients /\ a[1][2] \in Nat /\ a[2] \in Nat
<1>1. \A s \in Seq(Line) : Elems(s) \subseteq Line
  BY DEF Elems
<1>2. Connected(c) => outbox[LinkOf(c)] \in Seq(Line)
  BY LinkFacts DEF BusTypes
<1>3. heard[c] \in Seq(Line)
  BY DEF BusTypes
<1>4. a \in Line
  BY <1>1, <1>2, <1>3 DEF Reached, Coming
<1> QED BY <1>4, BusAssumption DEF BusAssumption, Line, Links

\* Nothing new is heard or on its way, and what is gone is gone as a whole.
LEMMA NothingNew ==
  ASSUME Ordered,
         \A c \in Clients : heard'[c] = heard[c] \/ heard'[c] = <<>>,
         \A c \in Clients : Connected(c)' =>
           \/ outbox'[LinkOf(c)'] = <<>>
           \/ Connected(c) /\ LinkOf(c)' = LinkOf(c) /\ outbox'[LinkOf(c)'] = outbox[LinkOf(c)]
  PROVE  Ordered' /\ \A c \in Clients : Reached(c)' \subseteq Reached(c)
<1>1. \A c \in Clients : Elems(heard[c])' = Elems(heard[c]) \/ Elems(heard[c])' = {}
  BY NoElems DEF Elems
<1>2. \A c \in Clients : Coming(c)' = Coming(c) \/ Coming(c)' = {}
  <2> SUFFICES ASSUME NEW c \in Clients, Connected(c)' PROVE Coming(c)' = Coming(c) \/ Coming(c)' = {}
    BY DEF Coming
  <2>1. Coming(c)' = Elems(outbox'[LinkOf(c)'])
    BY DEF Coming, Elems
  <2> QED BY <2>1, NoElems DEF Coming
<1>3. \A c \in Clients : InOrder(heard[c])'
  BY NoElems DEF Ordered, InOrder, Later
<1>4. \A c \in Clients : Connected(c)' => InOrder(outbox[LinkOf(c)])'
  <2> SUFFICES ASSUME NEW c \in Clients, Connected(c)' PROVE InOrder(outbox'[LinkOf(c)'])
    BY DEF InOrder, Later
  <2> QED BY NoElems DEF Ordered
<1>5. \A c \in Clients : \A a \in Elems(heard[c])', b \in Coming(c)' : Later(a, b)
  BY <1>1, <1>2 DEF Ordered
<1>6. \A c \in Clients : Reached(c)' \subseteq Reached(c)
  BY <1>1, <1>2 DEF Reached
<1> QED BY <1>3, <1>4, <1>5, <1>6 DEF Ordered, Later

\* A broadcast goes on, with fewer lines still to come and only new ones
\* behind it.
LEMMA GoesOn ==
  ASSUME BusInv, BusTypes', Unused', Waiting', Ordered',
         \A c \in Clients : Reached(c)' \subseteq Reached(c),
         \A c \in Clients : said[c] <= said'[c] /\ made[c] <= made'[c],
         \A k \in Links : \A n \in Elems(inbox'[k]) : n \in Elems(inbox[k]) \/ said[k[1]] < n,
         \A k \in Links : handler'[k].pc = "sending" => Sending(k, handler[k])'
                          \/ /\ handler[k].pc = "sending" /\ WentOn(handler[k], handler'[k])
                             /\ \A c \in Clients : Reached(c)' # {} /\ Connected(c)' =>
                                  Connected(c) /\ LinkOf(c)' = LinkOf(c)
  PROVE  BusInv'
<1>0. \A c \in Clients : said[c] \in Nat /\ said'[c] \in Nat /\ made[c] \in Nat /\ made'[c] \in Nat
  BY DEF BusInv, BusTypes
<1>1. \A k \in Links : k[1] \in Clients /\ k[2] \in Nat
  BY BusAssumption DEF BusAssumption, Links
<1>2. \A k \in Links : Elems(inbox'[k]) \subseteq Nat
  BY DEF BusTypes, Elems
<1>3. Behind'
  <2> SUFFICES ASSUME NEW c \in Clients, NEW a \in Reached(c)'
               PROVE  /\ a[2] <= said'[a[1][1]] /\ a[1][2] <= made'[a[1][1]]
                      /\ \A n \in Elems(inbox'[a[1]]) : a[2] < n
    BY DEF Behind, Elems
  <2>1. a \in Reached(c)
    OBVIOUS
  <2>2. a[1] \in Links /\ a[1][1] \in Clients /\ a[1][2] \in Nat /\ a[2] \in Nat
    BY <2>1, ReachedLine DEF BusInv
  <2>3. /\ a[2] <= said[a[1][1]] /\ a[1][2] <= made[a[1][1]]
        /\ \A n \in Elems(inbox[a[1]]) : a[2] < n
    BY <2>1 DEF BusInv, Behind
  <2> QED BY <1>0, <1>2, <2>2, <2>3
<1>4. ASSUME NEW k \in Links, handler'[k].pc = "sending",
             handler[k].pc = "sending", WentOn(handler[k], handler'[k]),
             \A c \in Clients : Reached(c)' # {} /\ Connected(c)' =>
               Connected(c) /\ LinkOf(c)' = LinkOf(c)
      PROVE  Sending(k, handler[k])'
  <2>1. Sending(k, handler[k]) /\ Shaped(handler'[k]) /\ handler'[k].line = handler[k].line
        /\ handler[k].done \subseteq handler'[k].done
    BY <1>4 DEF BusInv, WentOn, Sending
  <2>2. /\ handler'[k].line \in Line /\ handler'[k].line[1] = k /\ handler'[k].line[2] \in Nat
        /\ handler'[k].line[2] <= said'[k[1]] /\ k[2] <= made'[k[1]]
        /\ \A n \in Elems(inbox'[k]) : handler'[k].line[2] < n
    <3>1. handler[k].line \in Line /\ handler[k].line[2] \in Nat
      BY <2>1 DEF Sending, Line
    <3>2. /\ handler[k].line[1] = k /\ handler[k].line[2] <= said[k[1]] /\ k[2] <= made[k[1]]
          /\ \A n \in Elems(inbox[k]) : handler[k].line[2] < n
      BY <2>1 DEF Sending
    <3>3. handler[k].line[2] <= said'[k[1]] /\ k[2] <= made'[k[1]]
      BY <1>0, <1>1, <3>1, <3>2
    <3>4. \A n \in Elems(inbox'[k]) : handler[k].line[2] < n
      BY <1>0, <1>1, <1>2, <3>1, <3>2
    <3> QED BY <2>1, <3>1, <3>2, <3>3, <3>4
  <2>3. ASSUME NEW c \in Clients, NEW a \in Reached(c)', a[1] = k
        PROVE  /\ a[2] <= handler'[k].line[2]
               /\ Connected(c)' /\ LinkOf(c)' \notin handler'[k].done => a[2] < handler'[k].line[2]
    BY <1>4, <2>1, <2>3 DEF Sending
  <2> QED BY <2>1, <2>2, <2>3 DEF Sending, Elems, Line, Shaped
<1> QED BY <1>3, <1>4 DEF BusInv

\* A client connects: the connection is fresh, and with short drains no broadcast
\* that reached it before is still under way.
LEMMA ConnectKeeps ==
  ASSUME ShortDrains, BusInv, NEW c \in Clients, Connect(c)
  PROVE  BusInv'
<1> DEFINE k0 == <<c, made[c] + 1>>
<1>0. /\ BusTypes /\ Unused /\ Waiting /\ Ordered
      /\ made[c] \in Nat /\ made[c] < MaxLinks /\ MaxLinks \in Nat
      /\ \A d \in Clients : made[d] \in Nat /\ link[d] \in Nat /\ said[d] \in Nat /\ link[d] <= made[d]
  BY BusAssumption DEF BusAssumption, BusInv, BusTypes, Connect
<1>1. k0 \in Links /\ k0[1] = c /\ k0[2] = made[c] + 1
  BY <1>0 DEF Links
<1>2. outbox[k0] = <<>> /\ inbox[k0] = <<>> /\ handler[k0].pc = "none"
  BY <1>0, <1>1 DEF Unused
<1>3. /\ \A d \in Clients : made'[d] = IF d = c THEN made[c] + 1 ELSE made[d]
      /\ \A d \in Clients : link'[d] = IF d = c THEN made[c] + 1 ELSE link[d]
      /\ \A k \in Links : handler'[k] = IF k = k0 THEN [pc |-> "accepted"] ELSE handler[k]
      /\ UNCHANGED <<inbox, outbox, subs, said, heard>>
  BY <1>0, <1>1 DEF Connect, BusTypes
<1>4. BusTypes'
  <2>1. made' \in [Clients -> Nat] /\ link' \in [Clients -> Nat]
    BY <1>0 DEF Connect, BusTypes
  <2>2. handler' = [k \in Links |-> handler'[k]]
    BY <1>0 DEF Connect, BusTypes
  <2>3. \A d \in Clients : link'[d] <= made'[d] /\ made'[d] <= MaxLinks
    <3>1. \A d \in Clients : link[d] <= made[d] /\ made[d] <= MaxLinks
      BY <1>0 DEF BusTypes
    <3>2. made[c] + 1 <= MaxLinks
      BY <1>0
    <3> QED BY <1>0, <1>3, <3>1, <3>2
  <2> QED BY <1>0, <1>3, <2>1, <2>2, <2>3 DEF BusTypes
<1>5. Unused'
  <2>1. \A d \in Clients : made'[d] = 0 => heard'[d] = <<>>
    BY <1>0, <1>3 DEF Unused
  <2>2. ASSUME NEW k \in Links, k[2] > made'[k[1]]
        PROVE  outbox'[k] = <<>> /\ inbox'[k] = <<>> /\ handler'[k].pc = "none"
    <3>1. k[1] \in Clients /\ k[2] \in Nat
      BY <1>0 DEF Links
    <3>2. k[2] > made[k[1]] /\ k # k0
      BY <1>0, <1>1, <1>3, <2>2, <3>1
    <3> QED BY <1>0, <1>3, <3>2 DEF Unused
  <2> QED BY <2>1, <2>2 DEF Unused
<1>6. Waiting'
  BY <1>0, <1>3 DEF Waiting, Rising, Elems
<1>7. Ordered' /\ \A d \in Clients : Reached(d)' \subseteq Reached(d)
  <2>1. ASSUME NEW d \in Clients, Connected(d)'
        PROVE  \/ outbox'[LinkOf(d)'] = <<>>
               \/ Connected(d) /\ LinkOf(d)' = LinkOf(d) /\ outbox'[LinkOf(d)'] = outbox[LinkOf(d)]
    <3>1. CASE d = c
      BY <1>2, <1>3, <3>1 DEF LinkOf
    <3>2. CASE d # c
      BY <1>3, <2>1, <3>2 DEF LinkOf, Connected
    <3> QED BY <3>1, <3>2
  <2> QED BY <1>0, <1>3, <2>1, NothingNew
<1>8. ASSUME NEW k \in Links, handler'[k].pc = "sending"
      PROVE  /\ handler[k].pc = "sending" /\ handler'[k] = handler[k]
             /\ \A d \in Clients : Reached(d)' # {} /\ Connected(d)' =>
                  Connected(d) /\ LinkOf(d)' = LinkOf(d)
  <2>1. handler[k].pc = "sending" /\ handler'[k] = handler[k]
    BY <1>3, <1>8
  <2>2. heard[c] = <<>>
    BY <1>0, <2>1 DEF Connect, WaitedFor, Unused
  <2>3. Reached(c)' = {}
    <3>1. Coming(c)' = {}
      BY <1>2, <1>3, NoElems DEF Coming, LinkOf, Elems
    <3>2. Elems(heard[c])' = {}
      BY <1>3, <2>2 DEF Elems
    <3> QED BY <3>1, <3>2 DEF Reached
  <2> QED BY <1>3, <2>1, <2>3 DEF LinkOf, Connected
<1>9. \A d \in Clients : said[d] <= said'[d] /\ made[d] <= made'[d]
  BY <1>0, <1>3
<1> QED BY <1>3, <1>4, <1>5, <1>6, <1>7, <1>8, <1>9, GoesOn DEF WentOn

\* An event gets the next number of its publisher.
LEMMA PublishKeeps ==
  ASSUME BusInv, NEW c \in Clients, Publish(c)
  PROVE  BusInv'
<1>0. /\ BusTypes /\ Unused /\ Waiting /\ Ordered
      /\ \A d \in Clients : made[d] \in Nat /\ link[d] \in Nat /\ said[d] \in Nat /\ link[d] <= made[d]
      /\ \A k \in Links : k[1] \in Clients /\ k[2] \in Nat
  <2>1. \A k \in Links : k[1] \in Clients /\ k[2] \in Nat
    BY BusAssumption DEF BusAssumption, Links
  <2>2. BusTypes /\ Unused /\ Waiting /\ Ordered
    BY DEF BusInv
  <2> QED BY <2>1, <2>2 DEF BusTypes
<1>1. /\ said' \in [Clients -> Nat]
      /\ \A d \in Clients : said'[d] = IF d = c THEN said[c] + 1 ELSE said[d]
      /\ UNCHANGED <<link, made, outbox, handler, subs, heard>>
  BY <1>0 DEF Publish, BusTypes
<1>2. \/ inbox' = inbox
      \/ /\ LinkOf(c) \in Links /\ Connected(c) /\ Alive(LinkOf(c))
         /\ inbox' = [inbox EXCEPT ![LinkOf(c)] = Append(@, said[c] + 1)]
  BY <1>0, LinkFacts DEF Publish
<1>3. \A k \in Links : inbox[k] \in Seq(Nat) /\ Rising(inbox[k])
                       /\ (\A n \in Elems(inbox[k]) : n \in Nat /\ n <= said[k[1]])
  BY <1>0 DEF BusTypes, Waiting, Elems
<1>4. /\ inbox' \in [Links -> Seq(Nat)]
      /\ \A k \in Links : inbox'[k] = inbox[k]
                          \/ /\ k = LinkOf(c) /\ Connected(c) /\ k[1] = c /\ k[2] <= made[c]
                             /\ inbox'[k] = Append(inbox[k], said[c] + 1)
  <2>1. CASE inbox' = inbox
    BY <1>0, <2>1 DEF BusTypes
  <2>2. CASE LinkOf(c) \in Links /\ Connected(c)
             /\ inbox' = [inbox EXCEPT ![LinkOf(c)] = Append(@, said[c] + 1)]
    <3>1. Append(inbox[LinkOf(c)], said[c] + 1) \in Seq(Nat)
      BY <1>0, <1>3, <2>2
    <3>2. inbox \in [Links -> Seq(Nat)]
      BY <1>0 DEF BusTypes
    <3>3. LinkOf(c)[1] = c /\ LinkOf(c)[2] <= made[c]
      BY <1>0 DEF LinkOf
    <3> QED BY <2>2, <3>1, <3>2, <3>3
  <2> QED BY <1>2, <2>1, <2>2
<1>5. BusTypes'
  BY <1>0, <1>1, <1>4 DEF BusTypes
<1>6. Unused'
  <2>1. ASSUME NEW k \in Links, k[2] > made[k[1]] PROVE inbox'[k] = <<>>
    BY <1>0, <1>4, <2>1 DEF Unused
  <2> QED BY <1>0, <1>1, <2>1 DEF Unused
<1>7. ASSUME NEW k \in Links
      PROVE  /\ Rising(inbox'[k])
             /\ \A n \in Elems(inbox'[k]) : n \in Elems(inbox[k]) \/ (n = said[c] + 1 /\ k[1] = c)
  <2>1. CASE inbox'[k] = inbox[k]
    BY <1>3, <2>1
  <2>2. CASE k[1] = c /\ inbox'[k] = Append(inbox[k], said[c] + 1)
    <3>1. said[c] + 1 \in Nat /\ \A n \in Elems(inbox[k]) : n < said[c] + 1
      <4>1. said[c] \in Nat /\ \A n \in Elems(inbox[k]) : n \in Nat /\ n <= said[c]
        BY <1>0, <1>3, <2>2
      <4> QED BY <4>1
    <3>2. inbox[k] \in Seq(Nat) /\ Rising(inbox[k])
      BY <1>3
    <3>3. Rising(Append(inbox[k], said[c] + 1))
      BY <3>1, <3>2, RisingAppend
    <3>4. Elems(Append(inbox[k], said[c] + 1)) = Elems(inbox[k]) \cup {said[c] + 1}
      BY <3>1, <3>2, SeqFacts
    <3> QED BY <2>2, <3>3, <3>4
  <2> QED BY <1>4, <2>1, <2>2
<1>8. Waiting'
  <2>1. \A k \in Links : \A n \in Elems(inbox'[k]) : n <= said'[k[1]]
    <3> SUFFICES ASSUME NEW k \in Links, NEW n \in Elems(inbox'[k]) PROVE n <= said'[k[1]]
      OBVIOUS
    <3>1. said[k[1]] \in Nat /\ said[c] \in Nat /\ k[1] \in Clients
      BY <1>0
    <3>2. CASE n \in Elems(inbox[k])
      <4>1. n \in Nat /\ n <= said[k[1]]
        BY <1>3, <3>2
      <4> QED BY <1>1, <3>1, <4>1
    <3>3. CASE n = said[c] + 1 /\ k[1] = c
      BY <1>1, <3>1, <3>3
    <3> QED BY <1>7, <3>2, <3>3
  <2> QED BY <1>7, <2>1 DEF Waiting, Rising, Elems
<1>9. Ordered' /\ \A d \in Clients : Reached(d)' \subseteq Reached(d)
  BY <1>0, <1>1, NothingNew DEF LinkOf, Connected
<1>10. \A k \in Links : \A n \in Elems(inbox'[k]) : n \in Elems(inbox[k]) \/ said[k[1]] < n
  BY <1>0, <1>7
<1>11. \A d \in Clients : said[d] <= said'[d] /\ made[d] <= made'[d]
  BY <1>0, <1>1
<1>12. ASSUME NEW k \in Links, handler'[k].pc = "sending"
       PROVE  /\ handler[k].pc = "sending" /\ handler'[k] = handler[k]
              /\ \A d \in Clients : Connected(d)' => Connected(d) /\ LinkOf(d)' = LinkOf(d)
  BY <1>1, <1>12 DEF Connected, LinkOf
<1> QED BY <1>5, <1>6, <1>8, <1>9, <1>10, <1>11, <1>12, GoesOn DEF WentOn

\* The numbers and boxes of clients and connections.
LEMMA Numbers ==
  ASSUME BusInv
  PROVE  /\ \A d \in Clients : /\ made[d] \in Nat /\ link[d] \in Nat /\ said[d] \in Nat
                               /\ link[d] <= made[d] /\ heard[d] \in Seq(Line)
         /\ \A k \in Links : /\ k[1] \in Clients /\ k[2] \in Nat /\ k = <<k[1], k[2]>>
                             /\ inbox[k] \in Seq(Nat) /\ outbox[k] \in Seq(Line)
<1>1. \A k \in Links : k[1] \in Clients /\ k[2] \in Nat /\ k = <<k[1], k[2]>>
  BY BusAssumption DEF BusAssumption, Links
<1> QED BY <1>1 DEF BusInv, BusTypes

\* The client reads a line: what was on its way is heard.
LEMMA HearKeeps ==
  ASSUME BusInv, NEW c \in Clients, Hear(c)
  PROVE  BusInv'
<1> DEFINE k0 == LinkOf(c)
           box == outbox[k0]
           line == Head(box)
<1>0. BusTypes /\ Unused /\ Waiting /\ Ordered
  BY DEF BusInv
<1>1. /\ Connected(c) /\ k0 \in Links /\ k0 = <<c, link[c]>> /\ box \in Seq(Line) /\ box # <<>>
      /\ heard[c] \in Seq(Line)
  BY <1>0, LinkFacts, Numbers DEF Hear
<1>2. line \in Line /\ Tail(box) \in Seq(Line) /\ line \in Elems(box)
      /\ Elems(Tail(box)) \subseteq Elems(box)
      /\ (InOrder(box) => InOrder(Tail(box)) /\ \A a \in Elems(Tail(box)) : Later(line, a))
  BY <1>1, TailFacts
<1>a. /\ Append(heard[c], line) \in Seq(Line)
      /\ Elems(Append(heard[c], line)) = Elems(heard[c]) \cup {line}
      /\ (InOrder(heard[c]) /\ (\A a \in Elems(heard[c]) : Later(a, line)) =>
            InOrder(Append(heard[c], line)))
  <2>1. heard[c] \in Seq(Line) /\ line \in Line
    BY <1>1, <1>2
  <2> HIDE DEF line
  <2> QED BY <2>1, SeqFacts
<1>3. /\ \A d \in Clients : heard'[d] = IF d = c THEN Append(heard[c], line) ELSE heard[d]
      /\ \A k \in Links : outbox'[k] = IF k = k0 THEN Tail(box) ELSE outbox[k]
      /\ heard' \in [Clients -> Seq(Line)] /\ outbox' \in [Links -> Seq(Line)]
      /\ UNCHANGED <<link, made, inbox, handler, subs, said>>
  <2>1. heard \in [Clients -> Seq(Line)] /\ outbox \in [Links -> Seq(Line)]
    BY <1>0 DEF BusTypes
  <2>2. Append(heard[c], line) \in Seq(Line)
    BY <1>a
  <2>3. /\ heard' = [heard EXCEPT ![c] = Append(heard[c], line)]
        /\ outbox' = [outbox EXCEPT ![k0] = Tail(box)]
        /\ UNCHANGED <<link, made, inbox, handler, subs, said>>
    BY DEF Hear
  <2>4. \A d \in Clients : heard'[d] = IF d = c THEN Append(heard[c], line) ELSE heard[d]
    BY <2>1, <2>3
  <2>5. \A k \in Links : outbox'[k] = IF k = k0 THEN Tail(box) ELSE outbox[k]
    BY <1>1, <2>1, <2>3
  <2>6. heard' \in [Clients -> Seq(Line)] /\ outbox' \in [Links -> Seq(Line)]
    BY <1>1, <1>2, <2>1, <2>2, <2>3
  <2> QED BY <2>3, <2>4, <2>5, <2>6
<1>4. BusTypes'
  BY <1>0, <1>3 DEF BusTypes
<1>5. Unused'
  <2>1. made[c] # 0 /\ k0[2] <= made[c]
    BY <1>1, Numbers DEF Connected
  <2>2. \A k \in Links : k[2] > made[k[1]] => k # k0
    BY <1>1, <2>1, Numbers
  <2> QED BY <1>0, <1>3, <2>1, <2>2 DEF Unused
<1>6. Waiting'
  BY <1>0, <1>3 DEF Waiting, Rising, Elems
<1>7. \A d \in Clients : LinkOf(d)' = LinkOf(d) /\ (Connected(d)' <=> Connected(d))
  BY <1>3 DEF LinkOf, Connected
<1>8. \A d \in Clients \ {c} : heard'[d] = heard[d] /\ Coming(d)' = Coming(d)
                               /\ (Connected(d) => outbox'[LinkOf(d)] = outbox[LinkOf(d)])
  <2> SUFFICES ASSUME NEW d \in Clients \ {c}
               PROVE  heard'[d] = heard[d] /\ Coming(d)' = Coming(d)
                      /\ (Connected(d) => outbox'[LinkOf(d)] = outbox[LinkOf(d)])
    OBVIOUS
  <2>1. Connected(d) => LinkOf(d) \in Links /\ LinkOf(d) # k0
    BY <1>0, <1>1, LinkFacts
  <2>2. Connected(d) => outbox'[LinkOf(d)'] = outbox[LinkOf(d)]
    BY <1>3, <1>7, <2>1
  <2>3. Coming(d)' = IF Connected(d)' THEN Elems(outbox'[LinkOf(d)']) ELSE {}
    BY DEF Coming, Elems
  <2> QED BY <1>3, <1>7, <2>2, <2>3 DEF Coming
<1>9. Elems(heard'[c]) = Elems(heard[c]) \cup {line} /\ Coming(c)' = Elems(Tail(box))
  <2>1. Elems(heard'[c]) = Elems(heard[c]) \cup {line}
    BY <1>3, <1>a
  <2> QED BY <1>1, <1>3, <1>7, <2>1 DEF Coming, Elems
<1>10. Coming(c) = Elems(box)
  BY <1>1 DEF Coming
<1>11. \A d \in Clients : Reached(d)' \subseteq Reached(d)
  <2>1. Reached(c)' \subseteq Reached(c)
    BY <1>2, <1>9, <1>10 DEF Reached, Elems
  <2> QED BY <1>8, <2>1 DEF Reached, Elems
<1>12. Ordered'
  <2>1. ASSUME NEW d \in Clients \ {c}
        PROVE  /\ InOrder(heard'[d]) /\ (Connected(d)' => InOrder(outbox'[LinkOf(d)']))
               /\ \A a \in Elems(heard'[d]), b \in Coming(d)' : Later(a, b)
    BY <1>0, <1>7, <1>8 DEF Ordered
  <2>2. InOrder(box) /\ \A a \in Elems(heard[c]), b \in Elems(box) : Later(a, b)
    BY <1>0, <1>1, <1>10 DEF Ordered
  <2>3. InOrder(heard'[c])
    <3>1. InOrder(heard[c]) /\ \A a \in Elems(heard[c]) : Later(a, line)
      BY <1>0, <1>2, <2>2 DEF Ordered
    <3> QED BY <1>3, <1>a, <3>1
  <2>4. InOrder(outbox'[LinkOf(c)'])
    BY <1>1, <1>2, <1>3, <1>7, <2>2
  <2>5. \A a \in Elems(heard'[c]), b \in Coming(c)' : Later(a, b)
    BY <1>2, <1>9, <2>2
  <2> QED BY <2>1, <2>3, <2>4, <2>5 DEF Ordered, InOrder, Later, Elems
<1>13. ASSUME NEW k \in Links, handler'[k].pc = "sending"
       PROVE  /\ handler[k].pc = "sending" /\ handler'[k] = handler[k]
              /\ \A d \in Clients : Connected(d)' => Connected(d) /\ LinkOf(d)' = LinkOf(d)
  BY <1>3, <1>7, <1>13
<1>14. \A d \in Clients : said[d] <= said'[d] /\ made[d] <= made'[d]
  BY <1>3, Numbers
<1>15. \A k \in Links : \A n \in Elems(inbox'[k]) : n \in Elems(inbox[k])
  BY <1>3
<1> QED BY <1>4, <1>5, <1>6, <1>11, <1>12, <1>13, <1>14, <1>15, GoesOn DEF WentOn

\* Steps in which clients at most lose their connection, handlers of the
\* server at most end, and lines are only dropped.
LEMMA LossKeeps ==
  ASSUME BusInv, BusTypes', made' = made, said' = said,
         \A d \in Clients : link'[d] = link[d] \/ link'[d] = 0,
         \A d \in Clients : heard'[d] = heard[d] \/ heard'[d] = <<>>,
         \A k \in Links : inbox'[k] = inbox[k] \/ inbox'[k] = <<>>,
         \A k \in Links : outbox'[k] = outbox[k] \/ outbox'[k] = <<>>,
         \A k \in Links : handler[k].pc = "none" => handler'[k].pc = "none",
         \A k \in Links : handler'[k].pc = "sending" =>
           handler[k].pc = "sending" /\ WentOn(handler[k], handler'[k])
  PROVE  BusInv'
<1>0. BusTypes /\ Unused /\ Waiting /\ Ordered
  BY DEF BusInv
<1>1. Unused'
  BY <1>0 DEF Unused
<1>2. Waiting'
  BY <1>0, NoElems DEF Waiting, Rising, Elems
<1>3. \A d \in Clients : Connected(d)' => Connected(d) /\ LinkOf(d)' = LinkOf(d)
  BY DEF Connected, LinkOf
<1>4. Ordered' /\ \A d \in Clients : Reached(d)' \subseteq Reached(d)
  <2>1. ASSUME NEW d \in Clients, Connected(d)'
        PROVE  \/ outbox'[LinkOf(d)'] = <<>>
               \/ Connected(d) /\ LinkOf(d)' = LinkOf(d) /\ outbox'[LinkOf(d)'] = outbox[LinkOf(d)]
    BY <1>0, <1>3, <2>1, LinkFacts
  <2> QED BY <1>0, <2>1, NothingNew
<1>5. \A d \in Clients : said[d] <= said'[d] /\ made[d] <= made'[d]
  BY Numbers
<1>6. \A k \in Links : \A n \in Elems(inbox'[k]) : n \in Elems(inbox[k])
  BY NoElems
<1> QED BY <1>1, <1>2, <1>3, <1>4, <1>5, <1>6, GoesOn

\* The server takes the next line of a publisher: what reached anyone before
\* it was published earlier.
LEMMA ReadLineKeeps ==
  ASSUME BusInv, NEW k0 \in Links, ReadLine(k0)
  PROVE  BusInv'
<1> DEFINE n0 == Head(inbox[k0])
<1>0. /\ BusTypes /\ Unused /\ Waiting /\ Ordered /\ Behind
      /\ inbox[k0] \in Seq(Nat) /\ inbox[k0] # <<>> /\ handler[k0].pc = "reading"
  BY Numbers DEF BusInv, ReadLine
<1>1. n0 \in Nat /\ Tail(inbox[k0]) \in Seq(Nat) /\ n0 \in Elems(inbox[k0])
      /\ Elems(Tail(inbox[k0])) \subseteq Elems(inbox[k0])
      /\ Rising(Tail(inbox[k0])) /\ \A n \in Elems(Tail(inbox[k0])) : n0 < n
  BY <1>0, TailFacts DEF Waiting
<1>2. /\ \A k \in Links : inbox'[k] = IF k = k0 THEN Tail(inbox[k0]) ELSE inbox[k]
      /\ \A k \in Links : handler'[k] = IF k = k0 THEN Broadcast(<<k0, n0>>) ELSE handler[k]
      /\ inbox' \in [Links -> Seq(Nat)] /\ handler' = [k \in Links |-> handler'[k]]
      /\ UNCHANGED <<link, made, outbox, subs, said, heard>>
  <2>1. inbox \in [Links -> Seq(Nat)] /\ handler = [k \in Links |-> handler[k]]
    BY <1>0 DEF BusTypes
  <2>2. inbox' = [inbox EXCEPT ![k0] = Tail(inbox[k0])]
        /\ handler' = [handler EXCEPT ![k0] = Broadcast(<<k0, n0>>)]
        /\ UNCHANGED <<link, made, outbox, subs, said, heard>>
    BY DEF ReadLine, Becomes
  <2>3. inbox' \in [Links -> Seq(Nat)]
    BY <1>1, <2>1, <2>2
  <2>4. handler' = [k \in Links |-> handler'[k]]
    BY <2>1, <2>2
  <2> QED BY <2>1, <2>2, <2>3, <2>4
<1>3. BusTypes'
  BY <1>0, <1>2 DEF BusTypes
<1>4. k0[2] <= made[k0[1]]
  BY <1>0, Numbers DEF Unused
<1>5. Unused'
  <2>1. \A k \in Links : k[2] > made[k[1]] => k # k0
    BY <1>4, Numbers
  <2> QED BY <1>0, <1>2, <2>1 DEF Unused
<1>6. Waiting'
  <2>1. \A k \in Links : Rising(inbox'[k]) /\ \A n \in Elems(inbox'[k]) : n <= said'[k[1]]
    BY <1>0, <1>1, <1>2 DEF Waiting
  <2> QED BY <2>1 DEF Waiting, Rising, Elems
<1>7. \A d \in Clients : LinkOf(d)' = LinkOf(d) /\ (Connected(d)' <=> Connected(d))
  BY <1>2 DEF LinkOf, Connected
<1>8. Ordered' /\ \A d \in Clients : Reached(d)' \subseteq Reached(d)
  BY <1>0, <1>2, <1>7, NothingNew
<1>9. Sending(k0, handler[k0])'
  <2>1. Shaped(handler'[k0]) /\ handler'[k0].line = <<k0, n0>>
    BY <1>2 DEF Broadcast, Shaped
  <2>2. <<k0, n0>> \in Line /\ n0 <= said[k0[1]]
    BY <1>0, <1>1 DEF Waiting, Line
  <2>3. \A d \in Clients : \A a \in Reached(d) : a[1] = k0 => a[2] < n0 /\ a[2] \in Nat
    BY <1>0, <1>1, ReachedLine DEF Behind
  <2>4. \A n \in Elems(inbox'[k0]) : n0 < n
    BY <1>1, <1>2
  <2>5. \A d \in Clients : \A a \in Reached(d)' : a[1] = k0 => a[2] < n0 /\ a[2] <= n0
    BY <1>1, <1>8, <2>3
  <2> HIDE DEF n0
  <2> QED BY <1>2, <1>4, <2>1, <2>2, <2>4, <2>5 DEF Sending, Elems, Line, Shaped
<1>10. ASSUME NEW k \in Links, handler'[k].pc = "sending", k # k0
       PROVE  /\ handler[k].pc = "sending" /\ handler'[k] = handler[k]
              /\ \A d \in Clients : Connected(d)' => Connected(d) /\ LinkOf(d)' = LinkOf(d)
  BY <1>2, <1>7, <1>10
<1>11. \A d \in Clients : said[d] <= said'[d] /\ made[d] <= made'[d]
  BY <1>2, Numbers
<1>12. \A k \in Links : \A n \in Elems(inbox'[k]) : n \in Elems(inbox[k])
  BY <1>1, <1>2
<1> QED BY <1>3, <1>5, <1>6, <1>8, <1>9, <1>10, <1>11, <1>12, GoesOn DEF WentOn

\* A broadcast writes its line to a subscriber that has not had it.
LEMMA SendsKeeps ==
  ASSUME BusInv, NEW k0 \in Links, handler[k0].pc = "sending",
         NEW w \in Links, w \notin handler[k0].done, link[w[1]] = w[2],
         outbox' = [outbox EXCEPT ![w] = Append(@, handler[k0].line)],
         handler' = [handler EXCEPT ![k0] = [handler[k0] EXCEPT !.done = @ \cup {w}]],
         UNCHANGED <<link, made, inbox, subs, said, heard>>
  PROVE  BusInv'
<1> DEFINE line == handler[k0].line
           c == w[1]
<1>0. BusTypes /\ Unused /\ Waiting /\ Ordered /\ Behind /\ Sending(k0, handler[k0])
  BY DEF BusInv
<1>1. c \in Clients /\ w = LinkOf(c) /\ w \in Links /\ Connected(c)
      /\ outbox[w] \in Seq(Line) /\ heard[c] \in Seq(Line)
  BY BusAssumption, Numbers DEF BusAssumption, Links, LinkOf, Connected
<1>2. /\ line \in Line /\ line[1] = k0 /\ line[2] <= said[k0[1]] /\ k0[2] <= made[k0[1]]
      /\ line[2] \in Nat /\ \A n \in Elems(inbox[k0]) : line[2] < n
  BY <1>0 DEF Sending, Line
<1> HIDE DEF line
<1>3. \A a \in Reached(c) : Later(a, line)
  BY <1>0, <1>1, <1>2 DEF Sending, Later, line
<1>4. /\ Append(outbox[w], line) \in Seq(Line)
      /\ Elems(Append(outbox[w], line)) = Elems(outbox[w]) \cup {line}
      /\ (InOrder(outbox[w]) /\ (\A a \in Elems(outbox[w]) : Later(a, line)) =>
            InOrder(Append(outbox[w], line)))
  BY <1>1, <1>2, SeqFacts
<1>5. /\ \A k \in Links : outbox'[k] = IF k = w THEN Append(outbox[w], line) ELSE outbox[k]
      /\ \A k \in Links : handler'[k] =
           IF k = k0 THEN [handler[k0] EXCEPT !.done = @ \cup {w}] ELSE handler[k]
      /\ outbox' \in [Links -> Seq(Line)] /\ handler' = [k \in Links |-> handler'[k]]
  <2>1. outbox \in [Links -> Seq(Line)] /\ handler = [k \in Links |-> handler[k]]
    BY <1>0 DEF BusTypes
  <2>2. outbox' = [outbox EXCEPT ![w] = Append(outbox[w], line)]
    BY DEF line
  <2>3. outbox' \in [Links -> Seq(Line)]
    BY <1>4, <2>1, <2>2
  <2>4. handler' = [k \in Links |-> handler'[k]]
    BY <2>1
  <2> QED BY <2>1, <2>2, <2>3, <2>4
<1>6. BusTypes'
  BY <1>0, <1>5 DEF BusTypes
<1>7. Unused'
  <2>1. \A k \in Links : k[2] > made[k[1]] => k # w
    <3>1. w[2] <= made[c]
      BY <1>1, Numbers
    <3> QED BY <3>1, <1>1, Numbers
  <2>2. \A k \in Links : k[2] > made[k[1]] => handler'[k].pc = "none"
    BY <1>0, <1>5 DEF Unused
  <2> QED BY <1>0, <1>5, <2>1, <2>2 DEF Unused
<1>8. Waiting'
  BY <1>0 DEF Waiting, Rising, Elems
<1>9. \A d \in Clients : LinkOf(d)' = LinkOf(d) /\ (Connected(d)' <=> Connected(d))
  BY DEF LinkOf, Connected
<1>10. \A d \in Clients \ {c} : /\ Connected(d) => outbox'[LinkOf(d)] = outbox[LinkOf(d)]
                                /\ Coming(d)' = Coming(d) /\ Reached(d)' = Reached(d)
  <2> SUFFICES ASSUME NEW d \in Clients \ {c}
               PROVE  /\ Connected(d) => outbox'[LinkOf(d)] = outbox[LinkOf(d)]
                      /\ Coming(d)' = Coming(d) /\ Reached(d)' = Reached(d)
    OBVIOUS
  <2>1. Connected(d) => LinkOf(d) \in Links /\ LinkOf(d) # w
    BY <1>0, <1>1, LinkFacts
  <2>2. Connected(d) => outbox'[LinkOf(d)'] = outbox[LinkOf(d)]
    BY <1>5, <1>9, <2>1
  <2>3. Coming(d)' = IF Connected(d)' THEN Elems(outbox'[LinkOf(d)']) ELSE {}
    BY DEF Coming, Elems
  <2>4. Coming(d)' = Coming(d)
    BY <1>9, <2>2, <2>3 DEF Coming
  <2>5. Reached(d)' = Elems(heard'[d]) \cup Coming(d)'
    BY DEF Reached, Elems
  <2> QED BY <1>9, <2>2, <2>4, <2>5 DEF Reached
<1>11. /\ Coming(c) = Elems(outbox[w]) /\ Coming(c)' = Elems(outbox[w]) \cup {line}
       /\ Reached(c)' = Reached(c) \cup {line}
  <2>1. Coming(c)' = Elems(outbox'[w]) /\ Coming(c) = Elems(outbox[w])
    BY <1>1, <1>9 DEF Coming, Elems
  <2>2. Elems(outbox'[w]) = Elems(outbox[w]) \cup {line}
    BY <1>1, <1>4, <1>5
  <2>3. Reached(c)' = Elems(heard[c]) \cup Coming(c)'
    BY DEF Reached, Elems
  <2> QED BY <2>1, <2>2, <2>3 DEF Reached
<1>12. Ordered'
  <2>1. ASSUME NEW d \in Clients \ {c}
        PROVE  /\ InOrder(heard'[d]) /\ (Connected(d)' => InOrder(outbox'[LinkOf(d)']))
               /\ \A a \in Elems(heard'[d]), b \in Coming(d)' : Later(a, b)
    BY <1>0, <1>9, <1>10 DEF Ordered
  <2>2. InOrder(outbox'[w])
    BY <1>0, <1>1, <1>3, <1>4, <1>5, <1>11 DEF Ordered, Reached
  <2>3. \A a \in Elems(heard[c]), b \in Coming(c)' : Later(a, b)
    BY <1>0, <1>1, <1>3, <1>11 DEF Ordered, Reached
  <2>4. InOrder(heard'[c])
    BY <1>0, <1>1 DEF Ordered
  <2>5. InOrder(outbox'[LinkOf(c)'])
    BY <1>1, <1>9, <2>2
  <2> HIDE DEF c
  <2> QED BY <2>1, <2>3, <2>4, <2>5 DEF Ordered, InOrder, Later, Elems
<1>13. Behind'
  <2> SUFFICES ASSUME NEW d \in Clients, NEW a \in Reached(d)'
               PROVE  /\ a[2] <= said[a[1][1]] /\ a[1][2] <= made[a[1][1]]
                      /\ \A n \in Elems(inbox[a[1]]) : a[2] < n
    BY DEF Behind, Elems
  <2>1. CASE a \in Reached(d)
    BY <1>0, <2>1 DEF Behind
  <2>2. CASE a = line
    BY <1>2, <2>2
  <2> QED BY <1>10, <1>11, <2>1, <2>2
<1>14. ASSUME NEW k \in Links, handler'[k].pc = "sending" PROVE Sending(k, handler[k])'
  <2>0. handler[k].pc = "sending" /\ Sending(k, handler[k])
    BY <1>5, <1>14 DEF BusInv
  <2>1. handler'[k].line = handler[k].line
        /\ handler'[k].done = (IF k = k0 THEN handler[k0].done \cup {w} ELSE handler[k].done)
        /\ Shaped(handler'[k])
    <3>1. CASE k = k0
      <4> DEFINE more == handler[k0].done \cup {w}
      <4>1. Shaped(handler[k0])
        BY <2>0, <3>1 DEF Sending
      <4>2. handler'[k] = [handler[k0] EXCEPT !.done = more]
        BY <1>5, <3>1
      <4> HIDE DEF more
      <4>3. /\ Shaped(handler'[k]) /\ handler'[k].line = handler[k0].line
            /\ handler'[k].done = more
        <5> DEFINE began == handler[k0].began
                   done  == handler[k0].done
                   dead  == handler[k0].dead
        <5>1. handler[k0] = [pc |-> "sending", line |-> line, began |-> began, done |-> done,
                             dead |-> dead]
          BY <4>1 DEF Shaped, line
        <5> HIDE DEF began, done, dead
        <5>2. handler'[k] = [pc |-> "sending", line |-> line, began |-> began, done |-> more,
                             dead |-> dead]
          BY <4>2, <5>1
        <5>3. /\ handler'[k].line = line /\ handler'[k].began = began
              /\ handler'[k].done = more /\ handler'[k].dead = dead
          BY <5>2
        <5> QED BY <5>2, <5>3 DEF Shaped, line
      <4> QED BY <3>1, <4>3 DEF more
    <3>2. CASE k # k0
      BY <1>5, <2>0, <3>2 DEF Sending
    <3> QED BY <3>1, <3>2
  <2>2. ASSUME NEW d \in Clients, NEW a \in Reached(d)', a[1] = k
        PROVE  /\ a[2] <= handler'[k].line[2]
               /\ Connected(d)' /\ LinkOf(d)' \notin handler'[k].done => a[2] < handler'[k].line[2]
    <3>1. CASE a \in Reached(d)
      BY <1>9, <2>0, <2>1, <2>2, <3>1 DEF Sending
    <3>2. CASE a = line /\ d = c
      BY <1>1, <1>2, <1>9, <2>1, <2>2, <3>2 DEF line
    <3> QED BY <1>10, <1>11, <3>1, <3>2
  <2>3. /\ handler[k].line \in Line /\ handler[k].line[1] = k /\ handler[k].line[2] <= said[k[1]]
        /\ k[2] <= made[k[1]] /\ \A n \in Elems(inbox[k]) : handler[k].line[2] < n
    BY <2>0 DEF Sending
  <2> QED BY <2>1, <2>2, <2>3 DEF Sending, Elems, Line, Shaped
<1> QED BY <1>6, <1>7, <1>8, <1>12, <1>13, <1>14 DEF BusInv

\* The handler of a connection that ends drops its lines.
LEMMA EndsKeeps ==
  ASSUME BusInv, NEW k0 \in Links, Ends(k0), handler[k0].pc # "none"
  PROVE  BusInv'
<1>0. BusTypes
  BY DEF BusInv
<1>1. /\ \A k \in Links : handler'[k] = IF k = k0 THEN [pc |-> "closed"] ELSE handler[k]
      /\ \A k \in Links : inbox'[k] = IF k = k0 THEN <<>> ELSE inbox[k]
      /\ handler' = [k \in Links |-> handler'[k]] /\ inbox' \in [Links -> Seq(Nat)]
      /\ subs' \subseteq Links /\ UNCHANGED <<link, made, outbox, said, heard>>
  <2>1. inbox \in [Links -> Seq(Nat)] /\ handler = [k \in Links |-> handler[k]] /\ subs \subseteq Links
    BY <1>0 DEF BusTypes
  <2>2. /\ handler' = [handler EXCEPT ![k0] = [pc |-> "closed"]]
        /\ inbox' = [inbox EXCEPT ![k0] = <<>>] /\ subs' = subs \ {k0}
        /\ UNCHANGED <<link, made, outbox, said, heard>>
    BY DEF Ends, Becomes
  <2>3. inbox' \in [Links -> Seq(Nat)] /\ \A k \in Links : inbox'[k] = IF k = k0 THEN <<>> ELSE inbox[k]
    BY <2>1, <2>2
  <2>4. handler' = [k \in Links |-> handler'[k]]
        /\ \A k \in Links : handler'[k] = IF k = k0 THEN [pc |-> "closed"] ELSE handler[k]
    BY <2>1, <2>2
  <2> QED BY <2>1, <2>2, <2>3, <2>4
<1>2. BusTypes'
  BY <1>0, <1>1 DEF BusTypes
<1> QED BY <1>1, <1>2, LossKeeps DEF WentOn

\* The other steps of the server and the clients.
LEMMA OthersKeep ==
  ASSUME BusInv,
         \/ \E c \in Clients : SeesClosed(c) \/ ProcessEnds(c)
         \/ \E k \in Links : Accept(k) \/ AllSent(k) \/ EndOfFile(k) \/ SetChanged(k)
  PROVE  BusInv'
<1>0. BusTypes
  BY DEF BusInv
<1>1. ASSUME NEW c \in Clients, SeesClosed(c) PROVE BusInv'
  <2>1. /\ \A d \in Clients : link'[d] = IF d = c THEN 0 ELSE link[d]
        /\ \A k \in Links : outbox'[k] = IF k = LinkOf(c) THEN <<>> ELSE outbox[k]
        /\ link' \in [Clients -> Nat] /\ outbox' \in [Links -> Seq(Line)]
        /\ UNCHANGED <<made, inbox, handler, subs, said, heard>>
    BY <1>0, <1>1, LinkFacts DEF SeesClosed, BusTypes
  <2>2. BusTypes'
    <3>1. \A d \in Clients : link'[d] <= made'[d]
      <4>1. \A d \in Clients : link[d] <= made[d] /\ made[d] \in Nat
        BY Numbers
      <4>2. made' = made /\ \A d \in Clients : link'[d] = 0 \/ link'[d] = link[d]
        BY <2>1
      <4> QED BY <4>1, <4>2
    <3> QED BY <1>0, <2>1, <3>1 DEF BusTypes
  <2> QED BY <2>1, <2>2, LossKeeps DEF WentOn
<1>2. ASSUME NEW c \in Clients, ProcessEnds(c) PROVE BusInv'
  <2>1. /\ \A d \in Clients : link'[d] = IF d = c THEN 0 ELSE link[d]
        /\ \A d \in Clients : heard'[d] = IF d = c THEN <<>> ELSE heard[d]
        /\ link' \in [Clients -> Nat] /\ heard' \in [Clients -> Seq(Line)]
        /\ UNCHANGED <<made, said>>
    BY <1>0, <1>2 DEF ProcessEnds, BusTypes
  <2>2. /\ \A k \in Links : outbox'[k] = outbox[k] \/ outbox'[k] = <<>>
        /\ outbox' \in [Links -> Seq(Line)]
    BY <1>0, <1>2 DEF ProcessEnds, BusTypes
  <2>3. /\ \A k \in Links : inbox'[k] = inbox[k] \/ inbox'[k] = <<>>
        /\ \A k \in Links : handler'[k] = handler[k]
                            \/ (handler[k].pc # "none" /\ handler'[k].pc = "closed")
        /\ inbox' \in [Links -> Seq(Nat)] /\ subs' \subseteq Links
        /\ handler' = [k \in Links |-> handler'[k]]
    <3>1. CASE c = Host
      <4>1. /\ handler' = [k \in Links |-> IF Alive(k) THEN [pc |-> "closed"] ELSE handler[k]]
            /\ inbox' = [k \in Links |-> <<>>] /\ subs' = {}
        BY <1>2, <3>1 DEF ProcessEnds
      <4>2. \A k \in Links : handler'[k] = IF Alive(k) THEN [pc |-> "closed"] ELSE handler[k]
        BY <4>1
      <4>3. handler' = [k \in Links |-> handler'[k]]
        BY <4>1
      <4>4. inbox' \in [Links -> Seq(Nat)] /\ \A k \in Links : inbox'[k] = <<>>
        BY <4>1
      <4> QED BY <4>1, <4>2, <4>3, <4>4 DEF Alive
    <3>2. CASE c # Host
      BY <1>0, <1>2, <3>2 DEF ProcessEnds, BusTypes
    <3> QED BY <3>1, <3>2
  <2>4. BusTypes'
    <3>1. \A d \in Clients : link'[d] <= made'[d]
      <4>1. \A d \in Clients : link[d] <= made[d] /\ made[d] \in Nat
        BY Numbers
      <4>2. made' = made /\ \A d \in Clients : link'[d] = 0 \/ link'[d] = link[d]
        BY <2>1
      <4> QED BY <4>1, <4>2
    <3> QED BY <1>0, <2>1, <2>2, <2>3, <3>1 DEF BusTypes
  <2> QED BY <2>1, <2>2, <2>3, <2>4, LossKeeps DEF WentOn
<1>3. ASSUME NEW k0 \in Links, Accept(k0) \/ AllSent(k0) PROVE BusInv'
  <2>1. /\ \A k \in Links : handler'[k] = IF k = k0 THEN Reading ELSE handler[k]
        /\ handler' = [k \in Links |-> handler'[k]] /\ subs' \subseteq Links
        /\ handler[k0].pc # "none" /\ UNCHANGED <<link, made, inbox, outbox, said, heard>>
    BY <1>0, <1>3 DEF Accept, AllSent, Becomes, BusTypes
  <2>2. BusTypes'
    BY <1>0, <2>1 DEF BusTypes
  <2> QED BY <2>1, <2>2, LossKeeps DEF WentOn, Reading
<1>4. ASSUME NEW k \in Links, EndOfFile(k) \/ SetChanged(k) PROVE BusInv'
  BY <1>4, EndsKeeps DEF EndOfFile, SetChanged
<1> QED BY <1>1, <1>2, <1>3, <1>4

\* A broadcast meets a subscriber, whose client may have left it meanwhile.
LEMMA SendOneKeeps ==
  ASSUME BusInv, NEW k0 \in Links, SendOne(k0)
  PROVE  BusInv'
<1>0. BusTypes /\ handler[k0].pc = "sending" /\ Shaped(handler[k0])
  BY DEF BusInv, SendOne, Sending
<1>p. PICK w \in MayMeet(handler[k0]) :
      \/ /\ link[ClientOf(w)] = w[2]
         /\ outbox' = [outbox EXCEPT ![w] = Append(@, handler[k0].line)]
         /\ Becomes(k0, [handler[k0] EXCEPT !.done = @ \cup {w}])
      \/ /\ link[ClientOf(w)] # w[2]
         /\ \E dead \in SUBSET {w} :
              Becomes(k0, [handler[k0] EXCEPT !.done = @ \cup {w}, !.dead = @ \cup dead])
         /\ UNCHANGED outbox
  BY DEF SendOne
<1>1. w \in Links /\ w \notin handler[k0].done /\ UNCHANGED <<link, made, inbox, subs, said, heard>>
  BY <1>0 DEF MayMeet, BusTypes, SendOne
<1>2. CASE /\ link[ClientOf(w)] = w[2]
           /\ outbox' = [outbox EXCEPT ![w] = Append(@, handler[k0].line)]
           /\ Becomes(k0, [handler[k0] EXCEPT !.done = @ \cup {w}])
  BY <1>0, <1>1, <1>2, SendsKeeps DEF ClientOf, Becomes
<1>3. ASSUME NEW dead, UNCHANGED outbox,
             Becomes(k0, [handler[k0] EXCEPT !.done = @ \cup {w}, !.dead = @ \cup dead])
      PROVE  BusInv'
  <2> DEFINE h == [handler[k0] EXCEPT !.done = @ \cup {w}, !.dead = @ \cup dead]
  <2>1. WentOn(handler[k0], h)
    <3> DEFINE line  == handler[k0].line
               began == handler[k0].began
               done  == handler[k0].done
               gone  == handler[k0].dead
               met   == done \cup {w}
               more  == gone \cup dead
               g     == [handler[k0] EXCEPT !.done = met]
    <3>1. handler[k0] = [pc |-> "sending", line |-> line, began |-> began, done |-> done,
                         dead |-> gone]
      BY <1>0 DEF Shaped
    <3>2. done \subseteq met /\ h = [g EXCEPT !.dead = more]
      OBVIOUS
    <3> HIDE DEF met, more, h
    <3>3. g = [pc |-> "sending", line |-> line, began |-> began, done |-> met, dead |-> gone]
      <4> HIDE DEF line, began, done, gone
      <4> QED BY <3>1
    <3> HIDE DEF g
    <3>4. h = [pc |-> "sending", line |-> line, began |-> began, done |-> met, dead |-> more]
      <4> HIDE DEF line, began, done, gone
      <4> QED BY <3>2, <3>3
    <3>5. h.line = line /\ h.began = began /\ h.done = met /\ h.dead = more
      <4> HIDE DEF line, began, done, gone
      <4> QED BY <3>4
    <3> QED BY <3>2, <3>4, <3>5 DEF WentOn, Shaped
  <2> HIDE DEF h
  <2>2. /\ \A k \in Links : handler'[k] = IF k = k0 THEN h ELSE handler[k]
        /\ handler' = [k \in Links |-> handler'[k]]
    BY <1>0, <1>3 DEF Becomes, BusTypes, h
  <2>3. BusTypes'
    BY <1>0, <1>1, <1>3, <2>2 DEF BusTypes
  <2> QED BY <1>0, <1>1, <1>3, <2>1, <2>2, <2>3, LossKeeps DEF WentOn
<1> QED BY <1>p, <1>2, <1>3

\* Every step of a client, the server or a process that ends keeps it.
LEMMA BusStep == ShortDrains /\ BusInv /\ [BusNext]_busVars => BusInv'
<1> SUFFICES ASSUME ShortDrains, BusInv, [BusNext]_busVars PROVE BusInv'
  OBVIOUS
<1>1. CASE UNCHANGED busVars
  <2>1. BusTypes'
    BY <1>1 DEF BusInv, BusTypes, busVars
  <2> QED BY <1>1, <2>1, LossKeeps DEF WentOn, busVars
<1>2. CASE BusNext
  BY <1>2, ConnectKeeps, PublishKeeps, HearKeeps, ReadLineKeeps, SendOneKeeps, OthersKeep
  DEF BusNext
<1> QED BY <1>1, <1>2

\* What is wanted of it.
LEMMA OrderHeard == BusInv => HeardInOrder
<1> SUFFICES ASSUME BusInv, NEW c \in Clients, NEW i \in DOMAIN heard[c], NEW j \in DOMAIN heard[c],
                    i < j, heard[c][i][1] = heard[c][j][1]
             PROVE  heard[c][i][2] < heard[c][j][2]
  BY DEF HeardInOrder
<1> QED BY DEF BusInv, Ordered, InOrder, Later

\* As long as no drain outlasts the delay of a reconnect, a process hears the events
\* of a connection in order and each once, for any clients, connections and deaths.
THEOREM InOrderOnce == BusSpec => [](ShortDrains => HeardInOrder)
<1>1. BusInit => (ShortDrains => BusInv)
  BY BusStarts
<1>2. (ShortDrains => BusInv) /\ [BusNext]_busVars => (ShortDrains => BusInv)'
  BY BusStep
<1>3. (ShortDrains => BusInv) => (ShortDrains => HeardInOrder)
  BY OrderHeard
<1> QED BY <1>1, <1>2, <1>3, PTL DEF BusSpec
-----------------------------------------------------------------------------
(* Types.                                                                  *)

\* The folder holds at most one log per run, so a count of it stays in bounds.
LEMMA FolderCount ==
  ASSUME NEW n \in 0..MaxLogs, NEW S \in SUBSET (1..n)
  PROVE  IsFiniteSet(S) /\ Cardinality(S) \in 0..MaxLogs
<1>0. n \in Nat /\ n <= MaxLogs /\ MaxLogs \in Nat
  BY AuditAssumption DEF AuditAssumption
<1>1. IsFiniteSet(1..n) /\ Cardinality(1..n) = n
  BY <1>0, FS_Interval
<1>2. IsFiniteSet(S) /\ Cardinality(S) <= n
  BY <1>1, FS_Subset
<1>3. Cardinality(S) \in Nat
  BY <1>2, FS_CardinalityType
<1> QED BY <1>0, <1>2, <1>3

\* The machine starts typed.
LEMMA AuditTypesInit == AuditInit => AuditTypeOK
  BY AuditAssumption
  DEF AuditAssumption, AuditInit, AuditTypeOK, NoCheck, NoArchive, NoneFired

\* Whatever a thread clears meanwhile.
LEMMA AuditTypesStep == AuditTypeOK /\ [AuditNext]_auditVars => AuditTypeOK'
<1> SUFFICES ASSUME AuditTypeOK, [AuditNext]_auditVars PROVE AuditTypeOK'
  OBVIOUS
<1> USE DEF AuditTypeOK
<1>0. /\ Cardinality(normal) \in 0..MaxLogs
      /\ MaxLogs \in Nat /\ MaxAuditCrashes \in Nat
      /\ NoCheck \in [at : {"idle", "count", "load", "save"},
                      count : 0..MaxLogs, mark : Milestones \cup {0}]
      /\ NoArchive \in [at : {"idle", "clearing"}, files : SUBSET (1..written)]
      /\ NoneFired \in [Milestones -> Nat]
  <2>1. Cardinality(normal) \in 0..MaxLogs
    BY FolderCount
  <2> QED BY <2>1, AuditAssumption DEF AuditAssumption, NoCheck, NoArchive, NoneFired
<1>1. CASE CloseLog
  <2>1. /\ written' \in 0..MaxLogs /\ normal' \subseteq 1..written'
        /\ 1..written \subseteq 1..written'
    BY <1>0, <1>1 DEF CloseLog
  <2>2. Cardinality(normal') \in 0..MaxLogs
    BY <2>1, FolderCount
  <2>3. peak' \in 0..MaxLogs
    BY <1>1, <2>2 DEF CloseLog, Higher
  <2>4. check' \in [at : {"idle", "count", "load", "save"},
                    count : 0..MaxLogs, mark : Milestones \cup {0}]
    BY <1>0, <1>1 DEF CloseLog
  <2>5. archive' \in [Archivers -> [at : {"idle", "clearing"}, files : SUBSET (1..written')]]
    <3>1. \A a \in Archivers :
            archive[a] \in [at : {"idle", "clearing"}, files : SUBSET (1..written')]
      BY <2>1
    <3> QED BY <1>1, <3>1 DEF CloseLog
  <2> QED BY <1>1, <2>1, <2>3, <2>4, <2>5 DEF CloseLog
<1>2. CASE CountLogs
  BY <1>0, <1>2 DEF CountLogs
<1>3. CASE LoadCounter
  BY <1>0, <1>3 DEF LoadCounter, Crossed
<1>4. CASE SaveCounter
  <2>1. \A m \in Milestones : fired[m] + 1 \in Nat
    OBVIOUS
  <2>2. fired' \in [Milestones -> Nat]
    BY <1>4, <2>1 DEF SaveCounter
  <2> QED BY <1>0, <1>4, <2>2 DEF SaveCounter
<1>5. CASE CheckRaises
  BY <1>0, <1>5 DEF CheckRaises
<1>6. ASSUME NEW a \in Archivers, ListAndZip(a) PROVE AuditTypeOK'
  BY <1>6 DEF ListAndZip
<1>7. ASSUME NEW a \in Archivers, NEW f \in archive[a].files, Unlink(a, f) PROVE AuditTypeOK'
  <2>1. [archive[a] EXCEPT !.files = @ \ {f}]
          \in [at : {"idle", "clearing"}, files : SUBSET (1..written)]
    OBVIOUS
  <2>2. archive' = [archive EXCEPT ![a] = [archive[a] EXCEPT !.files = @ \ {f}]]
    BY <1>7 DEF Unlink
  <2> QED BY <1>7, <2>1, <2>2 DEF Unlink
<1>8. ASSUME NEW a \in Archivers, ResetCounter(a) PROVE AuditTypeOK'
  BY <1>0, <1>8 DEF ResetCounter
<1>9. CASE AuditCrash
  BY <1>0, <1>9 DEF AuditCrash
<1>10. CASE UNCHANGED auditVars
  BY <1>10 DEF auditVars
<1> QED BY <1>1, <1>2, <1>3, <1>4, <1>5, <1>6, <1>7, <1>8, <1>9, <1>10 DEF AuditNext

\* The plan: what a hydration carries are ids and a date of its tables.
TypedRow(n) ==
  [date : 1..PlanDays, rid : 0..n, timed : BOOLEAN, status : Statuses, beside : SUBSET Nat]
TypedTask == [active : BOOLEAN, days : Patterns]

TypedHydration(h, n) ==
  \/ h = NotHydrating \/ h = [pc |-> "called"]
  \/ h \in [pc : {"going"}, on : 1..PlanDays, new : Seq(1..n), base : Nat, todo : SUBSET (1..n)]

PlanTypes ==
  /\ recurring \in Seq(TypedTask) /\ rows \in Seq(TypedRow(Len(recurring)))
  /\ today \in 1..PlanDays
  /\ DOMAIN hydrating = ToolThreads
  /\ hydrating = [th \in ToolThreads |-> hydrating[th]]
  /\ \A th \in ToolThreads : TypedHydration(hydrating[th], Len(recurring))

\* What is appended to a table, changed in it or joined to it leaves a table.
LEMMA SeqOf ==
  ASSUME NEW S, NEW s \in Seq(S)
  PROVE  /\ Len(s) \in Nat /\ DOMAIN s = 1..Len(s) /\ \A i \in DOMAIN s : s[i] \in S
         /\ \A e \in S : Append(s, e) \in Seq(S) /\ Len(Append(s, e)) = Len(s) + 1
         /\ \A i \in DOMAIN s, e \in S :
              [s EXCEPT ![i] = e] \in Seq(S) /\ Len([s EXCEPT ![i] = e]) = Len(s)
         /\ \A t \in Seq(S) : s \o t \in Seq(S)
  OBVIOUS

\* Rows of a table are rows of a wider type.
LEMMA SeqWider ==
  ASSUME NEW S, NEW T, S \subseteq T, NEW s \in Seq(S)
  PROVE  s \in Seq(T)
  OBVIOUS

\* Empty tables are typed.
LEMMA PlanTypesInit == PlanInit => PlanTypes
  BY PlanAssumption DEF PlanAssumption, PlanInit, PlanTypes, TypedHydration

\* That is more than the types the run checks.
LEMMA PlanTyped == PlanTypes => PlanTypeOK
<1> SUFFICES ASSUME PlanTypes PROVE PlanTypeOK
  OBVIOUS
<1>1. \A rid \in DOMAIN recurring : recurring[rid] \in TypedTask
  BY SeqOf DEF PlanTypes
<1>2. \A id \in DOMAIN rows : rows[id] \in TypedRow(Len(recurring))
  BY SeqOf DEF PlanTypes
<1> QED BY <1>1, <1>2 DEF PlanTypes, PlanTypeOK, TypedRow, TypedTask, TypedHydration, NotHydrating

\* One thread's transaction takes a step, the tables stay.
LEMMA HydrationTyped ==
  ASSUME PlanTypes, NEW th \in ToolThreads, NEW h, TypedHydration(h, Len(recurring)), Step(th, h),
         UNCHANGED <<recurring, today>>, rows' \in Seq(TypedRow(Len(recurring)))
  PROVE  PlanTypes'
  BY DEF PlanTypes, Step

\* Every tool, hydration, midnight and crash keeps it.
LEMMA PlanTypesStep == PlanTypes /\ [PlanNext]_planVars => PlanTypes'
<1> SUFFICES ASSUME PlanTypes, [PlanNext]_planVars PROVE PlanTypes'
  OBVIOUS
<1>0. Len(recurring) \in Nat /\ DOMAIN recurring = 1..Len(recurring)
  BY SeqOf DEF PlanTypes
<1>a. ASSUME NEW date \in 1..PlanDays, NEW rid \in 0..Len(recurring), NEW timed \in BOOLEAN,
             NEW beside \in SUBSET Nat
      PROVE  DayTask(date, rid, timed, beside) \in TypedRow(Len(recurring))
  BY DEF DayTask, TypedRow, Statuses
<1>b. \A id \in DOMAIN rows : rows[id] \in TypedRow(Len(recurring))
  BY SeqOf DEF PlanTypes
<1>1. ASSUME NEW th \in ToolThreads, NEW timed \in BOOLEAN, AddTask(th, timed) PROVE PlanTypes'
  <2>1. DayTask(today, NoRecurring, timed, {}) \in TypedRow(Len(recurring))
    BY <1>0, <1>a DEF PlanTypes, NoRecurring
  <2>2. rows' \in Seq(TypedRow(Len(recurring)))
    BY <1>1, <2>1, SeqOf DEF PlanTypes, AddTask, AddDayTask
  <2> QED BY <1>1, <2>2 DEF PlanTypes, AddTask
<1>2. ASSUME NEW th \in ToolThreads, NEW id \in DOMAIN rows, NEW status \in Statuses,
             MarkTask(th, id, status)
      PROVE  PlanTypes'
  <2>1. rows' = [rows EXCEPT ![id] = [rows[id] EXCEPT !.status = status]]
    BY <1>2 DEF MarkTask, UpdateTaskStatus
  <2>2. [rows[id] EXCEPT !.status = status] \in TypedRow(Len(recurring))
    BY <1>b DEF TypedRow
  <2>3. rows' \in Seq(TypedRow(Len(recurring)))
    BY <2>1, <2>2, SeqOf DEF PlanTypes
  <2> QED BY <1>2, <2>3 DEF PlanTypes, MarkTask
<1>3. ASSUME NEW th \in ToolThreads, NEW id \in DOMAIN rows, NEW timed \in BOOLEAN,
             Reschedule(th, id, timed)
      PROVE  PlanTypes'
  <2>1. rows' = [rows EXCEPT ![id] = [rows[id] EXCEPT !.timed = timed]]
    BY <1>3 DEF Reschedule, RescheduleTask
  <2>2. [rows[id] EXCEPT !.timed = timed] \in TypedRow(Len(recurring))
    BY <1>b DEF TypedRow
  <2>3. rows' \in Seq(TypedRow(Len(recurring)))
    BY <2>1, <2>2, SeqOf DEF PlanTypes
  <2> QED BY <1>3, <2>3 DEF PlanTypes, Reschedule
<1>4. ASSUME NEW th \in ToolThreads, NEW rid \in DOMAIN recurring, DeleteRecurringTask(th, rid)
      PROVE  PlanTypes'
  <2>1. recurring' = [recurring EXCEPT ![rid] = [recurring[rid] EXCEPT !.active = FALSE]]
    BY <1>4 DEF DeleteRecurringTask, Deactivate
  <2>2. [recurring[rid] EXCEPT !.active = FALSE] \in TypedTask
    <3>1. recurring[rid] \in TypedTask
      BY SeqOf DEF PlanTypes
    <3> QED BY <3>1 DEF TypedTask
  <2>3. recurring' \in Seq(TypedTask) /\ Len(recurring') = Len(recurring)
    BY <2>1, <2>2, SeqOf DEF PlanTypes
  <2> QED BY <1>4, <2>3 DEF PlanTypes, DeleteRecurringTask
<1>5. ASSUME NEW th \in ToolThreads, NEW rid \in DOMAIN recurring, LookAt(th, rid) PROVE PlanTypes'
  <2> DEFINE h == hydrating[th]
             g == [h EXCEPT !.todo = @ \ {rid},
                            !.new = IF h.on \in recurring[rid].days /\ ~Made(h.on, rid)
                                    THEN Append(@, rid) ELSE @]
  <2>1. h \in [pc : {"going"}, on : 1..PlanDays, new : Seq(1..Len(recurring)),
               base : Nat, todo : SUBSET (1..Len(recurring))]
    BY <1>5 DEF LookAt, PlanTypes, TypedHydration, NotHydrating
  <2>2. Append(h.new, rid) \in Seq(1..Len(recurring))
    BY <1>0, <2>1, SeqOf
  <2>3. TypedHydration(g, Len(recurring))
    BY <2>1, <2>2 DEF TypedHydration
  <2>4. Step(th, g) /\ UNCHANGED <<rows, recurring, today>>
    BY <1>5 DEF LookAt
  <2> HIDE DEF g
  <2>5. rows' \in Seq(TypedRow(Len(recurring)))
    BY <2>4 DEF PlanTypes
  <2> QED BY <2>3, <2>4, <2>5, HydrationTyped
<1>6. ASSUME NEW th \in ToolThreads, NEW days \in Patterns, AddRecurringTask(th, days)
      PROVE  PlanTypes'
  <2>1. [active |-> TRUE, days |-> days] \in TypedTask
    BY DEF TypedTask
  <2>2. recurring' \in Seq(TypedTask) /\ Len(recurring') = Len(recurring) + 1
    BY <1>6, <2>1, SeqOf DEF PlanTypes, AddRecurringTask, InsertRecurring
  <2>3. 1..Len(recurring) \subseteq 1..Len(recurring') /\ 0..Len(recurring) \subseteq 0..Len(recurring')
    BY <1>0, <2>2
  <2>4. TypedRow(Len(recurring)) \subseteq TypedRow(Len(recurring'))
    BY <2>3 DEF TypedRow
  <2>5. rows' \in Seq(TypedRow(Len(recurring')))
    BY <1>6, <2>4, SeqWider DEF PlanTypes, AddRecurringTask
  <2>6. ASSUME NEW t \in ToolThreads PROVE TypedHydration(hydrating'[t], Len(recurring'))
    <3>1. CASE hydrating'[t] = [pc |-> "called"]
      BY <3>1 DEF TypedHydration
    <3>2. CASE hydrating'[t] = hydrating[t]
      <4>1. Seq(1..Len(recurring)) \subseteq Seq(1..Len(recurring'))
        BY <2>3, SeqWider
      <4> QED BY <2>3, <3>2, <4>1 DEF PlanTypes, TypedHydration
    <3> QED BY <1>6, <3>1, <3>2 DEF PlanTypes, AddRecurringTask
  <2>7. DOMAIN hydrating' = ToolThreads /\ hydrating' = [t \in ToolThreads |-> hydrating'[t]]
    BY <1>6 DEF PlanTypes, AddRecurringTask
  <2> QED BY <1>6, <2>2, <2>5, <2>6, <2>7 DEF PlanTypes, AddRecurringTask
<1>7. ASSUME NEW th \in ToolThreads, ListActive(th) PROVE PlanTypes'
  <2> DEFINE g == [pc |-> "going", on |-> today, new |-> <<>>, base |-> Len(rows),
                   todo |-> {rid \in DOMAIN recurring : recurring[rid].active}]
  <2>0. Len(rows) \in Nat
    BY SeqOf DEF PlanTypes
  <2>1. TypedHydration(g, Len(recurring))
    BY <1>0, <2>0 DEF PlanTypes, TypedHydration
  <2>2. Step(th, g) /\ UNCHANGED <<rows, recurring, today>>
    BY <1>7 DEF ListActive
  <2> HIDE DEF g
  <2>3. rows' \in Seq(TypedRow(Len(recurring)))
    BY <2>2 DEF PlanTypes
  <2> QED BY <2>1, <2>2, <2>3, HydrationTyped
<1>8. ASSUME NEW th \in ToolThreads, Commit(th) PROVE PlanTypes'
  <2> DEFINE h == hydrating[th]
  <2>1. h.on \in 1..PlanDays /\ h.new \in Seq(1..Len(recurring)) /\ h.base \in Nat
    BY <1>8 DEF Commit, PlanTypes, TypedHydration, NotHydrating
  <2>2. /\ Len(h.new) \in Nat /\ DOMAIN h.new = 1..Len(h.new)
        /\ \A i \in DOMAIN h.new : h.new[i] \in 1..Len(recurring)
    BY <2>1, SeqOf
  <2>0. (h.base + 1)..Len(rows) \in SUBSET Nat
    BY <2>1, SeqOf DEF PlanTypes
  <2>3. \A i \in DOMAIN h.new :
          DayTask(h.on, h.new[i], TRUE, (h.base + 1)..Len(rows)) \in TypedRow(Len(recurring))
    <3>1. \A i \in DOMAIN h.new : h.new[i] \in 0..Len(recurring)
      BY <1>0, <2>2
    <3> QED BY <1>a, <2>0, <2>1, <3>1
  <2>4. Inserted(h) \in [1..Len(h.new) -> TypedRow(Len(recurring))]
    BY <2>2, <2>3 DEF Inserted
  <2>5. Inserted(h) \in Seq(TypedRow(Len(recurring)))
    BY <2>2, <2>4, FromFunction
  <2>6. rows' \in Seq(TypedRow(Len(recurring)))
    BY <1>8, <2>5, SeqOf DEF PlanTypes, Commit
  <2>7. TypedHydration(NotHydrating, Len(recurring))
    BY DEF TypedHydration
  <2> QED BY <1>8, <2>6, <2>7, HydrationTyped DEF Commit
<1>9. ASSUME NEW th \in ToolThreads, RollBack(th) PROVE PlanTypes'
  <2>1. TypedHydration(NotHydrating, Len(recurring))
    BY DEF TypedHydration
  <2>2. rows' \in Seq(TypedRow(Len(recurring)))
    BY <1>9 DEF RollBack, PlanTypes
  <2> QED BY <1>9, <2>1, <2>2, HydrationTyped DEF RollBack
<1>10. CASE Midnight
  BY <1>10, PlanAssumption DEF PlanAssumption, Midnight, PlanTypes
<1>11. CASE PlanCrash
  BY <1>11 DEF PlanCrash, PlanTypes, TypedHydration
<1>12. CASE UNCHANGED planVars
  BY <1>12 DEF planVars, PlanTypes
<1> QED
  BY <1>1, <1>2, <1>3, <1>4, <1>5, <1>6, <1>7, <1>8, <1>9, <1>10, <1>11, <1>12 DEF PlanNext

\* The undo slot and its copies name paths; what is written is a text or nothing.
SlotTyped(s) ==
  s = NoSlot \/ (s.kind \in {"created", "overwritten"} /\ s.target \in Paths)

UndoTypes ==
  /\ UndoTypeOK
  /\ SlotTyped(slot) /\ SlotTyped(back.slot)
  /\ back = [at |-> back.at, slot |-> back.slot, last |-> back.last]
  /\ shots \subseteq [id : 1..taken, text : Texts, aged : BOOLEAN]
  /\ \A w \in writes : w.path \in Paths /\ w.text \in Texts \cup {Missing}
  /\ step = NoStep \/ (step.path \in Paths /\ step.text \in Texts \cup {Missing})

\* It starts typed, whatever files there are.
LEMMA UndoTypesInit == UndoInit => UndoTypes
  BY UndoAssumption
  DEF UndoAssumption, UndoInit, UndoTypes, UndoTypeOK, SlotTyped, NoSlot, Resting

\* A file that is written exists unless it is deleted.
LEMMA PutTyped ==
  ASSUME files \in [Paths -> Texts \cup {Missing}], aged \subseteq Existing,
         NEW p \in Paths, NEW text \in Texts \cup {Missing}, Put(p, text)
  PROVE  files' \in [Paths -> Texts \cup {Missing}] /\ aged' \subseteq Existing'
  BY DEF Put, Existing

\* The bound of the other changes.
LEMMA ChangeBound ==
  ASSUME changes \in 0..MaxChanges, Change
  PROVE  changes' \in 0..MaxChanges
  BY UndoAssumption DEF UndoAssumption, Change

\* A snapshot is taken of a file that exists and holds its text.
LEMMA SnapshotTyped ==
  ASSUME UndoTypes, NEW p \in Paths, taken < MaxSnapshots, Snapshot(p)
  PROVE  /\ SlotTyped(slot') /\ taken' \in 0..MaxSnapshots
         /\ slot'.kind \in {"none", "created", "overwritten"}
         /\ shots' \subseteq [id : 1..taken', text : Texts, aged : BOOLEAN]
<1>0. /\ taken \in 0..MaxSnapshots /\ SlotTyped(slot)
      /\ slot.kind \in {"none", "created", "overwritten"}
      /\ files \in [Paths -> Texts \cup {Missing}]
      /\ shots \subseteq [id : 1..taken, text : Texts, aged : BOOLEAN]
  BY DEF UndoTypes, UndoTypeOK
<1> PICK copied \in BOOLEAN, saved \in BOOLEAN :
      LET copies == files[p] # Missing /\ copied
          records == saved /\ (files[p] = Missing \/ copies)
          shot == [id |-> taken + 1, text |-> files[p], aged |-> p \in aged]
      IN /\ taken' = taken + 1
         /\ shots' = IF copies THEN Kept \cup {shot} ELSE Kept
         /\ slot' = IF records THEN SlotFor(p) ELSE slot
         /\ last' = IF records THEN [path |-> p, text |-> files[p]] ELSE last
  BY DEF Snapshot
<1>1. taken' = taken + 1 /\ taken' \in 0..MaxSnapshots /\ taken \in Nat
  <2>1. taken' = taken + 1
    OBVIOUS
  <2> QED BY <1>0, <2>1, UndoAssumption DEF UndoAssumption
<1>2. 1..taken \subseteq 1..taken' /\ taken + 1 \in 1..taken'
  BY <1>1
<1>3. SlotTyped(slot') /\ slot'.kind \in {"none", "created", "overwritten"}
  BY <1>0 DEF SlotTyped, SlotFor, NoSlot
<1>4. ASSUME NEW s \in shots' PROVE s \in [id : 1..taken', text : Texts, aged : BOOLEAN]
  <2>1. \/ s \in shots
        \/ files[p] # Missing /\ s = [id |-> taken + 1, text |-> files[p], aged |-> p \in aged]
    BY DEF Kept
  <2>2. CASE s \in shots
    BY <1>0, <1>2, <2>2
  <2>3. CASE files[p] # Missing /\ s = [id |-> taken + 1, text |-> files[p], aged |-> p \in aged]
    <3>1. files[p] \in Texts
      BY <1>0, <2>3
    <3> QED BY <1>2, <2>3, <3>1
  <2> QED BY <2>1, <2>2, <2>3
<1> QED BY <1>1, <1>3, <1>4

\* Every write, snapshot, rollback and crash keeps it.
LEMMA UndoTypesStep == UndoTypes /\ [UndoNext]_undoVars => UndoTypes'
<1> SUFFICES ASSUME UndoTypes, [UndoNext]_undoVars PROVE UndoTypes'
  OBVIOUS
<1> USE DEF UndoTypes, UndoTypeOK
<1>0. files \in [Paths -> Texts \cup {Missing}] /\ aged \subseteq Existing
  OBVIOUS
<1>1. ASSUME NEW p \in Paths, NEW text \in Texts \cup {Missing}, Approve(p, text)
      PROVE  UndoTypes'
  <2>1. /\ SlotTyped(slot') /\ taken' \in 0..MaxSnapshots
        /\ slot'.kind \in {"none", "created", "overwritten"}
        /\ shots' \subseteq [id : 1..taken', text : Texts, aged : BOOLEAN]
    BY <1>1, SnapshotTyped DEF Approve
  <2>2. \A w \in writes' : w.path \in Paths /\ w.text \in Texts \cup {Missing}
    <3>1. writes' = writes \cup {[path |-> p, text |-> text]}
      BY <1>1 DEF Approve
    <3>2. \A w \in writes : w.path \in Paths /\ w.text \in Texts \cup {Missing}
      OBVIOUS
    <3>3. p \in Paths /\ text \in Texts \cup {Missing}
      OBVIOUS
    <3> QED BY ONLY <3>1, <3>2, <3>3
  <2> QED BY <1>1, <2>1, <2>2 DEF Approve, disk, Existing, SlotTyped
<1>2. ASSUME NEW p \in Paths, NEW text \in Texts \cup {Missing}, StartGreen(p, text)
      PROVE  UndoTypes'
  <2>1. changes' \in 0..MaxChanges
    BY <1>2, ChangeBound DEF StartGreen
  <2> QED BY <1>2, <2>1 DEF StartGreen, disk, Existing, SlotTyped
<1>3. ASSUME NEW p \in Paths, NEW text \in Texts \cup {Missing},
             Makes(p, text) \/ ChangedByHand(p, text)
      PROVE  UndoTypes'
  <2>1. Put(p, text) /\ Change /\ UNCHANGED <<slot, shots, writes, back, step, note, taken, last>>
    BY <1>3 DEF Makes, ChangedByHand
  <2>2. changes' \in 0..MaxChanges
    BY <2>1, ChangeBound
  <2>3. files' \in [Paths -> Texts \cup {Missing}] /\ aged' \subseteq Existing'
    BY <1>0, <2>1, PutTyped
  <2> QED BY <2>1, <2>2, <2>3 DEF SlotTyped
<1>4. ASSUME NEW p \in Paths, NEW q \in Paths, MoveFile(p, q) PROVE UndoTypes'
  <2>1. changes' \in 0..MaxChanges
    BY <1>4, ChangeBound DEF MoveFile
  <2>2. files' \in [Paths -> Texts \cup {Missing}] /\ aged' \subseteq Existing'
    BY <1>0, <1>4 DEF MoveFile, Existing
  <2> QED BY <1>4, <2>1, <2>2 DEF MoveFile, SlotTyped
<1>5. ASSUME NEW places \in SUBSET Paths, NEW text \in Texts, Extract(places, text)
      PROVE  UndoTypes'
  <2>1. changes' \in 0..MaxChanges
    BY <1>5, ChangeBound DEF Extract
  <2>2. files' \in [Paths -> Texts \cup {Missing}]
    BY <1>0, <1>5 DEF Extract
  <2>3. aged' \subseteq Existing'
    <3>1. PICK old \in SUBSET places : aged' = (aged \ places) \cup old
      BY <1>5 DEF Extract
    <3>2. files' = [q \in Paths |-> IF q \in places THEN text ELSE files[q]] /\ text # Missing
      BY <1>5 DEF Extract
    <3> QED BY <1>0, <3>1, <3>2 DEF Existing
  <2> QED BY <1>5, <2>1, <2>2, <2>3 DEF Extract, SlotTyped
<1>6. ASSUME NEW w \in writes, Land(w) PROVE UndoTypes'
  <2>1. w.path \in Paths /\ w.text \in Texts \cup {Missing}
    OBVIOUS
  <2>2. files' \in [Paths -> Texts \cup {Missing}] /\ aged' \subseteq Existing'
    BY <1>0, <1>6, <2>1, PutTyped DEF Land, disk, Existing
  <2> QED BY <1>6, <2>2 DEF Land, SlotTyped
<1>7. CASE LandGreen
  <2>1. step.path \in Paths /\ step.text \in Texts \cup {Missing}
    BY <1>7 DEF LandGreen
  <2>2. files' \in [Paths -> Texts \cup {Missing}] /\ aged' \subseteq Existing'
    BY <1>0, <1>7, <2>1, PutTyped DEF LandGreen
  <2> QED BY <1>7, <2>2 DEF LandGreen, SlotTyped
<1>8. CASE Weeks
  <2>1. changes' \in 0..MaxChanges
    BY <1>8, ChangeBound DEF Weeks
  <2>2. ASSUME NEW t \in shots' PROVE t \in [id : 1..taken, text : Texts, aged : BOOLEAN]
    <3>1. PICK s \in shots : t = [s EXCEPT !.aged = TRUE]
      BY <1>8 DEF Weeks
    <3> QED BY <3>1
  <2>3. aged' \subseteq Existing'
    BY <1>8 DEF Weeks, Existing
  <2> QED BY <1>8, <2>1, <2>2, <2>3 DEF Weeks, SlotTyped
<1>9. CASE Rollback
  BY <1>9 DEF Rollback, disk, Existing, SlotTyped
<1>10. CASE Restore
  <2>1. back.slot.target \in Paths
    <3>1. back.slot.kind \in {"created", "overwritten"}
      BY <1>10 DEF Restore, Snaps
    <3>2. SlotTyped(back.slot)
      OBVIOUS
    <3> QED BY ONLY <3>1, <3>2 DEF SlotTyped, NoSlot
  <2>2. files' \in [Paths -> Texts \cup {Missing}] /\ aged' \subseteq Existing'
    <3>1. CASE Put(back.slot.target, Missing)
      BY <1>0, <2>1, <3>1, PutTyped
    <3>2. ASSUME NEW s \in Snaps(back.slot),
                 files' = [files EXCEPT ![back.slot.target] = s.text],
                 aged' = IF s.aged THEN aged \cup {back.slot.target} ELSE aged \ {back.slot.target}
          PROVE  files' \in [Paths -> Texts \cup {Missing}] /\ aged' \subseteq Existing'
      <4>1. s.text \in Texts /\ s.text # Missing
        BY UndoAssumption DEF UndoAssumption, Snaps
      <4> QED BY <1>0, <2>1, <3>2, <4>1 DEF Existing
    <3> QED BY <1>10, <3>1, <3>2 DEF Restore
  <2>3. back'.at = "restored" /\ back'.slot = back.slot
    BY <1>10 DEF Restore
  <2> QED BY <1>10, <2>2, <2>3 DEF Restore, SlotTyped
<1>11. CASE RestoreFails
  BY <1>11 DEF RestoreFails, disk, Existing, SlotTyped, Resting
<1>12. CASE ClearSlot
  BY <1>12 DEF ClearSlot, disk, Existing, SlotTyped, Resting, NoSlot
<1>13. CASE CrashAndVerify
  <2>1. changes' \in 0..MaxChanges
    BY <1>13, ChangeBound DEF CrashAndVerify
  <2>2. note' \in {"none", "unknown", "landed", "not landed"}
    BY <1>13 DEF CrashAndVerify, Verdict
  <2> QED BY <1>13, <2>1, <2>2 DEF CrashAndVerify, disk, Existing, SlotTyped, Resting
<1>14. CASE UNCHANGED undoVars
  BY <1>14 DEF undoVars, Existing, SlotTyped
<1> QED
  BY <1>1, <1>2, <1>3, <1>4, <1>5, <1>6, <1>7, <1>8, <1>9, <1>10, <1>11, <1>12, <1>13, <1>14
  DEF UndoNext, ArchiveFiles, DownloadFile, ConvertImage

\* The bus: a link is one of the connections made, a handler in one of its places.
Places == {"none", "accepted", "reading", "sending", "closed"}

BusShapes ==
  /\ BusTypeOK
  /\ handler = [k \in Links |-> handler[k]] /\ \A k \in Links : "pc" \in DOMAIN handler[k]
  /\ said = [c \in Clients |-> said[c]]

\* Nobody is connected at the start.
LEMMA BusTypesInit == BusInit => BusShapes
  BY BusAssumption DEF BusAssumption, BusInit, BusShapes, BusTypeOK

\* A handler takes its next place; everything the types speak of is left, but
\* for subscribers who come and go.
LEMMA TakesPlace ==
  ASSUME BusShapes, NEW k \in Links, NEW h, h.pc \in Places, "pc" \in DOMAIN h, Becomes(k, h),
         UNCHANGED <<link, made, said, deaths>>, subs' \subseteq Links
  PROVE  BusShapes'
<1>1. \A l \in Links : handler'[l] = IF l = k THEN h ELSE handler[l]
  BY DEF BusShapes, Becomes
<1>2. \A l \in Links : handler'[l].pc \in Places /\ "pc" \in DOMAIN handler'[l]
  BY <1>1 DEF BusShapes, BusTypeOK, Places
<1>3. handler' = [l \in Links |-> handler'[l]]
  BY DEF BusShapes, Becomes
<1> QED BY <1>2, <1>3 DEF BusShapes, BusTypeOK, Places

\* Every step of a client, the server or a process that ends keeps it.
LEMMA BusTypesStep == BusShapes /\ [BusNext]_busVars => BusShapes'
<1> SUFFICES ASSUME BusShapes, [BusNext]_busVars PROVE BusShapes'
  OBVIOUS
<1>1. ASSUME NEW c \in Clients, Connect(c) PROVE BusShapes'
  <2> DEFINE n == made[c] + 1
  <2>1. n \in 0..MaxLinks /\ made[c] <= n /\ <<c, n>> \in Links /\ made[c] \in Nat
    BY <1>1, BusAssumption DEF BusAssumption, Connect, BusShapes, BusTypeOK, Links
  <2>2. /\ made' = [made EXCEPT ![c] = n] /\ link' = [link EXCEPT ![c] = n]
        /\ handler' = [handler EXCEPT ![<<c, n>>] = [pc |-> "accepted"]]
        /\ UNCHANGED <<subs, said, deaths>>
    BY <1>1 DEF Connect
  <2> HIDE DEF n
  <2>3. /\ link' \in [Clients -> 0..MaxLinks] /\ made' \in [Clients -> 0..MaxLinks]
        /\ \A d \in Clients : link'[d] <= made'[d]
    BY <2>1, <2>2 DEF BusShapes, BusTypeOK
  <2>4. /\ \A k \in Links : handler'[k].pc \in Places /\ "pc" \in DOMAIN handler'[k]
        /\ handler' = [k \in Links |-> handler'[k]]
    BY <2>1, <2>2 DEF BusShapes, BusTypeOK, Places
  <2> QED BY <2>2, <2>3, <2>4 DEF BusShapes, BusTypeOK, Places
<1>2. ASSUME NEW c \in Clients, Publish(c) PROVE BusShapes'
  <2>1. said[c] + 1 \in 0..MaxLines[c]
    BY <1>2, BusAssumption DEF BusAssumption, Publish, BusShapes, BusTypeOK
  <2>2. \A d \in Clients : said'[d] = IF d = c THEN said[c] + 1 ELSE said[d]
    BY <1>2 DEF Publish, BusShapes
  <2>3. said' = [d \in Clients |-> said'[d]]
    BY <1>2 DEF Publish, BusShapes
  <2> QED BY <1>2, <2>1, <2>2, <2>3 DEF Publish, BusShapes, BusTypeOK
<1>3. ASSUME NEW c \in Clients, Hear(c) PROVE BusShapes'
  BY <1>3 DEF Hear, BusShapes, BusTypeOK
<1>4. ASSUME NEW c \in Clients,
             link' = [link EXCEPT ![c] = 0] /\ UNCHANGED <<made, said>>
      PROVE  /\ link' \in [Clients -> 0..MaxLinks]
             /\ \A d \in Clients : link'[d] <= made'[d]
  BY <1>4, BusAssumption DEF BusAssumption, BusShapes, BusTypeOK
<1>5. ASSUME NEW c \in Clients, SeesClosed(c) PROVE BusShapes'
  BY <1>4, <1>5 DEF SeesClosed, BusShapes, BusTypeOK
<1>6. ASSUME NEW c \in Clients, ProcessEnds(c) PROVE BusShapes'
  <2>1. deaths' \in 0..MaxDeaths
    BY <1>6, BusAssumption DEF BusAssumption, ProcessEnds, BusShapes, BusTypeOK
  <2>2. /\ \A k \in Links : handler'[k].pc \in Places /\ "pc" \in DOMAIN handler'[k]
        /\ handler' = [k \in Links |-> handler'[k]]
    <3>1. CASE handler' = handler
      BY <3>1 DEF BusShapes, BusTypeOK, Places
    <3>2. CASE handler' = [k \in Links |-> IF Alive(k) THEN [pc |-> "closed"] ELSE handler[k]]
      BY <3>2 DEF BusShapes, BusTypeOK, Places
    <3> QED BY <1>6, <3>1, <3>2 DEF ProcessEnds
  <2>3. subs' \subseteq Links
    BY <1>6 DEF ProcessEnds, BusShapes, BusTypeOK
  <2>4. /\ link' \in [Clients -> 0..MaxLinks] /\ \A d \in Clients : link'[d] <= made'[d]
        /\ UNCHANGED <<made, said>>
    BY <1>4, <1>6 DEF ProcessEnds
  <2> QED BY <2>1, <2>2, <2>3, <2>4 DEF BusShapes, BusTypeOK, Places
<1>7. ASSUME NEW k \in Links, Accept(k) \/ ReadLine(k) \/ EndOfFile(k) \/ SetChanged(k) \/ AllSent(k)
      PROVE  BusShapes'
  <2>1. /\ \E h : h.pc \in Places /\ "pc" \in DOMAIN h /\ Becomes(k, h)
        /\ UNCHANGED <<link, made, said, deaths>>
        /\ subs' \subseteq Links
    BY <1>7
    DEF Accept, ReadLine, EndOfFile, SetChanged, AllSent, Ends, Reading, Broadcast, Places,
        BusShapes, BusTypeOK
  <2> QED BY <2>1, TakesPlace
<1>8. ASSUME NEW k \in Links, SendOne(k) PROVE BusShapes'
  <2>1. handler[k].pc = "sending" /\ UNCHANGED <<link, made, said, deaths, subs>>
    BY <1>8 DEF SendOne
  <2>2. "pc" \in DOMAIN handler[k]
    BY DEF BusShapes
  <2>3. PICK h : h.pc = "sending" /\ "pc" \in DOMAIN h /\ Becomes(k, h)
    BY <1>8, <2>1, <2>2 DEF SendOne
  <2> QED BY <2>1, <2>3, TakesPlace DEF Places, BusShapes, BusTypeOK
<1>9. CASE UNCHANGED busVars
  BY <1>9 DEF busVars, BusShapes, BusTypeOK
<1> QED BY <1>1, <1>2, <1>3, <1>5, <1>6, <1>7, <1>8, <1>9 DEF BusNext

\* The window: every place of its dictionary.
ScreenType ==
  [palette : Activities \cup {"error"}, error : {"none", "new", "old"},
   alarm : BOOLEAN, taps : 0..AlarmTaps-1, asleep : BOOLEAN,
   panels : [Panels -> 0..MaxVersions]]

\* A window that starts shows a screen, and nothing is on its wire.
LEMMA StartsFresh ==
  /\ version \in [Panels -> 0..MaxVersions] => Fresh \in ScreenType
  /\ <<>> \in Seq(AgentEvents) /\ Len(<<>>) <= MaxWire
<1>1. 0 \in 0..AlarmTaps-1 /\ MaxWire \in Nat
  BY DisplayAssumption DEF DisplayAssumption
<1>2. <<>> \in Seq(AgentEvents) /\ Len(<<>>) = 0
  OBVIOUS
<1>3. "idle" \in Activities
  BY DEF Activities
<1> QED BY <1>1, <1>2, <1>3 DEF Fresh, ScreenType

\* The window is there at the start.
LEMMA DisplayTypesInit == DisplayInit => DisplayTypeOK
<1> SUFFICES ASSUME DisplayInit PROVE DisplayTypeOK
  OBVIOUS
<1>1. 0 \in 0..MaxVersions /\ 0 \in 0..MaxNews
  BY DisplayAssumption DEF DisplayAssumption
<1>2. version \in [Panels -> 0..MaxVersions]
  BY <1>1 DEF DisplayInit
<1> QED
  BY <1>1, <1>2, StartsFresh
  DEF DisplayInit, DisplayTypeOK, ScreenType, NoFlag, Activities, Requests

\* The bound of the news.
LEMMA NewsBound ==
  ASSUME news \in 0..MaxNews, News \/ UNCHANGED news
  PROVE  news' \in 0..MaxNews
  BY DisplayAssumption DEF DisplayAssumption, News

\* The wire is a queue: what is heard leaves it, what the window says or drops shortens it.
LEMMA Heard ==
  ASSUME wire \in Seq(AgentEvents), Len(wire) <= MaxWire, wire # <<>>
  PROVE  Tail(wire) \in Seq(AgentEvents) /\ Len(Tail(wire)) <= MaxWire
<1>1. Tail(wire) \in Seq(AgentEvents) /\ Len(Tail(wire)) = Len(wire) - 1 /\ Len(wire) \in Nat
  OBVIOUS
<1> QED BY <1>1, DisplayAssumption DEF DisplayAssumption

\* A poll leaves a screen a screen.
LEMMA PolledType ==
  ASSUME NEW s \in ScreenType, activity \in Activities, ringing \in BOOLEAN
  PROVE  Polled(s) \in ScreenType
<1>1. 0 \in 0..AlarmTaps-1
  BY DisplayAssumption DEF DisplayAssumption
<1>2. Expired(s.error) \in {"none", "new", "old"}
  BY DEF Expired, ScreenType
<1> QED BY <1>1, <1>2 DEF Polled, ScreenType

\* Agent, listener, draw loop, taps and restarts keep it.
LEMMA DisplayTypesStep == DisplayTypeOK /\ [DisplayNext]_displayVars => DisplayTypeOK'
<1> SUFFICES ASSUME DisplayTypeOK, [DisplayNext]_displayVars PROVE DisplayTypeOK'
  OBVIOUS
<1> USE DEF DisplayTypeOK, world
<1>0. state \in ScreenType
  BY DEF ScreenType
<1>1. CASE SessionsChange
  BY <1>1, NewsBound DEF SessionsChange
<1>2. ASSUME NEW p \in Panels, TableChanges(p) PROVE DisplayTypeOK'
  <2>1. version[p] + 1 \in 0..MaxVersions
    BY <1>2, DisplayAssumption DEF TableChanges, DisplayAssumption
  <2>2. version' \in [Panels -> 0..MaxVersions]
    BY <1>2, <2>1 DEF TableChanges
  <2> QED BY <1>2, <2>2 DEF TableChanges
<1>3. CASE AlarmRings
  BY <1>3, NewsBound DEF AlarmRings
<1>4. ASSUME NEW e \in AgentEvents, AgentSays(e) PROVE DisplayTypeOK'
  <2>1. wire' \in Seq(AgentEvents) /\ Len(wire') <= MaxWire
    <3>1. CASE wire' = wire
      BY <3>1
    <3>2. CASE Len(wire) < MaxWire /\ wire' = Append(wire, e)
      <4>1. Len(wire) \in Nat /\ Len(wire') = Len(wire) + 1 /\ wire' \in Seq(AgentEvents)
        BY <3>2
      <4> QED BY <3>2, <4>1, DisplayAssumption DEF DisplayAssumption
    <3> QED BY <1>4, <3>1, <3>2 DEF AgentSays
  <2> QED BY <1>4, <2>1, NewsBound DEF AgentSays
<1>5. CASE AskRestart
  BY <1>5, NewsBound DEF AskRestart
<1>6. ASSUME NEW request \in Requests, AskSleep(request) PROVE DisplayTypeOK'
  BY <1>6, NewsBound DEF AskSleep
<1>7. CASE HearStarted
  BY <1>7, Heard DEF HearStarted
<1>8. CASE HearError
  BY <1>8, Heard DEF HearError
<1>9. CASE ErrorHeard
  BY <1>9 DEF ErrorHeard
<1>10. CASE ErrorAges
  BY <1>10 DEF ErrorAges
<1>11. ASSUME NEW p \in Panels, Load(p) PROVE DisplayTypeOK'
  <2>1. [state.panels EXCEPT ![p] = version[p]] \in [Panels -> 0..MaxVersions]
    OBVIOUS
  <2>2. state' = [state EXCEPT !.panels = [state.panels EXCEPT ![p] = version[p]]]
    BY <1>11 DEF Load
  <2>3. state' \in ScreenType
    BY <1>0, <2>1, <2>2 DEF ScreenType
  <2> QED BY <1>11, <2>3 DEF Load, ScreenType
<1>12. CASE RestartSeen
  BY <1>12 DEF RestartSeen
<1>13. CASE SleepSeen
  BY <1>13 DEF SleepSeen
<1>14. CASE SleepTaken
  <2>1. Polled(state) \in ScreenType
    BY <1>0, PolledType
  <2>2. state' \in ScreenType
    BY <1>14, <2>1 DEF SleepTaken, ScreenType
  <2> QED BY <1>14, <2>2 DEF SleepTaken, ScreenType
<1>15. CASE Poll
  <2>1. state' \in ScreenType
    BY <1>0, <1>15, PolledType DEF Poll
  <2> QED BY <1>15, <2>1 DEF Poll, ScreenType
<1>16. CASE Tap
  <2>1. /\ state.taps \in Int /\ 0 <= state.taps
        /\ 0 \in 0..AlarmTaps-1
        /\ state.taps + 1 < AlarmTaps => state.taps + 1 \in 0..AlarmTaps-1
    BY DisplayAssumption DEF DisplayAssumption
  <2>2. state' \in ScreenType /\ ringing' \in BOOLEAN
    <3>1. CASE state.taps + 1 < AlarmTaps
      <4>1. state' = [state EXCEPT !.taps = state.taps + 1] /\ ringing' = ringing
        BY <1>16, <3>1 DEF Tap
      <4> QED BY <1>0, <2>1, <3>1, <4>1 DEF ScreenType
    <3>2. CASE ~(state.taps + 1 < AlarmTaps)
      <4>1. state' = [state EXCEPT !.alarm = FALSE, !.taps = 0] /\ ringing' \in {FALSE, ringing}
        BY <1>16, <3>2 DEF Tap
      <4> QED BY <1>0, <2>1, <4>1 DEF ScreenType
    <3> QED BY <3>1, <3>2
  <2> QED BY <1>16, <2>2, NewsBound DEF Tap, ScreenType
<1>17. CASE DoubleTap
  BY <1>17, NewsBound DEF DoubleTap
<1>18. CASE WindowDies
  BY <1>18, NewsBound DEF WindowDies
<1>19. CASE WindowStarts
  <2>1. wire' = <<>> /\ state' = Fresh
    BY <1>19 DEF WindowStarts
  <2>2. wire' \in Seq(AgentEvents) /\ Len(wire') <= MaxWire /\ state' \in ScreenType
    BY <2>1, StartsFresh
  <2> QED BY <1>19, <2>2 DEF WindowStarts, ScreenType
<1>20. CASE UNCHANGED displayVars
  BY <1>20 DEF displayVars
<1> QED
  BY <1>1, <1>2, <1>3, <1>4, <1>5, <1>6, <1>7, <1>8, <1>9, <1>10, <1>11, <1>12, <1>13, <1>14,
     <1>15, <1>16, <1>17, <1>18, <1>19, <1>20
  DEF DisplayNext, AgentActs, Listens, Draws

-----------------------------------------------------------------------------
(* The house.                                                              *)

\* All six start typed, and a step of one leaves the other five alone.
HouseInv ==
  LauncherInv /\ AuditTypeOK /\ PlanTypes /\ UndoTypes /\ BusShapes /\ DisplayTypeOK

\* Each starts as its own specification says.
LEMMA HouseStarts == HouseInit => HouseInv
  BY InvInit, AuditTypesInit, PlanTypesInit, UndoTypesInit, BusTypesInit, DisplayTypesInit
  DEF HouseInit, HouseInv

\* A step of the house is a step of each machine or leaves it alone.
LEMMA HouseStep == HouseInv /\ [HouseNext]_<<part, parts>> => HouseInv'
<1> SUFFICES ASSUME HouseInv, [HouseNext]_<<part, parts>> PROVE HouseInv'
  OBVIOUS
<1>1. [Next]_vars
  BY DEF HouseNext, parts
<1>2. [AuditNext]_auditVars
  BY DEF HouseNext, parts
<1>3. [PlanNext]_planVars
  BY DEF HouseNext, parts
<1>4. [UndoNext]_undoVars
  BY DEF HouseNext, parts
<1>5. [BusNext]_busVars
  BY DEF HouseNext, parts
<1>6. [DisplayNext]_displayVars
  BY DEF HouseNext, parts
<1> QED
  BY <1>1, <1>2, <1>3, <1>4, <1>5, <1>6, StepKeepsInv, AuditTypesStep, PlanTypesStep,
     UndoTypesStep, BusTypesStep, DisplayTypesStep
  DEF HouseInv

\* Every variable of the six machines keeps its type, and every count its bound,
\* for any children, clients, panels, threads, files and limits.
THEOREM HouseTypes == HouseSpec => []AllTypesOK
<1>1. HouseInv => AllTypesOK
  BY PlanTyped DEF HouseInv, AllTypesOK, LauncherInv, UndoTypes, BusShapes
<1> QED BY <1>1, HouseStarts, HouseStep, PTL DEF HouseSpec
=============================================================================
