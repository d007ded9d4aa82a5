--------------------------- MODULE Import_proofs ---------------------------
(***************************************************************************)
(* Proofs about importing.                                                 *)
(*                                                                         *)
(* Of ImportPipeline, for any rows, ids, exports and calls: its type       *)
(* invariant, that an unreadable log is always the work of a stale or a    *)
(* self-repeating report, that the list shown is out of date only with a   *)
(* reason, that a report is applied once, not lost before and the one that *)
(* was reviewed, and that it implements ReviewedImport until calls overlap *)
(* or a store or a restart gets in between.                                *)
(*                                                                         *)
(* Of BrokerImport, for any exports, tolerance and number of imports: what *)
(* the fields of a row are does not matter there, only that a row always   *)
(* gives the same transaction; and that its duplicate check is the one of  *)
(* ImportPipeline.                                                         *)
(***************************************************************************)
EXTENDS ImportPipeline, BrokerImport, FiniteSetTheorems, TLAPS

\* A bag of rows stays one when another is added to it.
LEMMA AddRowsType ==
  ASSUME NEW a \in [Rows -> Nat], NEW b \in [Rows -> Nat]
  PROVE  AddRows(a, b) \in [Rows -> Nat]
BY DEF AddRows

\* What the duplicate check lets through has an id of its own: no row it was
\* compared with has it.
LEMMA ImportedIsNew ==
  ASSUME NEW file \in [Rows -> Nat], NEW existing \in SUBSET Rows
  PROVE  /\ Imported(file, existing) \in [Rows -> Nat]
         /\ \A r \in Rows : Imported(file, existing)[r] > 0
              => \A e \in existing : IdOf[r] # IdOf[e]
<1> DEFINE dups == {r \in RowsOf(file) : \E e \in existing : Matches(r, e)}
<1>1. Imported(file, existing)
        = [r \in Rows |-> IF IdOf[r] \in IdsOf(dups) THEN 0 ELSE file[r]]
  BY DEF Imported
<1>2. ASSUME NEW r \in Rows, Imported(file, existing)[r] > 0,
             NEW e \in existing, IdOf[r] = IdOf[e]
      PROVE  FALSE
  <2>1. file[r] > 0 /\ IdOf[r] \notin IdsOf(dups)
    BY <1>1, <1>2
  <2>2. r \in dups
    BY <1>2, <2>1 DEF RowsOf, Matches
  <2> QED
    BY <2>1, <2>2 DEF IdsOf
<1> QED
  BY <1>1, <1>2

\* Rows whose ids are new to a readable log leave it readable.
LEMMA AddNewRows ==
  ASSUME NEW a \in [Rows -> Nat], NEW b \in [Rows -> Nat],
         Readable(a), Readable(b),
         \A r \in Rows : b[r] > 0 => \A e \in RowsOf(a) : IdOf[r] # IdOf[e]
  PROVE  Readable(AddRows(a, b))
<1> DEFINE sum == AddRows(a, b)
<1>1. \A r \in Rows : sum[r] = a[r] + b[r]
  BY DEF AddRows
<1>2. \A r \in Rows : a[r] = 0 \/ b[r] = 0
  BY DEF RowsOf
<1>3. \A r \in Rows : sum[r] <= 1
  BY <1>1, <1>2 DEF Readable
<1>4. ASSUME NEW r \in RowsOf(sum), NEW s \in RowsOf(sum), IdOf[r] = IdOf[s]
      PROVE  r = s
  <2>1. r \in RowsOf(a) \/ r \in RowsOf(b)
    BY <1>1 DEF RowsOf
  <2>2. s \in RowsOf(a) \/ s \in RowsOf(b)
    BY <1>1 DEF RowsOf
  <2>3. CASE r \in RowsOf(a) /\ s \in RowsOf(a)
    BY <1>4, <2>3 DEF Readable
  <2>4. CASE r \in RowsOf(b) /\ s \in RowsOf(b)
    BY <1>4, <2>4 DEF Readable
  <2>5. ~(r \in RowsOf(a) /\ s \in RowsOf(b)) /\ ~(r \in RowsOf(b) /\ s \in RowsOf(a))
    BY <1>4 DEF RowsOf
  <2> QED
    BY <2>1, <2>2, <2>3, <2>4, <2>5
<1> QED
  BY <1>3, <1>4 DEF Readable

----------------------------------------------------------------------------
(* Type correctness *)

Stages == Waiting \union Finished \union {"idle"}

\* The stages in which a call carries a report.
Carrying == {"saving", "appending", "clearing"}

\* What a refresh leaves behind when it begins, typed: it moves one call at
\* most, to a stage that carries nothing.
LEMMA BeginRefreshType ==
  ASSUME TypeOK, NEW by \in {"request", "interval", "setup"},
         NEW w \in Calls \union {None}, BeginRefresh(by, w)
  PROVE  /\ data' \in (SUBSET Rows) \union {None}
         /\ lastOk' \in BOOLEAN
         /\ refresh' \in RefreshRecords \union {None}
         /\ timer' \in {"off", "cooldown", "pending"}
         /\ pc' \in [Calls -> Stages]
         /\ \A c \in Calls : pc'[c] \in Carrying \union {"reading"} => pc'[c] = pc[c]
         /\ dropped' \in BOOLEAN
         /\ data' = data
<1> USE DEF BeginRefresh, TypeOK, Stages, Waiting, Finished, Carrying
<1>1. CASE Readable(log)
  <2>1. RowsOf(log) \in SUBSET Rows
    BY DEF RowsOf
  <2>2. [by |-> by, rows |-> RowsOf(log), waiting |-> w] \in RefreshRecords
    BY <2>1 DEF RefreshRecords
  <2> QED
    BY <1>1, <2>2
<1>2. CASE ~Readable(log)
  BY <1>2 DEF AfterRefresh, Release
<1> QED
  BY <1>1, <1>2

\* A refresh that ends, however it ends.
LEMMA EndRefreshType ==
  ASSUME TypeOK, ~Idle,
         timer' = AfterRefresh(refresh.by),
         pc' = Release(refresh.waiting)
  PROVE  /\ timer' \in {"off", "cooldown", "pending"}
         /\ pc' \in [Calls -> Stages]
         /\ \A c \in Calls : pc'[c] \in Carrying \union {"reading"} => pc'[c] = pc[c]
<1>1. refresh \in RefreshRecords
  BY DEF Idle, TypeOK
<1>2. refresh.waiting \in Calls \union {None}
  BY <1>1 DEF RefreshRecords
<1> QED
  BY <1>2 DEF TypeOK, Release, AfterRefresh, Stages, Waiting, Finished, Carrying

\* A report is typed when the file and the list it was checked against are.
LEMMA BuildReportType ==
  ASSUME NEW c \in Calls, NEW file \in Files, NEW existing \in SUBSET Rows
  PROVE  BuildReport(c, file, existing) \in Reports
<1>1. Imported(file, existing) \in [Rows -> Nat]
  BY FilesAssumption, ImportedIsNew
<1> QED
  BY <1>1 DEF BuildReport, Reports

\* A step of one call keeps what is not its own, and carries a report where
\* its new stage needs one.
LEMMA StepType ==
  ASSUME TypeOK, NEW c \in Calls, NEW stage \in Stages, NEW carry \in Files \union Reports \union {None},
         stage # "reading", stage \in Carrying => carry \in Reports,
         Step(c, stage, carry)
  PROVE  /\ data' \in (SUBSET Rows) \union {None}
         /\ lastOk' \in BOOLEAN
         /\ refresh' \in RefreshRecords \union {None}
         /\ timer' \in {"off", "cooldown", "pending"}
         /\ pc' \in [Calls -> Stages]
         /\ held' \in [Calls -> Files \union Reports \union {None}]
         /\ \A d \in Calls : /\ pc'[d] = "reading" => held'[d] \in Files /\ data' \in SUBSET Rows
                             /\ pc'[d] \in Carrying => held'[d] \in Reports
         /\ dropped' \in BOOLEAN
         /\ restarts' \in 0 .. MaxRestarts
<1>1. /\ pc' = [pc EXCEPT ![c] = stage]
      /\ UNCHANGED <<data, lastOk, refresh, timer, dropped, restarts>>
  BY DEF Step
<1>2. /\ pc' \in [Calls -> Stages]
      /\ held' \in [Calls -> Files \union Reports \union {None}]
  BY DEF Step, TypeOK, Stages
<1>3. ASSUME NEW d \in Calls
      PROVE  /\ pc'[d] = "reading" => held'[d] \in Files /\ data' \in SUBSET Rows
             /\ pc'[d] \in Carrying => held'[d] \in Reports
  <2>1. CASE d = c
    BY <2>1 DEF Step, TypeOK, Carrying, Stages
  <2>2. CASE d # c
    BY <2>2 DEF Step, TypeOK, Carrying, Stages
  <2> QED
    BY <2>1, <2>2
<1> QED
  BY <1>1, <1>2, <1>3 DEF TypeOK

LEMMA TypeInit == Init => TypeOK
<1> SUFFICES ASSUME Init PROVE TypeOK
  OBVIOUS
<1>1. log \in [Rows -> Nat]
  BY LogsAssumption DEF Init
<1>2. pc \in [Calls -> Waiting \union Finished \union {"idle"}]
  BY DEF Init
<1>3. \A c \in Calls : pc[c] = "idle"
  BY DEF Init
<1>4. /\ held \in [Calls -> Files \union Reports \union {None}]
      /\ applied \in [Calls -> Nat]
  BY DEF Init
<1>5. restarts \in 0 .. MaxRestarts
  BY BoundAssumption DEF Init
<1>6. blame \subseteq Hazards
  BY DEF Init
<1> QED
  BY <1>1, <1>2, <1>3, <1>4, <1>5, <1>6 DEF Init, TypeOK

\* Every step keeps the types: one case per action.
LEMMA TypeNext == TypeOK /\ [Next]_vars => TypeOK'
<1> SUFFICES ASSUME TypeOK, [Next]_vars PROVE TypeOK'
  OBVIOUS
<1> USE DEF Stages, Waiting, Finished, Carrying
<1>1. ASSUME NEW c \in Calls, ImportStart(c) PROVE TypeOK'
  BY <1>1 DEF ImportStart, Start, Note, TypeOK, Hazards
<1>2. ASSUME NEW c \in Calls, ApplyStart(c) PROVE TypeOK'
  BY <1>2 DEF ApplyStart, Start, Note, TypeOK, Hazards
<1>3. ASSUME NEW c \in Calls, Refused(c) PROVE TypeOK'
  BY <1>3 DEF Refused, TypeOK
<1>4. ASSUME NEW c \in Calls, ImportUnreadable(c) PROVE TypeOK'
  BY <1>4, StepType DEF ImportUnreadable, TypeOK
<1>5. ASSUME NEW c \in Calls, ImportBuild(c) PROVE TypeOK'
  <2>1. BuildReport(c, held[c], data) \in Reports
    BY <1>5, BuildReportType DEF ImportBuild, TypeOK
  <2> QED
    BY <1>5, <2>1, StepType DEF ImportBuild, TypeOK
<1>6. ASSUME NEW c \in Calls, ImportSave(c) PROVE TypeOK'
  BY <1>6, StepType DEF ImportSave, TypeOK
<1>7. ASSUME NEW c \in Calls, ApplyLoad(c) PROVE TypeOK'
  BY <1>7, StepType DEF ApplyLoad, TypeOK
<1>8. ASSUME NEW c \in Calls, ApplyAppend(c) PROVE TypeOK'
  <2>1. held[c] \in Reports
    BY <1>8 DEF ApplyAppend, TypeOK
  <2>2. held[c].imported \in [Rows -> Nat] /\ held[c].id \in Calls
    BY <2>1 DEF Reports
  <2>3. log' \in [Rows -> Nat]
    BY <1>8, <2>2, AddRowsType DEF ApplyAppend, TypeOK
  <2>4. applied' \in [Calls -> Nat]
    BY <1>8, <2>2 DEF ApplyAppend, TypeOK
  <2>5. blame' \subseteq Hazards
    BY <1>8 DEF ApplyAppend, Note, TypeOK, Hazards
  <2> QED
    BY <1>8, <2>1, <2>3, <2>4, <2>5, StepType DEF ApplyAppend, TypeOK
<1>9. ASSUME NEW c \in Calls, ApplyWriteFails(c) \/ ImportSaveRaises(c) \/ ApplyLoadRaises(c)
      PROVE  TypeOK'
  BY <1>9, StepType DEF ApplyWriteFails, ImportSaveRaises, ApplyLoadRaises, TypeOK
<1>10. ASSUME NEW c \in Calls, ApplyClear(c) PROVE TypeOK'
  BY <1>10, StepType DEF ApplyClear, TypeOK
<1>11. ASSUME NEW c \in Calls, RequestRefresh(c) PROVE TypeOK'
  <2>1. CASE timer = "off" /\ Idle /\ BeginRefresh("request", c)
    BY <1>11, <2>1, BeginRefreshType DEF RequestRefresh, TypeOK
  <2>2. CASE ~(timer = "off" /\ Idle /\ BeginRefresh("request", c))
    BY <1>11, <2>2 DEF RequestRefresh, TypeOK
  <2> QED
    BY <2>1, <2>2
<1>12. ASSUME TimerExpires PROVE TypeOK'
  <2>1. CASE BeginRefresh("request", None)
    BY <1>12, <2>1, BeginRefreshType DEF TimerExpires, TypeOK
  <2>2. CASE ~BeginRefresh("request", None)
    BY <1>12, <2>2 DEF TimerExpires, TypeOK
  <2> QED
    BY <2>1, <2>2
<1>13. ASSUME IntervalElapses PROVE TypeOK'
  BY <1>13, BeginRefreshType DEF IntervalElapses, TypeOK
<1>14. ASSUME SetUp PROVE TypeOK'
  BY <1>14, BeginRefreshType DEF SetUp, TypeOK
<1>15. ASSUME RefreshSucceeds PROVE TypeOK'
  <2>1. refresh.rows \in SUBSET Rows
    BY <1>15 DEF RefreshSucceeds, Idle, TypeOK, RefreshRecords
  <2> QED
    BY <1>15, <2>1, EndRefreshType DEF RefreshSucceeds, TypeOK
<1>16. ASSUME RefreshFails PROVE TypeOK'
  BY <1>16, EndRefreshType DEF RefreshFails, TypeOK
<1>17. ASSUME Restart PROVE TypeOK'
  <2>1. blame' \subseteq Hazards
    BY <1>17 DEF Restart, Note, TypeOK, Hazards
  <2>2. restarts' \in 0 .. MaxRestarts
    BY <1>17, BoundAssumption DEF Restart, TypeOK
  <2> QED
    BY <1>17, <2>1, <2>2 DEF Restart, TypeOK
<1>18. ASSUME NEW c \in Calls, ImportSaveLost(c) \/ ApplyClearLost(c) PROVE TypeOK'
  <2>1. blame' \subseteq Hazards
    BY <1>18 DEF ImportSaveLost, ApplyClearLost, Note, TypeOK, Hazards
  <2> QED
    BY <1>18, <2>1, StepType DEF ImportSaveLost, ApplyClearLost, TypeOK
<1>19. ASSUME NEW c \in Calls, ApplyClearRaises(c) PROVE TypeOK'
  BY <1>19 DEF ApplyClearRaises, Note, TypeOK, Hazards
<1>20. CASE UNCHANGED vars
  BY <1>20 DEF vars, process, TypeOK
<1> QED
  BY <1>1, <1>2, <1>3, <1>4, <1>5, <1>6, <1>7, <1>8, <1>9, <1>10, <1>11, <1>12,
     <1>13, <1>14, <1>15, <1>16, <1>17, <1>18, <1>19, <1>20 DEF Next, Proceed

\* The pipeline's variables keep their types.
THEOREM TypeCorrect == Spec => []TypeOK
BY TypeInit, TypeNext, PTL DEF Spec

----------------------------------------------------------------------------
(* An unreadable log is the work of a stale or a self-repeating report *)

\* A step of a call whose report, if it comes to carry one, is sound.
LEMMA SoundStep ==
  ASSUME ReadableInv, NEW c \in Calls, NEW stage \in Stages,
         NEW carry \in Files \union Reports \union {None},
         stage \in Carrying => Sound(carry), Step(c, stage, carry)
  PROVE  \A d \in Calls : pc'[d] \in Carrying => Sound(held'[d])
<1> SUFFICES ASSUME NEW d \in Calls, pc'[d] \in Carrying PROVE Sound(held'[d])
  OBVIOUS
<1>1. CASE d = c
  BY <1>1 DEF Step, ReadableInv, TypeOK, Carrying, Stages
<1>2. CASE d # c
  BY <1>2 DEF Step, ReadableInv, TypeOK, Carrying, Stages
<1> QED
  BY <1>1, <1>2

\* A call that comes to a stage without a report, and whose neighbours stay,
\* leaves the reports as they were.
LEMMA SoundKept ==
  ASSUME ReadableInv, TypeOK', UNCHANGED <<log, store, blame, held>>,
         \A c \in Calls : pc'[c] \in Carrying => pc'[c] = pc[c]
  PROVE  ReadableInv'
<1>1. \A c \in Calls : pc'[c] \in Carrying => Sound(held'[c])
  BY DEF ReadableInv, Carrying
<1> QED
  BY <1>1 DEF ReadableInv, UnreadableOnlyIfBlamed, Carrying

LEMMA ReadableInit == Init => ReadableInv
<1> SUFFICES ASSUME Init PROVE ReadableInv
  OBVIOUS
<1>1. TypeOK
  BY TypeInit
<1>2. \A c \in Calls : pc[c] = "idle"
  BY DEF Init
<1>3. store = None /\ Readable(log)
  BY DEF Init
<1> QED
  BY <1>1, <1>2, <1>3 DEF ReadableInv, UnreadableOnlyIfBlamed

LEMMA ReadableNext == ReadableInv /\ [Next]_vars => ReadableInv'
<1> SUFFICES ASSUME ReadableInv, [Next]_vars PROVE ReadableInv'
  OBVIOUS
<1> USE DEF Stages, Waiting, Finished, Carrying
<1>0. TypeOK /\ TypeOK'
  BY TypeNext DEF ReadableInv
<1>1. ASSUME NEW c \in Calls, ImportStart(c) \/ ApplyStart(c) PROVE ReadableInv'
  <2>1. PICK stage \in {"reading", "loading"}, file \in Files \union {None} :
          Start(c, stage, file)
    BY <1>1 DEF ImportStart, ApplyStart
  <2>2. \A d \in Calls : pc'[d] \in Carrying => pc'[d] = pc[d] /\ held'[d] = held[d]
    BY <1>0, <2>1 DEF Start, TypeOK
  <2>3. UNCHANGED <<log, store>> /\ blame \subseteq blame'
    BY <2>1 DEF Start, Note
  <2> QED
    BY <1>0, <2>2, <2>3 DEF ReadableInv, UnreadableOnlyIfBlamed
<1>2. ASSUME NEW c \in Calls, Refused(c) PROVE ReadableInv'
  BY <1>0, <1>2, SoundKept DEF Refused, TypeOK
<1>3. ASSUME NEW c \in Calls,
             \/ ImportUnreadable(c) \/ ApplyWriteFails(c) \/ ImportSaveRaises(c) \/ ApplyLoadRaises(c)
             \/ ImportSaveLost(c) \/ ApplyClearLost(c)
      PROVE  ReadableInv'
  <2>1. PICK stage \in {"error", "requesting"} :
          Step(c, stage, None) /\ UNCHANGED <<log, store>> /\ blame \subseteq blame'
    BY <1>3 DEF ImportUnreadable, ApplyWriteFails, ImportSaveRaises, ApplyLoadRaises, ImportSaveLost,
                ApplyClearLost, Note
  <2>2. \A d \in Calls : pc'[d] \in Carrying => Sound(held'[d])
    BY <2>1, SoundStep
  <2> QED
    BY <1>0, <2>1, <2>2 DEF ReadableInv, UnreadableOnlyIfBlamed
<1>4. ASSUME NEW c \in Calls, ImportBuild(c) PROVE ReadableInv'
  <2> DEFINE report == BuildReport(c, held[c], data)
  <2>1. held[c] \in Files /\ data \in SUBSET Rows
    BY <1>0, <1>4 DEF ImportBuild, TypeOK
  <2>2. report \in Reports
    BY <2>1, BuildReportType
  <2>3. Sound(report)
    BY <2>1, FilesAssumption, ImportedIsNew DEF BuildReport, Sound
  <2>4. \A d \in Calls : pc'[d] \in Carrying => Sound(held'[d])
    BY <1>4, <2>2, <2>3, SoundStep DEF ImportBuild
  <2> QED
    BY <1>0, <1>4, <2>4 DEF ReadableInv, UnreadableOnlyIfBlamed, ImportBuild
<1>5. ASSUME NEW c \in Calls, ImportSave(c) PROVE ReadableInv'
  <2>1. Sound(store')
    BY <1>5 DEF ImportSave, ReadableInv
  <2>2. \A d \in Calls : pc'[d] \in Carrying => Sound(held'[d])
    BY <1>5, SoundStep DEF ImportSave
  <2> QED
    BY <1>0, <1>5, <2>1, <2>2 DEF ReadableInv, UnreadableOnlyIfBlamed, ImportSave
<1>6. ASSUME NEW c \in Calls, ApplyLoad(c) PROVE ReadableInv'
  <2>1. \A d \in Calls : pc'[d] \in Carrying => Sound(held'[d])
    <3>1. CASE store = None
      BY <1>6, <3>1, SoundStep DEF ApplyLoad
    <3>2. CASE store # None
      BY <1>0, <1>6, <3>2, SoundStep DEF ApplyLoad, ReadableInv, TypeOK
    <3> QED
      BY <3>1, <3>2
  <2> QED
    BY <1>0, <1>6, <2>1 DEF ReadableInv, UnreadableOnlyIfBlamed, ApplyLoad
<1>7. ASSUME NEW c \in Calls, ApplyAppend(c) PROVE ReadableInv'
  <2> DEFINE report == held[c]
  <2>1. report \in Reports /\ Sound(report)
    BY <1>0, <1>7 DEF ApplyAppend, TypeOK, ReadableInv
  <2>2. report.imported \in [Rows -> Nat]
    BY <2>1 DEF Reports
  <2>3. \A d \in Calls : pc'[d] \in Carrying => Sound(held'[d])
    BY <1>7, <2>1, SoundStep DEF ApplyAppend
  <2>4. log' = AddRows(log, report.imported) /\ blame \subseteq blame'
    BY <1>7 DEF ApplyAppend, Note
  <2>5. UnreadableOnlyIfBlamed'
    <3>1. CASE blame' \intersect {"stale", "repeat"} # {}
      BY <3>1 DEF UnreadableOnlyIfBlamed
    <3>2. CASE blame' \intersect {"stale", "repeat"} = {}
      <4>1. RowsOf(log) = report.base /\ Readable(report.imported)
        BY <1>7, <3>2 DEF ApplyAppend, Note
      <4>2. Readable(log)
        BY <2>4, <3>2 DEF ReadableInv, UnreadableOnlyIfBlamed
      <4>3. \A r \in Rows : report.imported[r] > 0
              => \A e \in RowsOf(log) : IdOf[r] # IdOf[e]
        BY <2>1, <4>1 DEF Sound
      <4>4. Readable(AddRows(log, report.imported))
        BY <1>0, <2>2, <4>1, <4>2, <4>3, AddNewRows DEF TypeOK
      <4> QED
        BY <2>4, <4>4 DEF UnreadableOnlyIfBlamed
    <3> QED
      BY <3>1, <3>2
  <2> QED
    BY <1>0, <1>7, <2>3, <2>5 DEF ReadableInv, ApplyAppend
<1>8. ASSUME NEW c \in Calls, ApplyClear(c) PROVE ReadableInv'
  <2>1. \A d \in Calls : pc'[d] \in Carrying => Sound(held'[d])
    BY <1>8, SoundStep DEF ApplyClear
  <2> QED
    BY <1>0, <1>8, <2>1 DEF ReadableInv, UnreadableOnlyIfBlamed, ApplyClear
<1>9. ASSUME NEW c \in Calls, RequestRefresh(c) PROVE ReadableInv'
  <2>1. UNCHANGED <<log, store, blame, held>>
    BY <1>9 DEF RequestRefresh
  <2>2. \A d \in Calls : pc'[d] \in Carrying => pc'[d] = pc[d]
    <3>1. CASE BeginRefresh("request", c)
      BY <1>0, <3>1, BeginRefreshType
    <3>2. CASE ~BeginRefresh("request", c)
      BY <1>0, <1>9, <3>2 DEF RequestRefresh, TypeOK
    <3> QED
      BY <3>1, <3>2
  <2> QED
    BY <1>0, <2>1, <2>2, SoundKept
<1>10. ASSUME TimerExpires \/ IntervalElapses \/ SetUp PROVE ReadableInv'
  <2>1. UNCHANGED <<log, store, blame, held>>
    BY <1>10 DEF TimerExpires, IntervalElapses, SetUp
  <2>2. \A d \in Calls : pc'[d] \in Carrying => pc'[d] = pc[d]
    <3>1. CASE UNCHANGED pc
      BY <3>1
    <3>2. CASE \E by \in {"request", "interval", "setup"} : BeginRefresh(by, None)
      BY <1>0, <3>2, BeginRefreshType
    <3> QED
      BY <1>10, <3>1, <3>2 DEF TimerExpires, IntervalElapses, SetUp
  <2> QED
    BY <1>0, <2>1, <2>2, SoundKept
<1>11. ASSUME RefreshSucceeds \/ RefreshFails PROVE ReadableInv'
  <2>1. UNCHANGED <<log, store, blame, held>>
    BY <1>11 DEF RefreshSucceeds, RefreshFails
  <2>2. \A d \in Calls : pc'[d] \in Carrying => pc'[d] = pc[d]
    BY <1>0, <1>11, EndRefreshType DEF RefreshSucceeds, RefreshFails
  <2> QED
    BY <1>0, <2>1, <2>2, SoundKept
<1>12. ASSUME Restart PROVE ReadableInv'
  <2>1. \A d \in Calls : pc'[d] \notin Carrying
    BY <1>12 DEF Restart
  <2>2. UNCHANGED <<log, store>> /\ blame \subseteq blame'
    BY <1>12 DEF Restart, Note
  <2> QED
    BY <1>0, <2>1, <2>2 DEF ReadableInv, UnreadableOnlyIfBlamed
<1>13. ASSUME NEW c \in Calls, ApplyClearRaises(c) PROVE ReadableInv'
  <2>1. \A d \in Calls : pc'[d] \in Carrying => pc'[d] = pc[d] /\ held'[d] = held[d]
    BY <1>0, <1>13 DEF ApplyClearRaises, TypeOK
  <2>2. UNCHANGED <<log, store>> /\ blame \subseteq blame'
    BY <1>13 DEF ApplyClearRaises, Note
  <2> QED
    BY <1>0, <2>1, <2>2 DEF ReadableInv, UnreadableOnlyIfBlamed
<1>14. CASE UNCHANGED vars
  BY <1>0, <1>14, SoundKept DEF vars, process
<1> QED
  BY <1>1, <1>2, <1>3, <1>4, <1>5, <1>6, <1>7, <1>8, <1>9, <1>10, <1>11, <1>12,
     <1>13, <1>14 DEF Next, Proceed

\* However service calls, refreshes and restarts interleave, the log only
\* becomes unreadable by a report that was checked against another state of it
\* or that repeats an id itself.
THEOREM UnreadableLogIsBlamed == Spec => []UnreadableOnlyIfBlamed
<1>1. ReadableInv => UnreadableOnlyIfBlamed
  BY DEF ReadableInv
<1> QED
  BY <1>1, ReadableInit, ReadableNext, PTL DEF Spec
----------------------------------------------------------------------------
(* What the coordinator shows, and why it may differ from the log *)

\* An apply that has written and has not asked for a refresh yet.
UnderWay == \E c \in Calls : pc[c] \in {"clearing", "requesting"}

\* While a refresh is in flight there is no cooldown, its caller waits for
\* it, and the list it has read is the log's unless a reason will outlive it.
RefreshInv ==
  /\ ~Idle => timer = "off"
  /\ ~Idle /\ refresh.waiting # None => pc[refresh.waiting] = "refreshing"
  /\ ~Idle /\ refresh.rows # RowsOf(log) => dropped \/ UnderWay
  /\ StaleOnlyWithReason

\* A refresh that begins has read the log, or has failed.
LEMMA BeginRefreshKeeps ==
  ASSUME TypeOK, Idle, NEW by \in {"request", "interval", "setup"}, NEW w \in Calls \union {None},
         BeginRefresh(by, w), UNCHANGED log
  PROVE  RefreshInv'
<1>1. CASE Readable(log)
  <2> DEFINE r == [by |-> by, rows |-> RowsOf(log), waiting |-> w]
  <2>1. refresh' = r /\ timer' = "off"
    BY <1>1 DEF BeginRefresh
  <2>2. r \in RefreshRecords
    BY DEF RefreshRecords, RowsOf
  <2>3. r # None
    BY <2>2, NoneAssumption
  <2>4. w # None => pc'[w] = "refreshing"
    BY <1>1 DEF BeginRefresh, TypeOK
  <2>5. r.rows = RowsOf(log)' /\ r.waiting = w
    BY DEF RowsOf
  <2> QED
    BY <2>1, <2>3, <2>4, <2>5 DEF RefreshInv, Idle, StaleOnlyWithReason
<1>2. CASE ~Readable(log)
  BY <1>2 DEF BeginRefresh, RefreshInv, Idle, StaleOnlyWithReason
<1> QED
  BY <1>1, <1>2

\* A step of a call that leaves the log alone and gives no reason up.
LEMMA CallKeepsRefresh ==
  ASSUME TypeOK, RefreshInv, UNCHANGED <<log, data, lastOk, refresh, timer, dropped>>,
         NEW c \in Calls, pc[c] # "refreshing", NEW stage, pc' = [pc EXCEPT ![c] = stage],
         pc[c] \in {"clearing", "requesting"} => stage \in {"clearing", "requesting"}
  PROVE  RefreshInv'
<1>1. UnderWay => UnderWay'
  BY DEF UnderWay, TypeOK
<1>2. ASSUME ~Idle, refresh.waiting # None PROVE pc'[refresh.waiting] = "refreshing"
  BY <1>2 DEF RefreshInv, TypeOK
<1>3. RowsOf(log)' = RowsOf(log)
  BY DEF RowsOf
<1> QED
  BY <1>1, <1>2, <1>3 DEF RefreshInv, StaleOnlyWithReason, Idle, UnderWay

\* A refresh that ends releases a call that waited for nothing else.
LEMMA ReleaseKeepsReasons ==
  ASSUME TypeOK, RefreshInv, ~Idle, pc' = Release(refresh.waiting)
  PROVE  UnderWay => UnderWay'
BY DEF UnderWay, RefreshInv, Release, TypeOK

LEMMA RefreshInit == Init => RefreshInv
BY DEF Init, RefreshInv, Idle, StaleOnlyWithReason

LEMMA RefreshNext == TypeOK /\ RefreshInv /\ [Next]_vars => RefreshInv'
<1> SUFFICES ASSUME TypeOK, RefreshInv, [Next]_vars PROVE RefreshInv'
  OBVIOUS
<1>1. ASSUME NEW c \in Calls, ImportStart(c) \/ ApplyStart(c) PROVE RefreshInv'
  BY <1>1, CallKeepsRefresh DEF ImportStart, ApplyStart, Start, Upcoming
<1>2. ASSUME NEW c \in Calls, Refused(c) PROVE RefreshInv'
  BY <1>2, CallKeepsRefresh DEF Refused, Upcoming
<1>3. ASSUME NEW c \in Calls,
             \/ ImportUnreadable(c) \/ ApplyWriteFails(c) \/ ImportBuild(c)
             \/ ImportSaveRaises(c) \/ ApplyLoadRaises(c)
      PROVE  RefreshInv'
  BY <1>3, CallKeepsRefresh DEF ImportUnreadable, ApplyWriteFails, ImportBuild, ImportSaveRaises,
                                ApplyLoadRaises, Step
<1>4. ASSUME NEW c \in Calls, ImportSave(c) \/ ImportSaveLost(c) \/ ApplyClear(c) \/ ApplyClearLost(c)
      PROVE  RefreshInv'
  BY <1>4, CallKeepsRefresh DEF ImportSave, ImportSaveLost, ApplyClear, ApplyClearLost, Step
<1>5. ASSUME NEW c \in Calls, ApplyLoad(c) PROVE RefreshInv'
  BY <1>5, CallKeepsRefresh DEF ApplyLoad, Step
<1>6. ASSUME NEW c \in Calls, ApplyAppend(c) PROVE RefreshInv'
  <2>1. UnderWay'
    BY <1>6 DEF ApplyAppend, Step, UnderWay, TypeOK
  <2>2. ASSUME ~Idle, refresh.waiting # None PROVE pc'[refresh.waiting] = "refreshing"
    BY <1>6, <2>2 DEF ApplyAppend, Step, RefreshInv, TypeOK
  <2> QED
    BY <1>6, <2>1, <2>2 DEF ApplyAppend, Step, RefreshInv, StaleOnlyWithReason, Idle, UnderWay
<1>7. ASSUME NEW c \in Calls, RequestRefresh(c) PROVE RefreshInv'
  <2>1. CASE timer # "off" /\ timer' = "pending" /\ UNCHANGED refresh
    BY <1>7, <2>1 DEF RefreshInv, StaleOnlyWithReason, Idle
  <2>2. CASE timer = "off" /\ ~Idle /\ dropped' /\ pc' = [pc EXCEPT ![c] = "ok"]
             /\ UNCHANGED <<data, lastOk, refresh, timer>>
    <3>1. ASSUME refresh.waiting # None PROVE pc'[refresh.waiting] = "refreshing"
      BY <1>7, <2>2, <3>1 DEF RequestRefresh, RefreshInv, TypeOK
    <3> QED
      BY <2>2, <3>1 DEF RefreshInv, StaleOnlyWithReason, Idle
  <2>3. CASE Idle /\ BeginRefresh("request", c)
    BY <1>7, <2>3, BeginRefreshKeeps DEF RequestRefresh
  <2> QED
    BY <1>7, <2>1, <2>2, <2>3 DEF RequestRefresh
<1>8. ASSUME TimerExpires PROVE RefreshInv'
  <2>1. Idle
    BY <1>8 DEF TimerExpires, RefreshInv
  <2>2. CASE BeginRefresh("request", None)
    BY <1>8, <2>1, <2>2, BeginRefreshKeeps DEF TimerExpires
  <2>3. CASE timer = "cooldown" /\ timer' = "off" /\ UNCHANGED <<data, lastOk, refresh, pc, dropped>>
    <3>1. UNCHANGED log /\ RowsOf(log)' = RowsOf(log)
      BY <1>8 DEF TimerExpires, RowsOf
    <3> QED
      BY <2>1, <2>3, <3>1 DEF RefreshInv, StaleOnlyWithReason, Idle
  <2> QED
    BY <1>8, <2>2, <2>3 DEF TimerExpires
<1>9. ASSUME IntervalElapses \/ SetUp PROVE RefreshInv'
  BY <1>9, BeginRefreshKeeps DEF IntervalElapses, SetUp
<1>10. ASSUME RefreshSucceeds PROVE RefreshInv'
  <2>1. UnderWay => UnderWay'
    BY <1>10, ReleaseKeepsReasons DEF RefreshSucceeds
  <2>2. RowsOf(log)' = RowsOf(log)
    BY <1>10 DEF RefreshSucceeds, RowsOf
  <2> QED
    BY <1>10, <2>1, <2>2 DEF RefreshSucceeds, RefreshInv, StaleOnlyWithReason, Idle, UnderWay
<1>11. ASSUME RefreshFails PROVE RefreshInv'
  BY <1>11 DEF RefreshFails, RefreshInv, StaleOnlyWithReason, Idle
<1>12. ASSUME Restart PROVE RefreshInv'
  BY <1>12 DEF Restart, RefreshInv, StaleOnlyWithReason, Idle
<1>13. ASSUME NEW c \in Calls, ApplyClearRaises(c) PROVE RefreshInv'
  <2>1. ASSUME ~Idle, refresh.waiting # None PROVE pc'[refresh.waiting] = "refreshing"
    BY <1>13, <2>1 DEF ApplyClearRaises, RefreshInv, TypeOK
  <2> QED
    BY <1>13, <2>1 DEF ApplyClearRaises, RefreshInv, StaleOnlyWithReason, Idle
<1>14. CASE UNCHANGED vars
  <2>1. RowsOf(log)' = RowsOf(log)
    BY <1>14 DEF vars, RowsOf
  <2> QED
    BY <1>14, <2>1 DEF vars, process, RefreshInv, StaleOnlyWithReason, Idle, UnderWay
<1> QED
  BY <1>1, <1>2, <1>3, <1>4, <1>5, <1>6, <1>7, <1>8, <1>9, <1>10, <1>11, <1>12, <1>13, <1>14
     DEF Next, Proceed

\* The list an entity shows differs from the log only while a refresh or an
\* apply is under way, or after a request was dropped or a refresh failed.
THEOREM StaleHasReason == Spec => []StaleOnlyWithReason
<1>1. RefreshInv => StaleOnlyWithReason
  BY DEF RefreshInv
<1> QED
  BY <1>1, TypeInit, TypeNext, RefreshInit, RefreshNext, PTL DEF Spec

----------------------------------------------------------------------------
(* A report is applied once, and is not lost before *)

\* Stages in which a call has not saved a report yet.
Early == {"idle", "reading", "saving"}

\* A report is named by the call that built it, and is seen by others, or
\* applied, only after that call has saved it.
FreshIds ==
  /\ \A c \in Calls : pc[c] \in Early => applied[c] = 0
  /\ \A c \in Calls : pc[c] = "saving" => held[c].id = c
  /\ store # None => pc[store.id] \notin Early
  /\ \A c \in Calls : pc[c] \in {"appending", "clearing"} => pc[held[c].id] \notin Early

\* Without overlaps one call at most is under way.
Alone == "overlap" \notin blame => \A c, d \in InFlight : c = d

\* Without overlaps an apply carries the report that is pending.
CarriesPending ==
  "overlap" \notin blame =>
    \A c \in Calls : pc[c] \in {"appending", "clearing"} => held[c] = store

\* An apply clears what it has written.
Written == \A c \in Calls : pc[c] = "clearing" => applied[held[c].id] >= 1

\* A pending report has not been applied unless its apply is about to clear it.
Once ==
  blame \intersect {"overlap", "crash", "store"} = {} =>
    /\ \A c \in Calls : applied[c] <= 1
    /\ store # None /\ (\A c \in Calls : pc[c] # "clearing") => applied[store.id] = 0

SerialInv == FreshIds /\ Alone /\ CarriesPending /\ Written /\ Once

\* Refreshes move only calls that carry nothing any more.
LEMMA QuietKeeps ==
  ASSUME TypeOK, SerialInv, UNCHANGED <<store, held, applied, blame>>, pc' \in [Calls -> Stages],
         \A c \in Calls : \/ pc'[c] = pc[c]
                          \/ pc[c] \in {"requesting", "refreshing"} /\ pc'[c] \in {"refreshing", "ok"}
  PROVE  SerialInv'
<1>1. store # None => store.id \in Calls
  BY DEF TypeOK, Reports
<1>2. \A c \in Calls : pc[c] \in {"appending", "clearing"} => held[c].id \in Calls
  BY DEF TypeOK, Reports
<1>3. FreshIds'
  BY <1>1, <1>2 DEF SerialInv, FreshIds, Early
<1>4. Alone'
  BY DEF SerialInv, Alone, InFlight, Waiting
<1>5. CarriesPending' /\ Written' /\ Once'
  BY DEF SerialInv, CarriesPending, Written, Once
<1> QED
  BY <1>3, <1>4, <1>5 DEF SerialInv

\* A call that moves on without touching report or log, and not to a stage in
\* which it would carry a report; a report that should have been cleared stays
\* pending only if that is noted.
LEMMA MoveKeeps ==
  ASSUME TypeOK, TypeOK', SerialInv, NEW c \in Calls, NEW stage \in Stages \ ({"idle", "appending", "clearing"}),
         pc[c] # "clearing" \/ "store" \in blame', UNCHANGED <<store, applied>>,
         blame \subseteq blame', pc' = [pc EXCEPT ![c] = stage],
         \A d \in Calls \ {c} : held'[d] = held[d],
         stage \in Early => pc[c] \in Early,
         stage = "saving" => held'[c].id = c,
         "overlap" \notin blame' /\ stage \in Waiting =>
            c \in InFlight \/ InFlight = {}
  PROVE  SerialInv'
<1>1. store # None => store.id \in Calls
  BY DEF TypeOK, Reports
<1>2. \A d \in Calls : pc[d] \in {"appending", "clearing"} => held[d].id \in Calls
  BY DEF TypeOK, Reports
<1>3. \A d \in Calls : pc'[d] = IF d = c THEN stage ELSE pc[d]
  BY DEF TypeOK
<1>4. FreshIds'
  BY <1>1, <1>2, <1>3 DEF SerialInv, FreshIds, Early
<1>5. Alone'
  BY <1>3 DEF SerialInv, Alone, InFlight
<1>6. CarriesPending'
  BY <1>3 DEF SerialInv, CarriesPending
<1>7. Written'
  BY <1>3 DEF SerialInv, Written
<1>8. Once'
  BY <1>3 DEF SerialInv, Once
<1> QED
  BY <1>4, <1>5, <1>6, <1>7, <1>8 DEF SerialInv

LEMMA SerialInit == Init => SerialInv
BY DEF Init, SerialInv, FreshIds, Early, Alone, InFlight, Waiting, CarriesPending, Written, Once

LEMMA SerialNext == TypeOK /\ RefreshInv /\ SerialInv /\ [Next]_vars => SerialInv'
<1> SUFFICES ASSUME TypeOK, RefreshInv, SerialInv, [Next]_vars PROVE SerialInv'
  OBVIOUS
<1>0. TypeOK'
  BY TypeNext
<1>1. ASSUME NEW c \in Calls, ImportStart(c) \/ ApplyStart(c) PROVE SerialInv'
  <2>1. PICK stage \in {"reading", "loading"}, file \in Files \union {None} : Start(c, stage, file)
    BY <1>1 DEF ImportStart, ApplyStart
  <2>2. stage \in Stages /\ stage \notin {"idle", "appending", "clearing", "saving"}
    BY DEF Stages, Waiting
  <2> QED
    BY <1>0, <2>1, <2>2, MoveKeeps DEF Start, Upcoming, Note, Early, TypeOK
<1>2. ASSUME NEW c \in Calls, Refused(c) PROVE SerialInv'
  BY <1>0, <1>2, MoveKeeps DEF Refused, Upcoming, Stages, Waiting, Finished, Early
<1>3. ASSUME NEW c \in Calls,
             ImportUnreadable(c) \/ ApplyWriteFails(c) \/ ImportSaveRaises(c) \/ ApplyLoadRaises(c)
      PROVE  SerialInv'
  <2>1. Step(c, "error", None) /\ UNCHANGED <<store, applied, blame>> /\ pc[c] # "clearing"
    BY <1>3 DEF ImportUnreadable, ApplyWriteFails, ImportSaveRaises, ApplyLoadRaises
  <2> QED
    BY <1>0, <2>1, MoveKeeps DEF Step, Stages, Waiting, Finished, Early, TypeOK
<1>4. ASSUME NEW c \in Calls, ImportBuild(c) PROVE SerialInv'
  <2>1. held'[c].id = c
    BY <1>4 DEF ImportBuild, Step, BuildReport, TypeOK
  <2>2. c \in InFlight
    BY <1>4 DEF ImportBuild, InFlight, Waiting
  <2> QED
    BY <1>0, <1>4, <2>1, <2>2, MoveKeeps DEF ImportBuild, Step, Stages, Waiting, Early, TypeOK
<1>5. ASSUME NEW c \in Calls, ImportSave(c) PROVE SerialInv'
  <2>1. /\ \A d \in Calls : pc'[d] = IF d = c THEN "requesting" ELSE pc[d]
        /\ \A d \in Calls \ {c} : held'[d] = held[d]
        /\ store' = held[c] /\ UNCHANGED <<applied, blame>> /\ pc[c] = "saving"
    BY <1>5 DEF ImportSave, Step, TypeOK
  <2>2. store'.id = c /\ applied[c] = 0
    BY <2>1 DEF SerialInv, FreshIds, Early
  <2>3. \A d \in Calls : pc[d] \in {"appending", "clearing"} => held[d].id \in Calls
    BY DEF TypeOK, Reports
  <2>4. FreshIds'
    BY <2>1, <2>2, <2>3 DEF SerialInv, FreshIds, Early
  <2>5. Alone'
    BY <2>1 DEF SerialInv, Alone, InFlight, Waiting
  <2>6. CarriesPending'
    BY <2>1 DEF SerialInv, Alone, InFlight, Waiting, CarriesPending
  <2>7. Written' /\ Once'
    BY <2>1, <2>2 DEF SerialInv, Written, Once
  <2> QED
    BY <2>4, <2>5, <2>6, <2>7 DEF SerialInv
<1>6. ASSUME NEW c \in Calls, ApplyLoad(c) PROVE SerialInv'
  <2>1. CASE store = None
    BY <1>0, <1>6, <2>1, MoveKeeps DEF ApplyLoad, Step, Stages, Waiting, Finished, Early, TypeOK
  <2>2. CASE store # None
    <3>1. /\ \A d \in Calls : pc'[d] = IF d = c THEN "appending" ELSE pc[d]
          /\ \A d \in Calls : held'[d] = IF d = c THEN store ELSE held[d]
          /\ UNCHANGED <<store, applied, blame>> /\ pc[c] = "loading"
      BY <1>6, <2>2 DEF ApplyLoad, Step, TypeOK
    <3>2. store.id \in Calls
      BY <2>2 DEF TypeOK, Reports
    <3>3. \A d \in Calls : pc[d] \in {"appending", "clearing"} => held[d].id \in Calls
      BY DEF TypeOK, Reports
    <3>4. FreshIds'
      BY <2>2, <3>1, <3>2, <3>3 DEF SerialInv, FreshIds, Early
    <3>5. Alone'
      BY <3>1 DEF SerialInv, Alone, InFlight, Waiting
    <3>6. CarriesPending' /\ Written' /\ Once'
      BY <3>1 DEF SerialInv, CarriesPending, Written, Once
    <3> QED
      BY <3>4, <3>5, <3>6 DEF SerialInv
  <2> QED
    BY <2>1, <2>2
<1>7. ASSUME NEW c \in Calls, ApplyAppend(c) PROVE SerialInv'
  <2> DEFINE i == held[c].id
  <2>1. /\ \A d \in Calls : pc'[d] = IF d = c THEN "clearing" ELSE pc[d]
        /\ held' = held
        /\ UNCHANGED store /\ pc[c] = "appending" /\ blame \subseteq blame'
    BY <1>7 DEF ApplyAppend, Step, Note, TypeOK
  <2>2. i \in Calls
    BY <2>1 DEF TypeOK, Reports
  <2>3. \A d \in Calls : applied'[d] = IF d = i THEN applied[d] + 1 ELSE applied[d]
    BY <1>7 DEF ApplyAppend, TypeOK
  <2>4. \A d \in Calls : pc[d] \in {"appending", "clearing"} => held[d].id \in Calls
    BY DEF TypeOK, Reports
  <2>5. store # None => store.id \in Calls
    BY DEF TypeOK, Reports
  <2>6. FreshIds'
    BY <2>1, <2>2, <2>3, <2>4, <2>5 DEF SerialInv, FreshIds, Early
  <2>7. Alone'
    BY <2>1 DEF SerialInv, Alone, InFlight, Waiting
  <2>8. CarriesPending'
    BY <2>1 DEF SerialInv, CarriesPending
  <2>9. Written'
    BY <2>1, <2>2, <2>3, <2>4 DEF SerialInv, Written, TypeOK
  <2>10. Once'
    <3>1. SUFFICES ASSUME blame' \intersect {"overlap", "crash", "store"} = {}
                   PROVE  \A d \in Calls : applied'[d] <= 1
      BY <2>1 DEF Once
    <3>2. blame \intersect {"overlap", "crash", "store"} = {}
      BY <2>1, <3>1
    <3>3. held[c] = store /\ store # None
      BY <2>1, <3>2, NoneAssumption DEF SerialInv, CarriesPending, TypeOK
    <3>4. \A d \in Calls : pc[d] # "clearing"
      BY <2>1, <3>2 DEF SerialInv, Alone, InFlight, Waiting
    <3>5. applied[i] = 0
      BY <3>2, <3>3, <3>4 DEF SerialInv, Once
    <3> QED
      BY <2>3, <3>2, <3>5 DEF SerialInv, Once
  <2> QED
    BY <2>6, <2>7, <2>8, <2>9, <2>10 DEF SerialInv
<1>8. ASSUME NEW c \in Calls, ApplyClear(c) PROVE SerialInv'
  <2>1. /\ \A d \in Calls : pc'[d] = IF d = c THEN "requesting" ELSE pc[d]
        /\ \A d \in Calls \ {c} : held'[d] = held[d]
        /\ store' = None /\ UNCHANGED <<applied, blame>> /\ pc[c] = "clearing"
    BY <1>8 DEF ApplyClear, Step, TypeOK
  <2>2. \A d \in Calls : pc[d] \in {"appending", "clearing"} => held[d].id \in Calls
    BY DEF TypeOK, Reports
  <2>3. FreshIds'
    BY <2>1, <2>2 DEF SerialInv, FreshIds, Early
  <2>4. Alone'
    BY <2>1 DEF SerialInv, Alone, InFlight, Waiting
  <2>5. CarriesPending'
    BY <2>1 DEF SerialInv, Alone, InFlight, Waiting, CarriesPending
  <2>6. Written' /\ Once'
    BY <2>1 DEF SerialInv, Written, Once
  <2> QED
    BY <2>3, <2>4, <2>5, <2>6 DEF SerialInv
<1>9. ASSUME NEW c \in Calls, RequestRefresh(c) PROVE SerialInv'
  <2>1. UNCHANGED <<store, held, applied, blame>> /\ pc' \in [Calls -> Stages]
    BY <1>0, <1>9 DEF RequestRefresh, TypeOK, Stages
  <2>2. \A d \in Calls : \/ pc'[d] = pc[d]
                         \/ pc[d] \in {"requesting", "refreshing"} /\ pc'[d] \in {"refreshing", "ok"}
    BY <1>9 DEF RequestRefresh, BeginRefresh, Release, TypeOK
  <2> QED
    BY <2>1, <2>2, QuietKeeps
<1>10. ASSUME TimerExpires \/ IntervalElapses \/ SetUp PROVE SerialInv'
  <2>1. UNCHANGED <<store, held, applied, blame, pc>>
    BY <1>10 DEF TimerExpires, IntervalElapses, SetUp, BeginRefresh, Release
  <2> QED
    BY <1>0, <2>1, QuietKeeps DEF TypeOK, Stages
<1>11. ASSUME RefreshSucceeds \/ RefreshFails PROVE SerialInv'
  <2>1. UNCHANGED <<store, held, applied, blame>> /\ pc' \in [Calls -> Stages]
    BY <1>0, <1>11 DEF RefreshSucceeds, RefreshFails, TypeOK, Stages
  <2>2. \A d \in Calls : \/ pc'[d] = pc[d]
                         \/ pc[d] \in {"requesting", "refreshing"} /\ pc'[d] \in {"refreshing", "ok"}
    BY <1>11 DEF RefreshSucceeds, RefreshFails, Release, RefreshInv, TypeOK
  <2> QED
    BY <2>1, <2>2, QuietKeeps
<1>12. ASSUME Restart PROVE SerialInv'
  <2>1. /\ \A d \in Calls : pc'[d] = IF pc[d] \in Waiting THEN "lost" ELSE pc[d]
        /\ UNCHANGED <<store, applied>> /\ blame \subseteq blame'
        /\ (\E d \in Calls : pc[d] = "clearing") => "crash" \in blame'
    BY <1>12 DEF Restart, Note
  <2>2. \A d \in Calls : pc'[d] \notin Waiting
    BY <2>1 DEF Waiting
  <2>3. store # None => store.id \in Calls
    BY DEF TypeOK, Reports
  <2>4. FreshIds'
    BY <2>1, <2>2, <2>3 DEF SerialInv, FreshIds, Early, Waiting
  <2>5. Alone' /\ CarriesPending' /\ Written'
    BY <2>2 DEF Alone, InFlight, CarriesPending, Written, Waiting
  <2>6. Once'
    BY <2>1 DEF SerialInv, Once
  <2> QED
    BY <2>4, <2>5, <2>6 DEF SerialInv
<1>13. ASSUME NEW c \in Calls, ImportSaveLost(c) \/ ApplyClearLost(c) \/ ApplyClearRaises(c)
       PROVE  SerialInv'
  <2>1. PICK stage \in {"requesting", "error"} :
          /\ pc' = [pc EXCEPT ![c] = stage] /\ held' = [held EXCEPT ![c] = None]
          /\ UNCHANGED <<store, applied>> /\ blame' = blame \union {"store"}
          /\ pc[c] \in {"saving", "clearing"}
    BY <1>13 DEF ImportSaveLost, ApplyClearLost, ApplyClearRaises, Step, Note
  <2>2. c \in InFlight
    BY <2>1 DEF InFlight, Waiting
  <2>3. stage \in Stages \ {"idle", "appending", "clearing"}
    BY DEF Stages, Waiting, Finished
  <2>4. \A d \in Calls \ {c} : held'[d] = held[d]
    BY <2>1 DEF TypeOK
  <2> QED
    BY <1>0, <2>1, <2>2, <2>3, <2>4, MoveKeeps DEF Early
<1>14. CASE UNCHANGED vars
  BY <1>0, <1>14, QuietKeeps DEF vars, process, TypeOK, Stages
<1> QED
  BY <1>1, <1>2, <1>3, <1>4, <1>5, <1>6, <1>7, <1>8, <1>9, <1>10, <1>11, <1>12, <1>13, <1>14
     DEF Next, Proceed

\* A report's rows are written once, unless calls overlap, the report store
\* keeps what it was to replace, or a restart comes between the write of the
\* log and the clearing of the report.
THEOREM ReportAppliedOnce == Spec => []AppliedAtMostOnce
<1>1. SerialInv => AppliedAtMostOnce
  BY DEF SerialInv, Once, AppliedAtMostOnce
<1> QED
  BY <1>1, TypeInit, TypeNext, RefreshInit, RefreshNext, SerialInit, SerialNext, PTL DEF Spec

\* The reports that are pending or carried by a call.
Live == {x \in Reports : x = store \/ \E c \in Calls : pc[c] \in Carrying /\ x = held[c]}

\* There is one report of a name, and the rows of one that was applied are in
\* the log.
LiveInv ==
  /\ \A x, y \in Live : x.id = y.id => x = y
  /\ \A x \in Live : applied[x.id] >= 1 => \A r \in Rows : x.imported[r] <= log[r]

\* Where no report appears and nothing is written, nothing is to be shown.
LEMMA LiveKeeps ==
  ASSUME LiveInv, UNCHANGED <<applied, log>>, Live' \subseteq Live
  PROVE  LiveInv'
BY DEF LiveInv

LEMMA LiveInit == Init => LiveInv
BY NoneAssumption DEF Init, LiveInv, Live, Carrying

\* What a step of a call leaves of the reports, if the call had what it carries
\* on and what it stores.
LEMMA StepLive ==
  ASSUME TypeOK, NEW c \in Calls, NEW stage, NEW carry, Step(c, stage, carry),
         stage \in Carrying /\ carry \in Reports => carry \in Live,
         store' \in Reports => store' \in Live
  PROVE  Live' \subseteq Live
<1>1. \A d \in Calls : /\ pc'[d] = IF d = c THEN stage ELSE pc[d]
                      /\ held'[d] = IF d = c THEN carry ELSE held[d]
  BY DEF Step, TypeOK
<1> QED
  BY <1>1 DEF Live

LEMMA LiveNext == TypeOK /\ RefreshInv /\ SerialInv /\ LiveInv /\ [Next]_vars => LiveInv'
<1> SUFFICES ASSUME TypeOK, RefreshInv, SerialInv, LiveInv, [Next]_vars PROVE LiveInv'
  OBVIOUS
<1>0. store \in Reports => store \in Live
  BY DEF Live
<1>1. ASSUME NEW c \in Calls, pc[c] \in Carrying PROVE held[c] \in Live
  BY <1>1 DEF Live, TypeOK, Carrying
<1>2. ASSUME NEW c \in Calls, ImportStart(c) \/ ApplyStart(c) \/ Refused(c) PROVE LiveInv'
  <2>1. PICK stage \in {"reading", "loading", "error"} :
          /\ \A d \in Calls : pc'[d] = IF d = c THEN stage ELSE pc[d]
          /\ \A d \in Calls \ {c} : held'[d] = held[d]
          /\ UNCHANGED <<store, applied, log>>
    BY <1>2 DEF ImportStart, ApplyStart, Refused, Start, TypeOK
  <2>2. Live' \subseteq Live
    BY <2>1 DEF Live, Carrying
  <2> QED
    BY <2>1, <2>2, LiveKeeps
<1>3. ASSUME NEW c \in Calls, ImportBuild(c) PROVE LiveInv'
  <2> DEFINE new == BuildReport(c, held[c], data)
  <2>1. /\ \A d \in Calls : pc'[d] = IF d = c THEN "saving" ELSE pc[d]
        /\ \A d \in Calls : held'[d] = IF d = c THEN new ELSE held[d]
        /\ UNCHANGED <<store, applied, log>> /\ pc[c] = "reading"
    BY <1>3 DEF ImportBuild, Step, TypeOK
  <2>2. new.id = c
    BY DEF BuildReport
  <2> HIDE DEF new
  <2>3. Live' \subseteq Live \union {new}
    BY <2>1 DEF Live
  <2>4. applied[c] = 0
    BY <2>1 DEF SerialInv, FreshIds, Early
  <2>5. \A x \in Live : x.id # c
    <3>1. ASSUME NEW d \in Calls, pc[d] \in Carrying PROVE held[d].id # c
      BY <2>1, <3>1 DEF SerialInv, FreshIds, Early, Carrying
    <3>2. store # None => store.id # c
      BY <2>1 DEF SerialInv, FreshIds, Early
    <3> QED
      BY <3>1, <3>2, NoneAssumption DEF Live
  <2> QED
    BY <2>1, <2>2, <2>3, <2>4, <2>5 DEF LiveInv
<1>4. ASSUME NEW c \in Calls, ImportSave(c) PROVE LiveInv'
  <2>1. Step(c, "requesting", None) /\ UNCHANGED <<applied, log>> /\ store' \in Live
    BY <1>1, <1>4 DEF ImportSave, Carrying
  <2> QED
    BY <2>1, StepLive, LiveKeeps DEF Carrying
<1>5. ASSUME NEW c \in Calls, ApplyLoad(c) PROVE LiveInv'
  <2>1. PICK stage \in {"error", "appending"}, carry \in {None, store} :
          Step(c, stage, carry) /\ UNCHANGED <<applied, log, store>>
    BY <1>5 DEF ApplyLoad
  <2> QED
    BY <1>0, <2>1, StepLive, LiveKeeps, NoneAssumption
<1>6. ASSUME NEW c \in Calls, ApplyAppend(c) PROVE LiveInv'
  <2> DEFINE i == held[c].id
  <2>1. Step(c, "clearing", held[c]) /\ UNCHANGED store /\ pc[c] = "appending"
    BY <1>6 DEF ApplyAppend
  <2>2. held[c] \in Live /\ held[c] \in Reports
    BY <1>1, <2>1 DEF Carrying, TypeOK
  <2>3. Live' \subseteq Live
    BY <1>0, <2>1, <2>2, StepLive
  <2>4. \A d \in Calls : applied'[d] = IF d = i THEN applied[d] + 1 ELSE applied[d]
    BY <1>6 DEF ApplyAppend, TypeOK
  <2>5. \A r \in Rows : /\ log'[r] = log[r] + held[c].imported[r]
                        /\ log[r] \in Nat /\ held[c].imported[r] \in Nat
    BY <1>6, <2>2 DEF ApplyAppend, AddRows, TypeOK, Reports
  <2>6. \A x \in Live, r \in Rows : x.id \in Calls /\ x.imported[r] \in Nat
    BY DEF Live, Reports
  <2>7. ASSUME NEW x \in Live, applied'[x.id] >= 1, NEW r \in Rows PROVE x.imported[r] <= log'[r]
    <3>1. CASE x.id = i
      BY <2>2, <2>5, <3>1 DEF LiveInv
    <3>2. CASE x.id # i
      BY <2>4, <2>5, <2>6, <2>7, <3>2 DEF LiveInv
    <3> QED
      BY <3>1, <3>2
  <2> QED
    BY <2>3, <2>7 DEF LiveInv
<1>7. ASSUME NEW c \in Calls, ApplyClear(c) PROVE LiveInv'
  <2>1. Step(c, "requesting", None) /\ UNCHANGED <<applied, log>> /\ store' = None
    BY <1>7 DEF ApplyClear
  <2> QED
    BY <2>1, StepLive, LiveKeeps, NoneAssumption DEF Carrying
<1>8. ASSUME NEW c \in Calls,
             \/ ImportUnreadable(c) \/ ApplyWriteFails(c) \/ ImportSaveRaises(c)
             \/ ApplyLoadRaises(c) \/ ImportSaveLost(c) \/ ApplyClearLost(c)
      PROVE  LiveInv'
  <2>1. PICK stage \in {"error", "requesting"} :
          Step(c, stage, None) /\ UNCHANGED <<applied, log, store>>
    BY <1>8 DEF ImportUnreadable, ApplyWriteFails, ImportSaveRaises, ApplyLoadRaises,
                ImportSaveLost, ApplyClearLost
  <2> QED
    BY <1>0, <2>1, StepLive, LiveKeeps DEF Carrying
<1>9. ASSUME NEW c \in Calls, ApplyClearRaises(c) PROVE LiveInv'
  <2>1. /\ \A d \in Calls : pc'[d] = IF d = c THEN "error" ELSE pc[d]
        /\ \A d \in Calls \ {c} : held'[d] = held[d]
        /\ UNCHANGED <<store, applied, log>>
    BY <1>9 DEF ApplyClearRaises, TypeOK
  <2>2. Live' \subseteq Live
    BY <2>1 DEF Live, Carrying
  <2> QED
    BY <2>1, <2>2, LiveKeeps
<1>10. ASSUME \/ \E c \in Calls : RequestRefresh(c)
              \/ TimerExpires \/ IntervalElapses \/ SetUp \/ RefreshSucceeds \/ RefreshFails
       PROVE  LiveInv'
  <2>1. UNCHANGED <<store, held, applied, log>>
    BY <1>10 DEF RequestRefresh, TimerExpires, IntervalElapses, SetUp, RefreshSucceeds, RefreshFails
  <2>2. \A d \in Calls : pc'[d] = pc[d] \/ pc'[d] \in {"refreshing", "ok"}
    BY <1>10 DEF RequestRefresh, TimerExpires, IntervalElapses, SetUp, RefreshSucceeds,
                 RefreshFails, BeginRefresh, Release, RefreshInv, TypeOK
  <2>3. Live' \subseteq Live
    BY <2>1, <2>2 DEF Live, Carrying
  <2> QED
    BY <2>1, <2>3, LiveKeeps
<1>11. ASSUME Restart PROVE LiveInv'
  <2>1. /\ \A d \in Calls : pc'[d] \notin Carrying
        /\ UNCHANGED <<store, applied, log>>
    BY <1>11 DEF Restart, Waiting, Carrying
  <2>2. Live' \subseteq Live
    BY <2>1 DEF Live
  <2> QED
    BY <2>1, <2>2, LiveKeeps
<1>12. CASE UNCHANGED vars
  <2>1. Live' \subseteq Live /\ UNCHANGED <<applied, log>>
    BY <1>12 DEF vars, process, Live
  <2> QED
    BY <2>1, LiveKeeps
<1> QED
  BY <1>2, <1>3, <1>4, <1>5, <1>6, <1>7, <1>8, <1>9, <1>10, <1>11, <1>12 DEF Next, Proceed

\* A report that is written a second time, whatever made it so, makes the log
\* unreadable or has no rows: amounts are never doubled unnoticed
\* (services.py:300-312, yaml_repository.py:76-82).
THEOREM SecondWriteShows == Spec => SecondWriteIsNoticed
<1> DEFINE Noticed(c) == applied[c] >= 1 /\ applied'[c] > applied[c] => ~Readable(log') \/ log' = log
<1>1. TypeOK /\ LiveInv /\ [Next]_vars => \A c \in Calls : Noticed(c)
  <2> SUFFICES ASSUME TypeOK, LiveInv, [Next]_vars, NEW i \in Calls,
                      applied[i] >= 1, applied'[i] > applied[i], Readable(log')
               PROVE  log' = log
    OBVIOUS
  <2>1. applied' # applied
    BY DEF TypeOK
  <2>2. PICK c \in Calls : ApplyAppend(c)
    BY <2>1 DEF Next, Proceed, ImportStart, ApplyStart, Start, Refused, ImportUnreadable,
                ApplyWriteFails, ImportSaveRaises, ImportSaveLost, ApplyLoadRaises,
                ApplyClearRaises, ApplyClearLost, ImportBuild, ImportSave, ApplyLoad, ApplyClear,
                RequestRefresh, SetUp, IntervalElapses, TimerExpires, RefreshSucceeds,
                RefreshFails, Restart, vars
  <2>3. pc[c] = "appending" /\ log' = AddRows(log, held[c].imported)
        /\ applied' = [applied EXCEPT ![held[c].id] = @ + 1]
    BY <2>2 DEF ApplyAppend
  <2>4. held[c] \in Live /\ held[c] \in Reports /\ held[c].id = i
    BY <2>3 DEF Live, TypeOK, Carrying
  <2>5. \A r \in Rows : held[c].imported[r] <= log[r] /\ held[c].imported[r] \in Nat /\ log[r] \in Nat
    BY <2>4 DEF LiveInv, Reports, TypeOK
  <2>6. \A r \in Rows : log'[r] = log[r] + held[c].imported[r] /\ log'[r] <= 1
    BY <2>3 DEF AddRows, Readable
  <2>7. \A r \in Rows : log'[r] = log[r]
    BY <2>5, <2>6
  <2>8. log' \in [Rows -> Nat] /\ log \in [Rows -> Nat]
    BY <2>3, <2>5 DEF TypeOK, AddRows
  <2> QED
    BY <2>7, <2>8
<1> QED
  BY <1>1, TypeInit, TypeNext, RefreshInit, RefreshNext, SerialInit, SerialNext, LiveInit, LiveNext, PTL
     DEF Spec, SecondWriteIsNoticed

\* With calls one after another a pending report goes away only when its rows
\* are in the log.
THEOREM PendingReportSurvives == Spec => ReportNeverLost
<1> DEFINE Kept == store # None /\ store' = None /\ "overlap" \notin blame => applied[store.id] >= 1
<1>1. TypeOK /\ SerialInv /\ [Next]_vars => [Kept]_vars
  <2> SUFFICES ASSUME TypeOK, SerialInv, Next, store # None, store' = None, "overlap" \notin blame
               PROVE  applied[store.id] >= 1
    BY DEF vars
  <2>1. \A c \in Calls : ~ImportSave(c)
    BY NoneAssumption DEF ImportSave, TypeOK
  <2>2. PICK c \in Calls : ApplyClear(c)
    BY <2>1 DEF Next, Proceed, ImportStart, ApplyStart, Start, Refused, ImportUnreadable, ImportBuild,
                ApplyLoad, ApplyAppend, ApplyWriteFails, RequestRefresh, TimerExpires, IntervalElapses,
                SetUp, RefreshSucceeds, RefreshFails, Restart, ImportSaveRaises, ImportSaveLost,
                ApplyLoadRaises, ApplyClearRaises, ApplyClearLost
  <2>3. held[c] = store /\ applied[held[c].id] >= 1
    BY <2>2 DEF ApplyClear, SerialInv, CarriesPending, Written
  <2> QED
    BY <2>3
<1> QED
  BY <1>1, TypeInit, TypeNext, RefreshInit, RefreshNext, SerialInit, SerialNext, PTL DEF Spec, ReportNeverLost

\* What the import that ended last has left in the store.
LatestInv ==
  blame \intersect {"overlap", "store"} = {} /\ store # None => store.id = latest

\* An import, or a failing save of one, is all that changes latest, and with
\* the clearing of a report all that changes the store.
LEMMA OthersKeepStore ==
  ASSUME [Next]_vars, \A c \in Calls : ~ImportSave(c) /\ ~ImportSaveLost(c) /\ ~ApplyClear(c)
  PROVE  UNCHANGED <<store, latest>>
BY DEF Next, Proceed, ImportStart, ApplyStart, Start, Refused, ImportUnreadable, ImportBuild, ApplyLoad,
       ApplyAppend, ApplyWriteFails, RequestRefresh, TimerExpires, IntervalElapses, SetUp, RefreshSucceeds,
       RefreshFails, Restart, ImportSaveRaises, ApplyLoadRaises, ApplyClearRaises, ApplyClearLost, vars

\* Nothing that has happened is forgotten.
LEMMA BlameGrows == [Next]_vars => blame \subseteq blame'
BY DEF Next, Proceed, ImportStart, ApplyStart, Start, Refused, ImportUnreadable, ImportBuild, ImportSave,
       ApplyLoad, ApplyAppend, ApplyWriteFails, ApplyClear, RequestRefresh, TimerExpires, IntervalElapses,
       SetUp, RefreshSucceeds, RefreshFails, Restart, ImportSaveRaises, ImportSaveLost, ApplyLoadRaises,
       ApplyClearRaises, ApplyClearLost, Note, vars

LEMMA LatestNext == TypeOK /\ SerialInv /\ LatestInv /\ [Next]_vars => LatestInv'
<1> SUFFICES ASSUME TypeOK, SerialInv, LatestInv, [Next]_vars,
                    blame' \intersect {"overlap", "store"} = {}, store' # None
             PROVE  store'.id = latest'
  BY DEF LatestInv
<1>1. ASSUME NEW c \in Calls, ImportSave(c) PROVE store'.id = latest'
  BY <1>1 DEF ImportSave, SerialInv, FreshIds
<1>2. \A c \in Calls : ~ImportSaveLost(c) /\ ~ApplyClear(c)
  BY DEF ImportSaveLost, ApplyClear, Note
<1>3. CASE \A c \in Calls : ~ImportSave(c)
  <2>1. UNCHANGED <<store, latest>>
    BY <1>2, <1>3, OthersKeepStore
  <2> QED
    BY <2>1, BlameGrows DEF LatestInv
<1> QED
  BY <1>1, <1>3

\* What an apply writes is the report of the last import that ended without
\* an error, unless calls overlap or the store has kept an older one.
THEOREM WhatIsAppliedWasReviewed == Spec => AppliedIsReviewed
<1> DEFINE Reviewed == \A c \in Calls :
             applied'[c] > applied[c] /\ blame' \intersect {"overlap", "store"} = {} => latest = c
<1>1. Init => LatestInv
  BY DEF Init, LatestInv
<1>2. TypeOK /\ SerialInv /\ LatestInv /\ [Next]_vars => [Reviewed]_vars
  <2> SUFFICES ASSUME TypeOK, SerialInv, LatestInv, [Next]_vars, NEW c \in Calls, applied'[c] > applied[c],
                      blame' \intersect {"overlap", "store"} = {}
               PROVE  latest = c
    BY DEF vars
  <2>1. applied[c] \in Nat
    BY DEF TypeOK
  <2>2. ~UNCHANGED applied
    BY <2>1
  <2>3. PICK d \in Calls : ApplyAppend(d)
    BY <2>2 DEF Next, Proceed, ImportStart, ApplyStart, Start, Refused, ImportUnreadable, ImportBuild,
                ImportSave, ApplyLoad, ApplyWriteFails, ApplyClear, RequestRefresh, TimerExpires,
                IntervalElapses, SetUp, RefreshSucceeds, RefreshFails, Restart, ImportSaveRaises,
                ImportSaveLost, ApplyLoadRaises, ApplyClearRaises, ApplyClearLost, vars
  <2>4. held[d].id = c
    BY <2>1, <2>3 DEF ApplyAppend, TypeOK
  <2>5. blame \intersect {"overlap", "store"} = {}
    BY BlameGrows
  <2>6. held[d] = store /\ store # None
    BY <2>3, <2>5, NoneAssumption DEF ApplyAppend, SerialInv, CarriesPending, TypeOK
  <2> QED
    BY <2>4, <2>5, <2>6 DEF LatestInv
<1> QED
  BY <1>1, <1>2, TypeInit, TypeNext, RefreshInit, RefreshNext, SerialInit, SerialNext, LatestNext, PTL
     DEF Spec, AppliedIsReviewed

----------------------------------------------------------------------------
(* Review, then apply: the abstract specification is implemented *)

\* Some apply has written its report and is about to clear it.
Clearing == \E c \in Calls : pc[c] = "clearing"

\* A step that leaves log, store and applications alone, and after which as
\* many calls are about to clear as before, is not seen.
LEMMA Unseen ==
  ASSUME UNCHANGED <<log, store, applied>>, Clearing' <=> Clearing
  PROVE  UNCHANGED <<log, Pending, Done>>
BY DEF Pending, Done, Clearing

LEMMA ReviewInit == Init => Abstract!Init
BY LogsAssumption DEF Init, Abstract!Init, Pending, Done

\* Until the first of the three hazards a step of the pipeline is a step of
\* the abstract specification, or is not seen by it: one case per action.
LEMMA ReviewNext ==
  ASSUME TypeOK, TypeOK', RefreshInv, SerialInv, [Next]_vars,
         blame' \intersect {"overlap", "crash", "store"} = {}
  PROVE  Abstract!Next \/ UNCHANGED <<log, Pending, Done>>
<1> DEFINE Goal == Abstract!Next \/ UNCHANGED <<log, Pending, Done>>
<1> SUFFICES Goal
  OBVIOUS
<1>0. blame \intersect {"overlap", "crash", "store"} = {}
  BY BlameGrows
<1>1. ASSUME NEW c \in Calls, ImportStart(c) \/ ApplyStart(c) \/ Refused(c) PROVE Goal
  <2>1. UNCHANGED <<log, store, applied>> /\ (Clearing' <=> Clearing)
    BY <1>1 DEF ImportStart, ApplyStart, Start, Upcoming, Refused, Clearing, TypeOK
  <2> QED
    BY <2>1, Unseen
<1>2. ASSUME NEW c \in Calls,
             \/ ImportUnreadable(c) \/ ApplyWriteFails(c) \/ ImportSaveRaises(c) \/ ApplyLoadRaises(c)
             \/ ImportBuild(c) \/ ApplyLoad(c)
      PROVE  Goal
  <2>1. UNCHANGED <<log, store, applied>> /\ (Clearing' <=> Clearing)
    BY <1>2 DEF ImportUnreadable, ApplyWriteFails, ImportSaveRaises, ApplyLoadRaises, ImportBuild,
                ApplyLoad, Step, Clearing, TypeOK
  <2> QED
    BY <2>1, Unseen
<1>3. ASSUME NEW c \in Calls, ImportSave(c) PROVE Goal
  <2>1. held[c] \in Reports /\ held[c].id = c /\ applied[c] = 0
    BY <1>3 DEF ImportSave, TypeOK, SerialInv, FreshIds, Early
  <2>2. ~Clearing'
    BY <1>0, <1>3 DEF ImportSave, Step, Clearing, SerialInv, Alone, InFlight, Waiting, TypeOK
  <2>3. Pending' = held[c]
    BY <1>3, <2>2 DEF ImportSave, Pending, Clearing
  <2>4. c \notin Done
    BY <2>1 DEF Done
  <2>5. UNCHANGED <<log, Done>>
    BY <1>3 DEF ImportSave, Done
  <2> QED
    BY <2>1, <2>3, <2>4, <2>5 DEF Abstract!Next, Abstract!Review
<1>4. ASSUME NEW c \in Calls, ApplyAppend(c) PROVE Goal
  <2>1. held[c] = store /\ store \in Reports /\ store # None
    BY <1>0, <1>4, NoneAssumption DEF ApplyAppend, SerialInv, CarriesPending, TypeOK
  <2>2. ~Clearing
    BY <1>0, <1>4 DEF ApplyAppend, Clearing, SerialInv, Alone, InFlight, Waiting
  <2>3. Pending = store
    BY <2>2 DEF Pending, Clearing
  <2>4. Pending' = None
    BY <1>4 DEF ApplyAppend, Step, Pending, TypeOK
  <2>5. store.id \in Calls
    BY <2>1 DEF Reports
  <2>6. Done' = Done \union {store.id}
    <3>1. \A d \in Calls : applied'[d] = IF d = store.id THEN applied[d] + 1 ELSE applied[d]
      BY <1>4, <2>1, <2>5 DEF ApplyAppend, TypeOK
    <3>2. \A d \in Calls : applied[d] \in Nat
      BY DEF TypeOK
    <3>3. \A d \in Calls : applied'[d] > 0 <=> (applied[d] > 0 \/ d = store.id)
      BY <3>1, <3>2
    <3> QED
      BY <2>5, <3>3 DEF Done
  <2>7. log' = [r \in Rows |-> log[r] + store.imported[r]]
    BY <1>4, <2>1 DEF ApplyAppend, AddRows
  <2> QED
    BY <2>1, <2>3, <2>4, <2>6, <2>7 DEF Abstract!Next, Abstract!Apply
<1>5. ASSUME NEW c \in Calls, ApplyClear(c) PROVE Goal
  <2>1. Pending = None /\ Pending' = None
    BY <1>5 DEF ApplyClear, Pending
  <2> QED
    BY <1>5, <2>1 DEF ApplyClear, Done
<1>6. \A c \in Calls : ~ImportSaveLost(c) /\ ~ApplyClearLost(c) /\ ~ApplyClearRaises(c)
  BY DEF ImportSaveLost, ApplyClearLost, ApplyClearRaises, Note
<1>7. ASSUME NEW c \in Calls, RequestRefresh(c) PROVE Goal
  <2>1. UNCHANGED <<log, store, applied>> /\ (Clearing' <=> Clearing)
    BY <1>7 DEF RequestRefresh, BeginRefresh, Release, Clearing, TypeOK
  <2> QED
    BY <2>1, Unseen
<1>8. ASSUME TimerExpires \/ IntervalElapses \/ SetUp PROVE Goal
  <2>1. UNCHANGED <<log, store, applied, pc>>
    BY <1>8 DEF TimerExpires, IntervalElapses, SetUp, BeginRefresh, Release
  <2> QED
    BY <2>1, Unseen DEF Clearing
<1>9. ASSUME RefreshSucceeds \/ RefreshFails PROVE Goal
  <2>1. UNCHANGED <<log, store, applied>> /\ (Clearing' <=> Clearing)
    BY <1>9 DEF RefreshSucceeds, RefreshFails, Release, RefreshInv, Clearing, TypeOK
  <2> QED
    BY <2>1, Unseen
<1>10. ASSUME Restart PROVE Goal
  <2>1. ~Clearing
    BY <1>10 DEF Restart, Note, Clearing
  <2>2. ~Clearing' /\ UNCHANGED <<log, store, applied>>
    BY <1>10, <2>1 DEF Restart, Clearing, Waiting
  <2> QED
    BY <2>1, <2>2, Unseen
<1>11. CASE UNCHANGED vars
  BY <1>11, Unseen DEF vars, process, Clearing
<1> QED
  BY <1>1, <1>2, <1>3, <1>4, <1>5, <1>6, <1>7, <1>8, <1>9, <1>10, <1>11 DEF Next, Proceed

\* Until calls overlap, the report store fails or a restart splits an apply,
\* import_transactions and apply_import implement review-then-apply: each
\* change of the log is one pending report, whole, and then gone for good.
THEOREM ImportImplementsReview == Spec => ImplementsReview
<1> DEFINE Kept == blame' \intersect {"overlap", "crash", "store"} = {} => Abstract!Next
<1>1. TypeOK /\ TypeOK' /\ RefreshInv /\ SerialInv /\ [Next]_vars => [Kept]_<<log, Pending, Done>>
  BY ReviewNext
<1> QED
  BY <1>1, ReviewInit, TypeInit, TypeNext, RefreshInit, RefreshNext, SerialInit, SerialNext, PTL
     DEF Spec, ImplementsReview

----------------------------------------------------------------------------
(* BrokerImport: the rows of an export *)

\* Entries come from imports that are over.
KeyInv == \A d \in entries : /\ d.key[1] \in Int /\ d.key[1] <= imports
                             /\ status # "idle" => d.key[1] < imports

\* The rows that were read are told apart, and what they gave is as it was.
RowsInv ==
  /\ status \in {"reading", "reported"} =>
       ExportRows = left \union DOMAIN parsed \union rejected \union skipped
  /\ status = "reported" => left = {}
  /\ DOMAIN parsed \subseteq ExportRows
  /\ \A i \in DOMAIN parsed : /\ parsed[i] = TransactionOf(export.rows[i])
                              /\ Accepted(export.rows[i]) /\ ~Unsupported(export.rows[i])
  /\ \A i \in rejected : ~Accepted(export.rows[i])
  /\ \A i \in skipped : Unsupported(export.rows[i])

\* Each transaction of an applied export is in the log, or was taken for one
\* that is, or has the id of another row of that export.
AppliedInv ==
  \A x \in written : \A j \in DOMAIN x.rows :
    x.sound /\ Accepted(x.rows[j]) /\ ~Unsupported(x.rows[j]) =>
      \/ \E e \in entries : IsDuplicateOf(TransactionOf(x.rows[j]), e.is)
      \/ \E k \in DOMAIN x.rows \ {j} :
           /\ Accepted(x.rows[k])
           /\ TransactionOf(x.rows[k]).id = TransactionOf(x.rows[j]).id

IInv == BrokerTypeOK /\ KeyInv /\ RowsInv

----------------------------------------------------------------------------
(* What is proposed *)

\* What is proposed matches nothing in the log.
LEMMA ProposedIsNew ==
  ASSUME NEW i \in Proposed, NEW e \in entries
  PROVE  ~IsDuplicateOf(parsed[i], e.is)
BY DEF Proposed, Duplicates, Known

\* What is not proposed is a duplicate or has the id of one.
LEMMA AnsweredOrShared ==
  ASSUME NEW i \in DOMAIN parsed
  PROVE  \/ i \in Proposed
         \/ i \in Duplicates
         \/ \E d \in Duplicates \ {i} : parsed[i].id = parsed[d].id
BY DEF Proposed

----------------------------------------------------------------------------
(* The two models of one duplicate check *)

\* The transactions read so far, as the bag of rows that ImportPipeline takes
\* an export for.
ParsedBag == [r \in Rows |-> Cardinality({i \in DOMAIN parsed : parsed[i] = r})]

\* A row of the pipeline is a transaction, with its id, and rows are alike as
\* _find_heuristic_match has it.
RowsAreTransactions ==
  /\ Known \subseteq Rows
  /\ \A i \in DOMAIN parsed : parsed[i] \in Rows
  /\ \A r \in Rows : IdOf[r] = r.id
  /\ \A r, e \in Rows : <<r, e>> \in Alike <=> SameTrade(r, e)

\* However many rows an export has, only so many have been read.
LEMMA ParsedIsFinite == BrokerTypeOK /\ RowsInv => IsFiniteSet(DOMAIN parsed)
<1> SUFFICES ASSUME BrokerTypeOK, RowsInv PROVE IsFiniteSet(DOMAIN parsed)
  OBVIOUS
<1>1. IsFiniteSet(DOMAIN export.rows)
  BY ExportsAssumption DEF BrokerTypeOK
<1>2. DOMAIN parsed \subseteq DOMAIN export.rows
  BY DEF RowsInv, ExportRows
<1> QED
  BY <1>1, <1>2, FS_Subset

LEMMA BagOfParsed ==
  ASSUME IsFiniteSet(DOMAIN parsed), NEW r \in Rows
  PROVE  /\ ParsedBag[r] \in Nat
         /\ ParsedBag[r] > 0 <=> \E i \in DOMAIN parsed : parsed[i] = r
<1> DEFINE here == {i \in DOMAIN parsed : parsed[i] = r}
<1>1. IsFiniteSet(here)
  BY FS_Subset
<1>2. Cardinality(here) \in Nat /\ (Cardinality(here) = 0 <=> here = {})
  BY <1>1, FS_CardinalityType, FS_EmptySet
<1>3. ParsedBag[r] = Cardinality(here)
  BY DEF ParsedBag
<1> QED
  BY <1>2, <1>3

\* What build_import_report proposes is the same in ImportPipeline, where a
\* row is a name and the heuristic a relation, and in BrokerImport, where both
\* are computed from the fields: what is checked and proved of the one holds
\* for the rows of the other.
THEOREM DuplicateChecksAgree ==
  ASSUME IInv, RowsAreTransactions, NEW r \in Rows
  PROVE  Imported(ParsedBag, Known)[r] = Cardinality({i \in Proposed : parsed[i] = r})
<1> DEFINE dups == {q \in RowsOf(ParsedBag) : \E e \in Known : Matches(q, e)}
           here == {i \in DOMAIN parsed : parsed[i] = r}
<1>1. \A q \in Rows : q \in RowsOf(ParsedBag) <=> \E i \in DOMAIN parsed : parsed[i] = q
  BY ParsedIsFinite, BagOfParsed DEF RowsOf, IInv
<1>2. \A q \in Rows, e \in Known : Matches(q, e) <=> IsDuplicateOf(q, e)
  BY DEF RowsAreTransactions, Matches, IsDuplicateOf
<1>3. \A q \in Rows : q \in dups <=> \E d \in Duplicates : parsed[d] = q
  BY <1>1, <1>2 DEF RowsOf, Duplicates, RowsAreTransactions
<1>4. IdOf[r] \in IdsOf(dups) <=> \E d \in Duplicates : parsed[d].id = r.id
  <2>1. dups \subseteq Rows
    BY DEF RowsOf
  <2>2. \A d \in Duplicates : parsed[d] \in Rows
    BY DEF Duplicates, RowsAreTransactions
  <2> QED
    BY <1>3, <2>1, <2>2 DEF IdsOf, RowsAreTransactions
<1>5. Imported(ParsedBag, Known)[r] = IF IdOf[r] \in IdsOf(dups) THEN 0 ELSE Cardinality(here)
  BY DEF Imported, ParsedBag
<1>6. CASE \E d \in Duplicates : parsed[d].id = r.id
  <2>1. {i \in Proposed : parsed[i] = r} = {}
    BY <1>6 DEF Proposed
  <2> QED
    BY <1>4, <1>5, <1>6, <2>1, FS_EmptySet
<1>7. CASE ~\E d \in Duplicates : parsed[d].id = r.id
  <2>1. {i \in Proposed : parsed[i] = r} = here
    BY <1>7 DEF Proposed
  <2> QED
    BY <1>4, <1>5, <1>7, <2>1
<1> QED
  BY <1>6, <1>7

----------------------------------------------------------------------------
(* Types and rows *)

LEMMA RowsInit == BrokerInit => IInv
<1> SUFFICES ASSUME BrokerInit PROVE IInv
  OBVIOUS
<1>1. DOMAIN parsed = {}
  BY DEF BrokerInit
<1>2. \A d, e \in entries : d.key = e.key => d = e
  BY DEF BrokerInit
<1>3. BrokerTypeOK
  <2>1. imports \in 0 .. MaxImports
    BY ImportsAssumption DEF BrokerInit
  <2>2. \A i \in DOMAIN parsed : Valid(parsed[i])
    BY <1>1
  <2>3. /\ export \in Exports /\ left \subseteq ExportRows /\ written \subseteq Exports
        /\ status \in {"idle", "reading", "reported", "crashed"} /\ repeated \in BOOLEAN
    BY DEF BrokerInit
  <2>4. QED
    BY <1>2, <2>1, <2>2, <2>3 DEF BrokerTypeOK
<1>4. KeyInv
  BY DEF BrokerInit, KeyInv
<1>5. RowsInv
  BY <1>1 DEF BrokerInit, RowsInv
<1>6. QED
  BY <1>3, <1>4, <1>5 DEF IInv

LEMMA RowsNext == IInv /\ [BrokerNext]_brokerVars => IInv'
<1> SUFFICES ASSUME IInv, [BrokerNext]_brokerVars PROVE IInv'
  OBVIOUS
<1> USE DEF IInv
<1>1. CASE Open
  <2>1. BrokerTypeOK'
    BY <1>1, ImportsAssumption DEF Open, BrokerTypeOK, ExportRows
  <2>2. KeyInv'
    BY <1>1 DEF Open, BrokerTypeOK, KeyInv
  <2>3. RowsInv'
    BY <1>1 DEF Open, RowsInv, ExportRows
  <2>4. QED
    BY <2>1, <2>2, <2>3
<1>2. CASE ReadRow
  <2>1. PICK i \in left :
          /\ left' = left \ {i}
          /\ \/ /\ status' = "crashed"
                /\ UNCHANGED <<parsed, rejected, skipped>>
             \/ /\ Unsupported(export.rows[i])
                /\ skipped' = skipped \union {i}
                /\ UNCHANGED <<parsed, rejected, status>>
             \/ /\ ~Unsupported(export.rows[i]) /\ Accepted(export.rows[i])
                /\ parsed' = [j \in DOMAIN parsed \union {i} |->
                                IF j = i THEN TransactionOf(export.rows[i]) ELSE parsed[j]]
                /\ UNCHANGED <<rejected, skipped, status>>
             \/ /\ ~Accepted(export.rows[i])
                /\ rejected' = rejected \union {i}
                /\ UNCHANGED <<parsed, skipped, status>>
    BY <1>2 DEF ReadRow
  <2>2. status = "reading" /\ UNCHANGED <<entries, imports, export, written, repeated>>
    BY <1>2 DEF ReadRow
  <2>3. i \in ExportRows
    BY <2>1 DEF BrokerTypeOK
  <2>4. ExportRows' = ExportRows
    BY <2>2 DEF ExportRows
  <2>5. \A k \in DOMAIN parsed' : \/ k \in DOMAIN parsed /\ parsed'[k] = parsed[k]
                                  \/ /\ k = i /\ parsed'[k] = TransactionOf(export.rows[i])
                                     /\ Accepted(export.rows[i]) /\ ~Unsupported(export.rows[i])
    BY <2>1
  <2>6. BrokerTypeOK'
    <3>1. \A k \in DOMAIN parsed' : Valid(parsed'[k])
      BY <2>5 DEF BrokerTypeOK, Accepted
    <3>2. left' \subseteq ExportRows' /\ status' \in {"idle", "reading", "reported", "crashed"}
      BY <2>1, <2>2, <2>4 DEF BrokerTypeOK
    <3>3. QED
      BY <2>2, <3>1, <3>2 DEF BrokerTypeOK
  <2>7. KeyInv'
    BY <2>2, <2>1 DEF KeyInv
  <2>8. RowsInv'
    <3>1. status' \in {"reading", "reported"} =>
            ExportRows' = left' \union DOMAIN parsed' \union rejected' \union skipped'
      BY <2>1, <2>2, <2>3, <2>4 DEF RowsInv
    <3>2. status' # "reported"
      BY <2>1, <2>2
    <3>3. DOMAIN parsed' \subseteq ExportRows'
      BY <2>3, <2>4, <2>5 DEF RowsInv
    <3>4. \A k \in DOMAIN parsed' :
            /\ parsed'[k] = TransactionOf(export.rows[k])
            /\ Accepted(export.rows[k]) /\ ~Unsupported(export.rows[k])
      BY <2>5 DEF RowsInv
    <3>5. \A k \in rejected' : ~Accepted(export.rows[k])
      BY <2>1 DEF RowsInv
    <3>6. \A k \in skipped' : Unsupported(export.rows[k])
      BY <2>1 DEF RowsInv
    <3>7. QED
      BY <2>2, <3>1, <3>2, <3>3, <3>4, <3>5, <3>6 DEF RowsInv
  <2>9. QED
    BY <2>6, <2>7, <2>8
<1>3. CASE Report
  <2>1. BrokerTypeOK'
    BY <1>3 DEF Report, BrokerTypeOK, ExportRows, reading
  <2>2. KeyInv'
    BY <1>3 DEF Report, KeyInv, reading
  <2>3. RowsInv'
    BY <1>3 DEF Report, RowsInv, ExportRows, reading
  <2>4. QED
    BY <2>1, <2>2, <2>3
<1>4. CASE Apply
  <2> DEFINE New == {[key |-> <<imports, i>>, is |-> parsed[i]] : i \in Proposed}
  <2>1. /\ status = "reported" /\ status' = "idle" /\ entries' = entries \union New
        /\ written' = written \union {export} /\ repeated' = (repeated \/ RepeatsId)
        /\ UNCHANGED <<imports, export, left, parsed, rejected, skipped>>
    BY <1>4 DEF Apply, reading
  <2>2. \A d \in New : d.key[1] = imports
    OBVIOUS
  <2>3. \A d, e \in entries' : d.key = e.key => d = e
    <3> SUFFICES ASSUME NEW d \in entries', NEW e \in entries', d.key = e.key
                 PROVE  d = e
      OBVIOUS
    <3>1. CASE d \in entries /\ e \in entries
      BY <3>1 DEF BrokerTypeOK
    <3>2. CASE d \in New /\ e \in New
      BY <3>2
    <3>3. \A c \in entries : c.key[1] # imports
      BY <2>1 DEF KeyInv, BrokerTypeOK
    <3>4. QED
      BY <2>1, <2>2, <3>1, <3>2, <3>3
  <2>4. repeated' \in BOOLEAN
    BY <2>1 DEF RepeatsId, BrokerTypeOK
  <2>5. BrokerTypeOK'
    BY <2>1, <2>3, <2>4 DEF BrokerTypeOK, ExportRows
  <2>6. KeyInv'
    BY <2>1, <2>2 DEF KeyInv, BrokerTypeOK
  <2>7. RowsInv'
    BY <2>1 DEF RowsInv, ExportRows
  <2>8. QED
    BY <2>5, <2>6, <2>7
<1>5. CASE UNCHANGED brokerVars
  <2>1. BrokerTypeOK' /\ KeyInv' /\ RowsInv'
    BY <1>5 DEF BrokerTypeOK, KeyInv, RowsInv, ExportRows, brokerVars, reading
  <2>2. QED
    BY <2>1
<1>6. QED
  BY <1>1, <1>2, <1>3, <1>4, <1>5 DEF BrokerNext

LEMMA IInvHolds == BrokerSpec => []IInv
BY RowsInit, RowsNext, PTL DEF BrokerSpec

\* The rows of an export are told apart, the transactions made of them are
\* valid, and entries have keys of their own (_row_to_transaction, __post_init__).
THEOREM BrokerTypeCorrect == BrokerSpec => []BrokerTypeOK
<1>1. IInv => BrokerTypeOK
  BY DEF IInv
<1>2. QED
  BY <1>1, IInvHolds, PTL

\* Every row is proposed, a duplicate, refused or warned about, or has the id
\* of a duplicate (parse, build_import_report).
THEOREM RowsAreAnswered == BrokerSpec => []EveryRowIsAnswered
<1>1. IInv => EveryRowIsAnswered
  <2> SUFFICES ASSUME IInv, status = "reported", NEW i \in ExportRows
               PROVE  \/ i \in Proposed \/ i \in Duplicates \/ i \in rejected \/ i \in skipped
                      \/ \E d \in Duplicates \ {i} : parsed[i].id = parsed[d].id
    BY DEF EveryRowIsAnswered
  <2>1. i \in DOMAIN parsed \/ i \in rejected \/ i \in skipped
    BY DEF IInv, RowsInv
  <2>2. QED
    BY <2>1, AnsweredOrShared
<1>2. QED
  BY <1>1, IInvHolds, PTL

\* The counts of a report add up unless the export repeats an id
\* (build_import_report).
THEOREM CountsAddUpAlways == BrokerSpec => []CountsAddUp
<1>1. IInv => CountsAddUp
  <2> SUFFICES ASSUME IInv,
                      \A i, j \in DOMAIN parsed : parsed[i].id = parsed[j].id => i = j
               PROVE  Cardinality(Proposed) + Cardinality(Duplicates) + Cardinality(rejected)
                        = Cardinality(DOMAIN parsed) + Cardinality(rejected)
    BY DEF CountsAddUp, TransactionsRead
  <2>1. IsFiniteSet(DOMAIN parsed)
    BY ParsedIsFinite DEF IInv
  <2>2. Proposed \subseteq DOMAIN parsed /\ Duplicates \subseteq DOMAIN parsed
    BY DEF Proposed, Duplicates
  <2>3. Proposed = DOMAIN parsed \ Duplicates
    BY <2>2 DEF Proposed
  <2>4. IsFiniteSet(Duplicates) /\ IsFiniteSet(Proposed)
    BY <2>1, <2>2, FS_Subset
  <2>5. Cardinality(DOMAIN parsed) =
          Cardinality(Proposed) + Cardinality(Duplicates) - Cardinality(Proposed \intersect Duplicates)
    <3>1. DOMAIN parsed = Proposed \union Duplicates
      BY <2>2, <2>3
    <3>2. QED
      BY <2>4, <3>1, FS_Union
  <2>6. Proposed \intersect Duplicates = {}
    BY <2>3
  <2>7. Cardinality(Proposed \intersect Duplicates) = 0
    BY <2>6, FS_EmptySet
  <2>8. Cardinality(Proposed) \in Int /\ Cardinality(Duplicates) \in Int
    BY <2>4, FS_CardinalityType
  <2>9. Cardinality(DOMAIN parsed) = Cardinality(Proposed) + Cardinality(Duplicates)
    BY <2>5, <2>7, <2>8
  <2>10. QED
    BY <2>9
<1>2. QED
  BY <1>1, IInvHolds, PTL

----------------------------------------------------------------------------
(* The log *)

LogInv == NothingEnteredTwice /\ ReadableUnlessRepeated /\ AppliedInv

LEMMA LogInit == BrokerInit => LogInv
<1> SUFFICES ASSUME BrokerInit PROVE LogInv
  OBVIOUS
<1>1. NothingEnteredTwice
  BY DEF BrokerInit, NothingEnteredTwice
<1>2. ReadableUnlessRepeated
  BY DEF BrokerInit, ReadableUnlessRepeated, LogReadable
<1>3. AppliedInv
  BY DEF BrokerInit, AppliedInv
<1>4. QED
  BY <1>1, <1>2, <1>3 DEF LogInv

\* What an applied import does: its proposed rows are none of those that the
\* log has, so only they can share an id among themselves.
LEMMA ApplyKeepsLog == IInv /\ LogInv /\ Apply => LogInv'
<1> SUFFICES ASSUME IInv, LogInv, Apply PROVE LogInv'
  OBVIOUS
<1> DEFINE New == {[key |-> <<imports, i>>, is |-> parsed[i]] : i \in Proposed}
<1>1. /\ status = "reported" /\ entries' = entries \union New
      /\ written' = written \union {export} /\ repeated' = (repeated \/ RepeatsId)
      /\ UNCHANGED <<imports, export, left, parsed, rejected, skipped>>
  BY DEF Apply, reading
<1>2. \A c \in entries : c.key[1] \in Int /\ c.key[1] < imports
  BY <1>1 DEF IInv, KeyInv
<1>3. \A e \in New : /\ e.key[1] = imports
                    /\ \E i \in Proposed : e = [key |-> <<imports, i>>, is |-> parsed[i]]
  OBVIOUS
<1>4. \A e \in New, d \in entries : ~IsDuplicateOf(e.is, d.is)
  <2> SUFFICES ASSUME NEW e \in New, NEW d \in entries PROVE ~IsDuplicateOf(e.is, d.is)
    OBVIOUS
  <2>1. PICK i \in Proposed : e = [key |-> <<imports, i>>, is |-> parsed[i]]
    BY <1>3
  <2>2. e.is = parsed[i]
    BY <2>1
  <2>3. QED
    BY <2>2, ProposedIsNew
<1>5. imports \in Int
  BY DEF IInv, BrokerTypeOK
<1> HIDE DEF New
<1>6. NothingEnteredTwice'
  <2> SUFFICES ASSUME NEW d \in entries \union New, NEW e \in entries \union New, d.key[1] < e.key[1]
               PROVE  d.is.id # e.is.id /\ ~SameTrade(e.is, d.is)
    BY <1>1 DEF NothingEnteredTwice, SameTrade, Close, Magnitude
  <2>1. CASE d \in entries /\ e \in entries
    BY <2>1 DEF LogInv, NothingEnteredTwice
  <2>2. CASE d \in entries /\ e \in New
    BY <2>2, <1>4 DEF IsDuplicateOf
  <2>3. CASE d \in New
    BY <2>3, <1>2, <1>3, <1>5
  <2>4. QED
    BY <2>1, <2>2, <2>3
<1>7. ReadableUnlessRepeated'
  <2> SUFFICES ASSUME ~repeated', NEW d \in entries \union New, NEW e \in entries \union New,
                      d.is.id = e.is.id
               PROVE  d = e
    BY <1>1 DEF ReadableUnlessRepeated, LogReadable
  <2>1. ~repeated /\ ~RepeatsId
    BY <1>1 DEF IInv, BrokerTypeOK
  <2>2. CASE d \in entries /\ e \in entries
    BY <2>1, <2>2 DEF LogInv, ReadableUnlessRepeated, LogReadable
  <2>3. CASE d \in New /\ e \in New
    <3>1. PICK i \in Proposed : d = [key |-> <<imports, i>>, is |-> parsed[i]]
      BY <1>3, <2>3
    <3>2. PICK j \in Proposed : e = [key |-> <<imports, j>>, is |-> parsed[j]]
      BY <1>3, <2>3
    <3>3. parsed[i].id = parsed[j].id
      BY <3>1, <3>2
    <3>4. i = j
      BY <2>1, <3>3 DEF RepeatsId
    <3>5. QED
      BY <3>1, <3>2, <3>4
  <2>4. ~(d \in entries /\ e \in New) /\ ~(d \in New /\ e \in entries)
    BY <1>4 DEF IsDuplicateOf
  <2>5. QED
    BY <2>2, <2>3, <2>4
<1>8. AppliedInv'
  <2> DEFINE Answered(x, j) ==
               \/ \E e \in entries' : IsDuplicateOf(TransactionOf(x.rows[j]), e.is)
               \/ \E k \in DOMAIN x.rows \ {j} :
                    /\ Accepted(x.rows[k])
                    /\ TransactionOf(x.rows[k]).id = TransactionOf(x.rows[j]).id
  <2> SUFFICES ASSUME NEW x \in written \union {export}, NEW j \in DOMAIN x.rows,
                      x.sound, Accepted(x.rows[j]), ~Unsupported(x.rows[j])
               PROVE  Answered(x, j)
    BY <1>1 DEF AppliedInv, IsDuplicateOf, SameTrade, Close, Magnitude
  <2>1. CASE x \in written
    BY <2>1, <1>1 DEF LogInv, AppliedInv
  <2>2. CASE x = export
    <3>1. j \in DOMAIN parsed
      BY <2>2, <1>1 DEF IInv, RowsInv, ExportRows
    <3>2. parsed[j] = TransactionOf(x.rows[j])
      BY <2>2, <3>1 DEF IInv, RowsInv
    <3>3. CASE j \in Proposed
      <4>1. [key |-> <<imports, j>>, is |-> parsed[j]] \in New
        BY <3>3 DEF New
      <4>2. \E e \in entries' : e.is = parsed[j]
        BY <4>1, <1>1
      <4>3. QED
        BY <4>2, <3>2 DEF IsDuplicateOf
    <3>4. CASE j \in Duplicates
      BY <3>4, <3>2, <1>1 DEF Duplicates, Known
    <3>5. CASE \E d \in Duplicates \ {j} : parsed[j].id = parsed[d].id
      <4>1. PICK d \in Duplicates \ {j} : parsed[j].id = parsed[d].id
        BY <3>5
      <4>2. d \in DOMAIN parsed
        BY DEF Duplicates
      <4>3. /\ parsed[d] = TransactionOf(x.rows[d]) /\ Accepted(x.rows[d])
            /\ d \in DOMAIN x.rows
        BY <4>2, <2>2 DEF IInv, RowsInv, ExportRows
      <4>4. QED
        BY <4>1, <4>3, <3>2
    <3>6. QED
      BY <3>1, <3>3, <3>4, <3>5, AnsweredOrShared
  <2>3. QED
    BY <2>1, <2>2
<1>9. QED
  BY <1>6, <1>7, <1>8 DEF LogInv

LEMMA LogNext == IInv /\ LogInv /\ [BrokerNext]_brokerVars => LogInv'
<1> SUFFICES ASSUME IInv, LogInv, [BrokerNext]_brokerVars PROVE LogInv'
  OBVIOUS
<1>1. CASE Apply
  BY <1>1, ApplyKeepsLog
<1>2. CASE ~Apply
  <2>1. UNCHANGED <<entries, written, repeated>>
    BY <1>2 DEF BrokerNext, Open, ReadRow, Report, brokerVars, reading
  <2>2. NothingEnteredTwice'
    BY <2>1 DEF LogInv, NothingEnteredTwice, SameTrade, Close, Magnitude
  <2>3. ReadableUnlessRepeated'
    BY <2>1 DEF LogInv, ReadableUnlessRepeated, LogReadable
  <2>4. AppliedInv'
    BY <2>1 DEF LogInv, AppliedInv
  <2>5. QED
    BY <2>2, <2>3, <2>4 DEF LogInv
<1>3. QED
  BY <1>1, <1>2

LEMMA LogInvHolds == BrokerSpec => []LogInv
BY LogInit, LogNext, IInvHolds, PTL DEF BrokerSpec

\* No trade enters the log by two imports, whatever formats and ids they have
\* (detect_duplicates, build_import_report, apply_import).
THEOREM NoTradeTwice == BrokerSpec => []NothingEnteredTwice
<1>1. LogInv => NothingEnteredTwice
  BY DEF LogInv
<1>2. QED
  BY <1>1, LogInvHolds, PTL

\* Only an export that gives two proposed rows one id makes the log unreadable
\* (build_import_report, YamlRepository._load_transactions).
THEOREM LogStaysReadable == BrokerSpec => []ReadableUnlessRepeated
<1>1. LogInv => ReadableUnlessRepeated
  BY DEF LogInv
<1>2. QED
  BY <1>1, LogInvHolds, PTL

\* A row of an applied export is not proposed again, unless that export gave
\* its id to another row (deterministic_transaction_id, detect_duplicates).
THEOREM AppliedStaysKnown == BrokerSpec => []AppliedIsNotProposed
<1>1. IInv /\ LogInv => AppliedIsNotProposed
  <2> SUFFICES ASSUME IInv, LogInv, NEW i \in Proposed, NEW x \in written,
                      NEW j \in DOMAIN x.rows, x.sound, x.rows[j] = export.rows[i]
               PROVE  \E k \in DOMAIN x.rows \ {j} :
                        Accepted(x.rows[k]) /\ TransactionOf(x.rows[k]).id = parsed[i].id
    BY DEF AppliedIsNotProposed
  <2>1. i \in DOMAIN parsed
    BY DEF Proposed
  <2>2. /\ parsed[i] = TransactionOf(x.rows[j])
        /\ Accepted(x.rows[j]) /\ ~Unsupported(x.rows[j])
    BY <2>1 DEF IInv, RowsInv
  <2>3. ~\E e \in entries : IsDuplicateOf(TransactionOf(x.rows[j]), e.is)
    BY <2>2, ProposedIsNew
  <2>4. QED
    BY <2>2, <2>3 DEF LogInv, AppliedInv
<1>2. QED
  BY <1>1, IInvHolds, LogInvHolds, PTL
=============================================================================
