---------------------- MODULE YamlPortfolioWriter_proofs ----------------------
(***************************************************************************)
(* Proofs about YamlPortfolioWriter for any calls, batches and crashes: its *)
(* type invariant, and, for calls that do not overlap, that it implements  *)
(* PortfolioFile, never shows a half-written file and keeps the backup.    *)
(***************************************************************************)
EXTENDS YamlPortfolioWriter, SequenceTheorems, TLAPS

LEMMA InodesFacts ==
  /\ Original \in Inodes
  /\ \A w \in Writers : <<w, "tmp">> \in Inodes /\ <<w, "bak">> \in Inodes
  /\ None \notin Inodes
BY NoneAssumption DEF Inodes, Original

LEMMA EntriesInType ==
  ASSUME TypeOK, NEW name \in Names
  PROVE  EntriesIn(name) \in Lists
<1>1. <<>> \in Lists
  BY DEF Lists
<1>2. names[name] # None => names[name] \in Inodes
  BY DEF TypeOK
<1> QED
  BY <1>1, <1>2 DEF EntriesIn, Exists, TypeOK

LEMMA TypeInit == Init => TypeOK
<1> SUFFICES ASSUME Init PROVE TypeOK
  OBVIOUS
<1>1. <<>> \in Lists /\ \A b \in Batches : b \in Lists
  BY BatchAssumption DEF Lists
<1>2. names \in [Names -> Inodes \union {None}]
  BY InodesFacts DEF Init
<1>3. disk \in [Inodes -> Lists]
  BY <1>1 DEF Init
<1>4. pc \in [Writers -> Running \union Outcomes \union {"idle"}]
  BY DEF Init
<1>5. /\ batch \in [Writers -> Lists] /\ text \in [Writers -> Lists]
      /\ saved \in [Writers -> Lists] /\ open \in [Writers -> Inodes]
  BY <1>1, InodesFacts DEF Init
<1>6. crashes \in 0 .. MaxCrashes
  BY CrashAssumption DEF Init
<1>7. whole \subseteq Inodes
  BY InodesFacts DEF Init
<1> QED
  BY <1>2, <1>3, <1>4, <1>5, <1>6, <1>7 DEF Init, TypeOK

\* Every step keeps the types, overlapping calls included.
LEMMA TypeNext == TypeOK /\ [Next]_vars => TypeOK'
<1> SUFFICES ASSUME TypeOK, [Next]_vars PROVE TypeOK'
  OBVIOUS
<1> USE DEF Running, Outcomes, Goto, files, memory
<1>0. \A w \in Writers : <<w, "tmp">> \in Inodes /\ <<w, "bak">> \in Inodes
  BY InodesFacts
<1>1. ASSUME NEW w \in Writers, Start(w) PROVE TypeOK'
  <2>1. batch' \in [Writers -> Lists]
    BY <1>1, BatchAssumption DEF Start, TypeOK, Lists
  <2> QED
    BY <1>1, <2>1 DEF Start, TypeOK
<1>2. ASSUME NEW w \in Writers, AppendRead(w) PROVE TypeOK'
  <2>1. EntriesIn("target") \in Lists /\ batch[w] \in Lists
    BY EntriesInType DEF Names, TypeOK
  <2>2. EntriesIn("target") \o batch[w] \in Lists
    BY <2>1, ConcatProperties DEF Lists
  <2> QED
    BY <1>2, <2>2 DEF AppendRead, TypeOK
<1>3. ASSUME NEW w \in Writers, CreateCheck(w) PROVE TypeOK'
  BY <1>3 DEF CreateCheck, TypeOK
<1>4. ASSUME NEW w \in Writers, Save(w) PROVE TypeOK'
  <2>1. EntriesIn("target") \in Lists
    BY EntriesInType DEF Names
  <2> QED
    BY <1>4, <2>1 DEF Save, TypeOK
<1>5. ASSUME NEW w \in Writers, NEW name \in {"bak", "tmp"}, Open(w, name)
      PROVE  /\ names' \in [Names -> Inodes \union {None}]
             /\ disk' \in [Inodes -> Lists]
             /\ whole' \subseteq Inodes
             /\ open' \in [Writers -> Inodes]
  <2> DEFINE inode == IF Exists(name) THEN names[name] ELSE <<w, name>>
  <2>1. inode \in Inodes
    BY <1>0 DEF Exists, TypeOK, Names
  <2>2. <<>> \in Lists
    BY DEF Lists
  <2>3. /\ names' = [names EXCEPT ![name] = inode]
        /\ disk' = [disk EXCEPT ![inode] = <<>>]
        /\ whole' = whole \ {inode}
        /\ open' = [open EXCEPT ![w] = inode]
    BY <1>5 DEF Open
  <2> QED
    BY <2>1, <2>2, <2>3 DEF TypeOK
<1>6. ASSUME NEW w \in Writers, OpenBackup(w) PROVE TypeOK'
  BY <1>5, <1>6 DEF OpenBackup, TypeOK
<1>7. ASSUME NEW w \in Writers, OpenTemporary(w) PROVE TypeOK'
  BY <1>5, <1>7 DEF OpenTemporary, TypeOK
<1>8. ASSUME NEW w \in Writers, WriteBackup(w) PROVE TypeOK'
  BY <1>8 DEF WriteBackup, Write, TypeOK
<1>9. ASSUME NEW w \in Writers, WriteTemporary(w) PROVE TypeOK'
  BY <1>9 DEF WriteTemporary, Write, TypeOK
<1>10. ASSUME NEW w \in Writers, Replace(w) PROVE TypeOK'
  <2>1. EntriesIn("target") \in Lists
    BY EntriesInType DEF Names
  <2>2. names' \in [Names -> Inodes \union {None}]
    BY <1>10 DEF Replace, TypeOK, Names
  <2> QED
    BY <1>10, <2>1, <2>2 DEF Replace, TypeOK
<1>11. ASSUME NEW w \in Writers, OSErrorRaised(w) PROVE TypeOK'
  BY <1>11 DEF OSErrorRaised, TypeOK
<1>12. ASSUME Crash PROVE TypeOK'
  <2>1. crashes' \in 0 .. MaxCrashes
    BY <1>12, CrashAssumption DEF Crash, TypeOK
  <2> QED
    BY <1>12, <2>1 DEF Crash, TypeOK
<1>13. CASE UNCHANGED vars
  BY <1>13 DEF vars, TypeOK
<1> QED
  BY <1>1, <1>2, <1>3, <1>4, <1>6, <1>7, <1>8, <1>9, <1>10, <1>11, <1>12, <1>13 DEF Next

\* The writer's variables keep their types, however its calls overlap.
THEOREM WriterTypeCorrect == Spec => []TypeOK
BY TypeInit, TypeNext, PTL DEF Spec

----------------------------------------------------------------------------
(* Calls that do not overlap *)

\* Steps in which the names a call has not opened stay as they are.
LEMMA SerialInit == Init => SerialInv
<1> SUFFICES ASSUME Init PROVE SerialInv
  OBVIOUS
<1>1. TypeOK
  BY TypeInit
<1>2. \A w \in Writers : pc[w] = "idle"
  BY DEF Init
<1>3. \/ \A n \in Names : names[n] = None
      \/ names["target"] = Original /\ names["bak"] = None /\ names["tmp"] = None
  BY DEF Init, Names
<1>4. OwnFiles
  <2>1. Original # None
    BY InodesFacts
  <2>2. \A w \in Writers : <<w, "tmp">> # None /\ <<w, "tmp">> # Original
    BY InodesFacts DEF Original
  <2> QED
    BY <1>3, <2>1, <2>2 DEF OwnFiles, Names
<1>5. \A w \in Writers : Prepared(w)
  BY <1>2 DEF Prepared, Running
<1>6. NeverHalfWritten
  BY <1>3 DEF Init, NeverHalfWritten, Exists, Names
<1>7. replaced = {}
  BY DEF Init
<1> QED
  BY <1>1, <1>2, <1>4, <1>5, <1>6, <1>7 DEF SerialInv, BackupIsPrevious, Running

\* While one call runs, what the others rely on holds because none runs.
LEMMA OthersPrepared ==
  ASSUME NEW w \in Writers, \A v \in Writers \ {w} : pc[v] \notin Running
  PROVE  \A v \in Writers \ {w} : Prepared(v)
BY DEF Prepared, Running

\* What a file in the target's place, a backup and a temporary file may be.
LEMMA FilesApart ==
  ASSUME OwnFiles, Exists("target"), NEW i \in Inodes
  PROVE  /\ i \in Writers \X {"bak"} => i # names["target"]
         /\ i = names["bak"] => i # names["target"]
         /\ i = names["tmp"] => i # names["target"]
BY NoneAssumption DEF OwnFiles, Exists, Original

\* The parts of the invariant other than TypeOK and SerialInv's per-call one,
\* and the per-call one for the call that moves, make the whole.
LEMMA SerialFrom ==
  ASSUME SerialInv, TypeOK', NEW w \in Writers, pc[w] \in Running, NEW step,
         pc' = [pc EXCEPT ![w] = step],
         OwnFiles', Prepared(w)', NeverHalfWritten', BackupIsPrevious',
         step \in Running => replaced' = {}
  PROVE  SerialInv'
<1>1. \A v \in Writers \ {w} : pc[v] \notin Running /\ pc'[v] = pc[v]
  BY DEF SerialInv, TypeOK
<1>2. pc'[w] = step
  BY DEF SerialInv, TypeOK
<1>3. \A v \in Writers \ {w} : Prepared(v)'
  BY <1>1 DEF Prepared, Running
<1>4. \A u, v \in Writers : pc'[u] \in Running /\ pc'[v] \in Running => u = v
  BY <1>1
<1>5. (\E v \in Writers : pc'[v] \in Running) => replaced' = {}
  BY <1>1, <1>2
<1> QED
  BY <1>3, <1>4, <1>5 DEF SerialInv

LEMMA SerialNext == ~MayOverlap /\ SerialInv /\ [Next]_vars => SerialInv'
<1> SUFFICES ASSUME ~MayOverlap, SerialInv, [Next]_vars PROVE SerialInv'
  OBVIOUS
<1> USE DEF Running, Outcomes, Goto, files, memory
<1>0. TypeOK /\ TypeOK' /\ OwnFiles /\ NeverHalfWritten
  BY TypeNext DEF SerialInv
<1>n. {"target", "bak", "tmp"} = Names
  BY DEF Names
<1>1. ASSUME NEW w \in Writers, Start(w) PROVE SerialInv'
  <2>1. \A v \in Writers : pc[v] \notin Running
    BY <1>1 DEF Start
  <2>2. pc' = [pc EXCEPT ![w] = "read"] /\ \E b \in Batches : batch' = [batch EXCEPT ![w] = b]
    BY <1>1 DEF Start
  <2>3. UNCHANGED <<names, disk, whole>> /\ replaced' = {}
    BY <1>1 DEF Start
  <2>4. \A v \in Writers : pc'[v] = "read" \/ pc'[v] \notin Running
    BY <1>0, <2>1, <2>2 DEF TypeOK
  <2>5. batch'[w] \in Batches
    BY <1>0, <2>2 DEF TypeOK
  <2>6. \A v \in Writers : Prepared(v)'
    BY <1>0, <2>1, <2>2, <2>4, <2>5 DEF Prepared, TypeOK
  <2>7. OwnFiles'
    BY <1>0, <1>1, <2>2, <2>3 DEF Start, OwnFiles, TypeOK
  <2>8. \A u, v \in Writers : pc'[u] \in Running /\ pc'[v] \in Running => u = v
    BY <1>0, <2>1, <2>2 DEF TypeOK
  <2>9. NeverHalfWritten' /\ BackupIsPrevious'
    BY <1>0, <2>3 DEF NeverHalfWritten, BackupIsPrevious, Exists
  <2> QED
    BY <1>0, <2>3, <2>6, <2>7, <2>8, <2>9 DEF SerialInv
<1>2. ASSUME NEW w \in Writers, AppendRead(w) PROVE SerialInv'
  <2>1. UNCHANGED <<kind, names, disk, whole, batch, replaced>>
    BY <1>2 DEF AppendRead
  <2>2. text'[w] = NewContent(w)' /\ pc'[w] = "save" /\ kind' # "holdings"
    BY <1>0, <1>2 DEF AppendRead, TypeOK, NewContent, EntriesIn, Exists
  <2>3. Prepared(w)'
    BY <1>2, <2>1, <2>2 DEF AppendRead, SerialInv, Prepared
  <2>4. OwnFiles'
    BY <1>0, <1>2, <2>1 DEF AppendRead, OwnFiles, TypeOK
  <2>5. NeverHalfWritten' /\ replaced' = {} /\ BackupIsPrevious'
    BY <1>2, <2>1 DEF AppendRead, SerialInv, NeverHalfWritten, BackupIsPrevious, Exists
  <2> QED
    BY <1>0, <1>2, <2>3, <2>4, <2>5, SerialFrom DEF AppendRead
<1>3. ASSUME NEW w \in Writers, CreateCheck(w) PROVE SerialInv'
  <2>1. UNCHANGED <<kind, names, disk, whole, batch, replaced>>
    BY <1>3 DEF CreateCheck
  <2>2. PICK step \in {"exists", "save"} :
          /\ pc' = [pc EXCEPT ![w] = step]
          /\ step = "save" => ~Exists("target") /\ text' = [text EXCEPT ![w] = batch[w]]
    BY <1>3 DEF CreateCheck
  <2>3. Prepared(w)'
    BY <1>0, <1>3, <2>1, <2>2
    DEF CreateCheck, SerialInv, Prepared, NewContent, TypeOK, Exists
  <2>4. OwnFiles'
    BY <1>0, <1>3, <2>1, <2>2 DEF CreateCheck, OwnFiles, TypeOK
  <2>5. NeverHalfWritten' /\ replaced' = {} /\ BackupIsPrevious'
    BY <1>3, <2>1 DEF CreateCheck, SerialInv, NeverHalfWritten, BackupIsPrevious, Exists
  <2> QED
    BY <1>0, <1>3, <2>2, <2>3, <2>4, <2>5, SerialFrom DEF CreateCheck
<1>4. ASSUME NEW w \in Writers, Save(w) PROVE SerialInv'
  <2>1. UNCHANGED <<kind, names, disk, whole, batch, text, replaced>>
    BY <1>4 DEF Save
  <2>2. PICK step \in {"openbak", "opentmp"} :
          /\ pc' = [pc EXCEPT ![w] = step]
          /\ step = "openbak" => /\ Exists("target")
                                /\ saved' = [saved EXCEPT ![w] = EntriesIn("target")]
          /\ step = "opentmp" => ~Exists("target")
    BY <1>4 DEF Save
  <2>3. Prepared(w)'
    BY <1>0, <1>4, <2>1, <2>2
    DEF Save, SerialInv, Prepared, NewContent, EntriesIn, TypeOK, Exists
  <2>4. OwnFiles'
    BY <1>0, <1>4, <2>1, <2>2 DEF Save, OwnFiles, TypeOK
  <2>5. NeverHalfWritten' /\ replaced' = {} /\ BackupIsPrevious'
    BY <1>4, <2>1 DEF Save, SerialInv, NeverHalfWritten, BackupIsPrevious, Exists
  <2> QED
    BY <1>0, <1>4, <2>2, <2>3, <2>4, <2>5, SerialFrom DEF Save
<1>5. ASSUME NEW w \in Writers, OpenBackup(w) PROVE SerialInv'
  <2> DEFINE inode == IF Exists("bak") THEN names["bak"] ELSE <<w, "bak">>
  <2>1. /\ names' = [names EXCEPT !["bak"] = inode]
        /\ disk' = [disk EXCEPT ![inode] = <<>>]
        /\ whole' = whole \ {inode}
        /\ open' = [open EXCEPT ![w] = inode]
        /\ pc' = [pc EXCEPT ![w] = "writebak"]
        /\ UNCHANGED <<kind, batch, text, saved, replaced>>
    BY <1>5 DEF OpenBackup, Open
  <2>2. inode \in Writers \X {"bak"} /\ inode \in Inodes
    BY <1>0, <1>n DEF OwnFiles, Exists, Inodes
  <2>3. names'["target"] = names["target"] /\ names'["bak"] = inode
        /\ names'["tmp"] = names["tmp"]
    BY <1>0, <1>n, <2>1 DEF TypeOK
  <2>4. Exists("target") /\ saved[w] = EntriesIn("target")
    BY <1>5 DEF OpenBackup, SerialInv, Prepared
  <2>5. inode # names["target"] /\ names["target"] \in Inodes
    BY <1>0, <1>n, <2>2, <2>4, FilesApart DEF TypeOK, Exists
  <2>6. EntriesIn("target")' = EntriesIn("target") /\ Exists("target")'
    BY <1>0, <2>1, <2>3, <2>4, <2>5 DEF EntriesIn, Exists, TypeOK
  <2>7. Exists("bak")' /\ open'[w] = inode /\ inode \notin whole'
    BY <1>0, <2>1, <2>2, <2>3, InodesFacts DEF Exists, TypeOK
  <2>8. Prepared(w)'
    BY <1>0, <1>5, <2>1, <2>3, <2>4, <2>6, <2>7
    DEF OpenBackup, SerialInv, Prepared, NewContent, TypeOK
  <2>9. OwnFiles'
    BY <1>0, <1>5, <2>1, <2>2, <2>3 DEF OpenBackup, OwnFiles, TypeOK
  <2>10. NeverHalfWritten' /\ replaced' = {} /\ BackupIsPrevious'
    BY <1>0, <1>5, <2>1, <2>3, <2>4, <2>5
    DEF OpenBackup, SerialInv, NeverHalfWritten, BackupIsPrevious, Exists
  <2> QED
    BY <1>0, <1>5, <2>1, <2>8, <2>9, <2>10, SerialFrom DEF OpenBackup
<1>6. ASSUME NEW w \in Writers, WriteBackup(w) PROVE SerialInv'
  <2> DEFINE inode == names["bak"]
  <2>1. /\ Exists("target") /\ saved[w] = EntriesIn("target")
        /\ Exists("bak") /\ open[w] = inode /\ inode \notin whole
    BY <1>6 DEF WriteBackup, SerialInv, Prepared
  <2>2. /\ disk' = [disk EXCEPT ![inode] = EntriesIn("target")]
        /\ whole' = whole \union {inode}
        /\ pc' = [pc EXCEPT ![w] = "opentmp"]
        /\ UNCHANGED <<kind, names, batch, text, saved, open, replaced>>
    BY <1>6, <2>1 DEF WriteBackup, Write
  <2>3. inode \in Inodes /\ names["target"] \in Inodes /\ inode # names["target"]
    BY <1>0, <1>n, <2>1, FilesApart DEF TypeOK, Exists
  <2>4. EntriesIn("target")' = EntriesIn("target") /\ Exists("target")'
    BY <1>0, <2>1, <2>2, <2>3 DEF EntriesIn, Exists, TypeOK
  <2>5. Exists("bak")' /\ inode \in whole' /\ EntriesIn("bak")' = EntriesIn("target")
    BY <1>0, <2>1, <2>2, <2>3 DEF EntriesIn, Exists, TypeOK
  <2>6. Prepared(w)'
    BY <1>0, <1>6, <2>1, <2>2, <2>4, <2>5
    DEF WriteBackup, SerialInv, Prepared, NewContent, TypeOK
  <2>7. OwnFiles'
    BY <1>0, <1>6, <2>2 DEF WriteBackup, OwnFiles, TypeOK
  <2>8. NeverHalfWritten' /\ replaced' = {} /\ BackupIsPrevious'
    BY <1>0, <1>6, <2>2
    DEF WriteBackup, SerialInv, NeverHalfWritten, BackupIsPrevious, Exists
  <2> QED
    BY <1>0, <1>6, <2>2, <2>6, <2>7, <2>8, SerialFrom DEF WriteBackup
<1>7. ASSUME NEW w \in Writers, OpenTemporary(w) PROVE SerialInv'
  <2> DEFINE inode == IF Exists("tmp") THEN names["tmp"] ELSE <<w, "tmp">>
  <2>1. /\ names' = [names EXCEPT !["tmp"] = inode]
        /\ disk' = [disk EXCEPT ![inode] = <<>>]
        /\ whole' = whole \ {inode}
        /\ open' = [open EXCEPT ![w] = inode]
        /\ pc' = [pc EXCEPT ![w] = "writetmp"]
        /\ UNCHANGED <<kind, batch, text, saved, replaced>>
    BY <1>7 DEF OpenTemporary, Open
  <2>2. inode \in Writers \X {"tmp"} /\ inode \in Inodes
    BY <1>0, <1>n DEF OwnFiles, Exists, Inodes
  <2>3. names'["target"] = names["target"] /\ names'["bak"] = names["bak"]
        /\ names'["tmp"] = inode
    BY <1>0, <1>n, <2>1 DEF TypeOK
  <2>4. inode # names["target"]
    BY <1>0, <1>7 DEF OpenTemporary, OwnFiles, Exists
  <2>5. inode # names["bak"]
    BY <1>0, <2>2, InodesFacts DEF OwnFiles
  <2>6. /\ EntriesIn("target")' = EntriesIn("target") /\ Exists("target")' = Exists("target")
        /\ EntriesIn("bak")' = EntriesIn("bak") /\ Exists("bak")' = Exists("bak")
    BY <1>0, <1>n, <2>1, <2>3, <2>4, <2>5 DEF EntriesIn, Exists, TypeOK
  <2>7. Exists("tmp")' /\ open'[w] = inode /\ inode \notin whole'
    BY <1>0, <2>1, <2>2, <2>3, InodesFacts DEF Exists, TypeOK
  <2>8. Prepared(w)'
    <3>1. text[w] = NewContent(w) /\ (kind = "holdings" => ~Exists("target"))
          /\ batch[w] \in Batches
      BY <1>7 DEF OpenTemporary, SerialInv, Prepared
    <3>2. Exists("target") => /\ Exists("bak") /\ names["bak"] \in whole
                              /\ EntriesIn("bak") = EntriesIn("target")
      BY <1>7 DEF OpenTemporary, SerialInv, Prepared
    <3>3. pc'[w] = "writetmp"
      BY <1>0, <2>1 DEF TypeOK
    <3> QED
      BY <2>1, <2>3, <2>5, <2>6, <2>7, <3>1, <3>2, <3>3 DEF Prepared, NewContent
  <2>9. OwnFiles'
    BY <1>0, <1>7, <2>1, <2>2, <2>3, <2>4 DEF OpenTemporary, OwnFiles, TypeOK
  <2>10. NeverHalfWritten' /\ replaced' = {} /\ BackupIsPrevious'
    BY <1>0, <1>7, <2>1, <2>3, <2>4
    DEF OpenTemporary, SerialInv, NeverHalfWritten, BackupIsPrevious, Exists
  <2> QED
    BY <1>0, <1>7, <2>1, <2>8, <2>9, <2>10, SerialFrom DEF OpenTemporary
<1>8. ASSUME NEW w \in Writers, WriteTemporary(w) PROVE SerialInv'
  <2> DEFINE inode == names["tmp"]
  <2>1. Exists("tmp") /\ open[w] = inode /\ inode \notin whole
    BY <1>8 DEF WriteTemporary, SerialInv, Prepared
  <2>2. /\ disk' = [disk EXCEPT ![inode] = text[w]]
        /\ whole' = whole \union {inode}
        /\ pc' = [pc EXCEPT ![w] = "replace"]
        /\ UNCHANGED <<kind, names, batch, text, saved, open, replaced>>
    BY <1>8, <2>1 DEF WriteTemporary, Write
  <2>3. inode \in Inodes /\ inode # names["target"] /\ inode # names["bak"]
    BY <1>0, <1>n, <2>1, InodesFacts DEF OwnFiles, TypeOK, Exists
  <2>4. /\ EntriesIn("target")' = EntriesIn("target") /\ Exists("target")' = Exists("target")
        /\ EntriesIn("bak")' = EntriesIn("bak") /\ Exists("bak")' = Exists("bak")
    BY <1>0, <1>n, <2>2, <2>3 DEF EntriesIn, Exists, TypeOK
  <2>5. Exists("tmp")' /\ inode \in whole' /\ EntriesIn("tmp")' = text[w]
    BY <1>0, <2>1, <2>2, <2>3 DEF EntriesIn, Exists, TypeOK
  <2>6. Prepared(w)'
    <3>1. text[w] = NewContent(w) /\ (kind = "holdings" => ~Exists("target"))
          /\ batch[w] \in Batches
      BY <1>8 DEF WriteTemporary, SerialInv, Prepared
    <3>2. Exists("target") => /\ Exists("bak") /\ names["bak"] \in whole
                              /\ EntriesIn("bak") = EntriesIn("target")
      BY <1>8 DEF WriteTemporary, SerialInv, Prepared
    <3>3. pc'[w] = "replace"
      BY <1>0, <2>2 DEF TypeOK
    <3> QED
      BY <2>2, <2>4, <2>5, <3>1, <3>2, <3>3 DEF Prepared, NewContent
  <2>7. OwnFiles'
    BY <1>0, <1>8, <2>2 DEF WriteTemporary, OwnFiles, TypeOK
  <2>8. NeverHalfWritten' /\ replaced' = {} /\ BackupIsPrevious'
    BY <1>0, <1>8, <2>2
    DEF WriteTemporary, SerialInv, NeverHalfWritten, BackupIsPrevious, Exists
  <2> QED
    BY <1>0, <1>8, <2>2, <2>6, <2>7, <2>8, SerialFrom DEF WriteTemporary
<1>9. ASSUME NEW w \in Writers, Replace(w) PROVE SerialInv'
  <2>1. /\ Exists("tmp") /\ names["tmp"] \in whole
        /\ Exists("target") => /\ Exists("bak") /\ names["bak"] \in whole
                               /\ EntriesIn("bak") = EntriesIn("target")
    BY <1>9 DEF Replace, SerialInv, Prepared
  <2>2. /\ pc' = [pc EXCEPT ![w] = "ok"]
        /\ names' = [names EXCEPT !["target"] = names["tmp"], !["tmp"] = None]
        /\ replaced' = IF Exists("target") THEN {EntriesIn("target")} ELSE {}
        /\ UNCHANGED <<kind, disk, whole, batch, text, saved, open>>
    BY <1>9, <2>1 DEF Replace
  <2>3. names'["target"] = names["tmp"] /\ names'["bak"] = names["bak"] /\ names'["tmp"] = None
    BY <1>0, <1>n, <2>2 DEF TypeOK
  <2>4. EntriesIn("bak")' = EntriesIn("bak") /\ Exists("bak")' = Exists("bak")
    BY <2>2, <2>3 DEF EntriesIn, Exists
  <2>5. Prepared(w)'
    BY <1>0, <2>2 DEF Prepared, TypeOK
  <2>6. OwnFiles'
    <3>1. names["tmp"] \in Writers \X {"tmp"}
      BY <1>0, <2>1 DEF OwnFiles, Exists
    <3>2. \A v \in Writers : <<v, "tmp">> # None
      BY InodesFacts
    <3>3. \A v \in Writers : pc'[v] = pc[v] \/ pc'[v] = "ok"
      BY <1>0, <2>2 DEF TypeOK
    <3> QED
      BY <1>0, <2>3, <3>1, <3>2, <3>3 DEF OwnFiles
  <2>7. NeverHalfWritten'
    BY <2>1, <2>2, <2>3 DEF NeverHalfWritten, Exists
  <2>8. BackupIsPrevious'
    BY <2>1, <2>2, <2>3, <2>4 DEF BackupIsPrevious
  <2> QED
    BY <1>0, <1>9, <2>2, <2>5, <2>6, <2>7, <2>8, SerialFrom DEF Replace
<1>11. ASSUME NEW w \in Writers, OSErrorRaised(w) PROVE SerialInv'
  <2>1. UNCHANGED <<kind, names, disk, whole, replaced>> /\ pc' = [pc EXCEPT ![w] = "failed"]
    BY <1>11 DEF OSErrorRaised
  <2>2. Prepared(w)'
    BY <1>0, <2>1 DEF Prepared, TypeOK
  <2>3. OwnFiles'
    BY <1>0, <2>1 DEF OwnFiles, TypeOK
  <2>4. NeverHalfWritten' /\ BackupIsPrevious'
    BY <2>1 DEF SerialInv, NeverHalfWritten, BackupIsPrevious, EntriesIn, Exists
  <2> QED
    BY <1>0, <1>11, <2>1, <2>2, <2>3, <2>4, SerialFrom DEF OSErrorRaised
<1>12. ASSUME Crash PROVE SerialInv'
  <2>1. UNCHANGED <<kind, names, disk, whole, replaced>>
    BY <1>12 DEF Crash
  <2>2. \A v \in Writers : pc'[v] \notin Running /\ (pc'[v] = "idle" => pc[v] = "idle")
    BY <1>0, <1>12 DEF Crash, TypeOK
  <2>3. \A v \in Writers : Prepared(v)'
    BY <2>2 DEF Prepared
  <2>4. OwnFiles'
    BY <1>0, <2>1, <2>2 DEF OwnFiles
  <2>5. NeverHalfWritten' /\ BackupIsPrevious'
    BY <2>1 DEF SerialInv, NeverHalfWritten, BackupIsPrevious, EntriesIn, Exists
  <2> QED
    BY <1>0, <2>2, <2>3, <2>4, <2>5 DEF SerialInv
<1>13. CASE UNCHANGED vars
  BY <1>0, <1>13
  DEF vars, SerialInv, OwnFiles, Prepared, NewContent, NeverHalfWritten,
      BackupIsPrevious, EntriesIn, Exists
<1> QED
  BY <1>1, <1>2, <1>3, <1>4, <1>5, <1>6, <1>7, <1>8, <1>9, <1>11, <1>12, <1>13 DEF Next

----------------------------------------------------------------------------
(* What follows for calls that do not overlap *)

\* What the inductive invariant gives at the rename: the temporary file holds
\* the file's new content.
LEMMA ReplaceStep ==
  ASSUME SerialInv, NEW w \in Writers, Replace(w)
  PROVE  /\ Exists("target")'
         /\ EntriesIn("target")' = NewContent(w)
         /\ batch[w] \in Batches
         /\ kind = "holdings" => ~Exists("target")
         /\ pc' = [pc EXCEPT ![w] = "ok"]
<1>1. /\ Exists("tmp") /\ EntriesIn("tmp") = text[w] /\ text[w] = NewContent(w)
      /\ batch[w] \in Batches
      /\ kind = "holdings" => ~Exists("target")
  BY DEF Replace, SerialInv, Prepared, Running
<1>2. /\ pc' = [pc EXCEPT ![w] = "ok"]
      /\ names' = [names EXCEPT !["target"] = names["tmp"], !["tmp"] = None]
      /\ disk' = disk
  BY <1>1 DEF Replace, Goto
<1>3. names'["target"] = names["tmp"]
  BY <1>2 DEF SerialInv, TypeOK, Names
<1> QED
  BY <1>1, <1>2, <1>3 DEF Exists, EntriesIn

\* No other step touches the target, or ends a call with "ok".
LEMMA OtherSteps ==
  ASSUME SerialInv, [Next]_vars, \A w \in Writers : ~Replace(w)
  PROVE  /\ EntriesIn("target")' = EntriesIn("target")
         /\ Exists("target")' = Exists("target")
         /\ \A w \in Writers : pc'[w] = "ok" => pc[w] = "ok"
<1> USE DEF Running, Outcomes, Goto, files, memory
<1>0. TypeOK /\ OwnFiles
  BY DEF SerialInv
<1>1. ASSUME NEW i \in Inodes, NEW w \in Writers, NEW name \in {"bak", "tmp"},
             Exists("target") => i # names["target"],
             names'["target"] = names["target"],
             \A j \in Inodes : j # i => disk'[j] = disk[j]
      PROVE  /\ EntriesIn("target")' = EntriesIn("target")
             /\ Exists("target")' = Exists("target")
  <2>1. Exists("target") => names["target"] \in Inodes
    BY <1>0 DEF Exists, TypeOK, Names
  <2> QED
    BY <1>1, <2>1 DEF EntriesIn, Exists
<1>2. ASSUME UNCHANGED <<names, disk>>
      PROVE  /\ EntriesIn("target")' = EntriesIn("target")
             /\ Exists("target")' = Exists("target")
  BY <1>2 DEF EntriesIn, Exists
<1>3. ASSUME NEW w \in Writers, NEW step, pc' = [pc EXCEPT ![w] = step], step # "ok"
      PROVE  \A v \in Writers : pc'[v] = "ok" => pc[v] = "ok"
  BY <1>0, <1>3 DEF TypeOK
<1>4. ASSUME NEW w \in Writers,
             Start(w) \/ AppendRead(w) \/ CreateCheck(w) \/ Save(w) \/ OSErrorRaised(w)
      PROVE  /\ UNCHANGED <<names, disk>>
             /\ \E step \in (Running \union Outcomes) \ {"ok"} : pc' = [pc EXCEPT ![w] = step]
  BY <1>4 DEF Start, AppendRead, CreateCheck, Save, OSErrorRaised
<1>5. ASSUME NEW w \in Writers, OpenBackup(w)
      PROVE  /\ EntriesIn("target")' = EntriesIn("target")
             /\ Exists("target")' = Exists("target")
  <2> DEFINE inode == IF Exists("bak") THEN names["bak"] ELSE <<w, "bak">>
  <2>1. inode \in Writers \X {"bak"} /\ inode \in Inodes
    BY <1>0 DEF OwnFiles, Exists, Inodes
  <2>2. Exists("target") => inode # names["target"]
    BY <1>0, <2>1, FilesApart
  <2>3. names' = [names EXCEPT !["bak"] = inode] /\ disk' = [disk EXCEPT ![inode] = <<>>]
    BY <1>5 DEF OpenBackup, Open
  <2>4. names'["target"] = names["target"] /\ \A j \in Inodes : j # inode => disk'[j] = disk[j]
    BY <1>0, <2>3 DEF TypeOK, Names
  <2> QED
    BY <1>1, <2>1, <2>2, <2>4
<1>6. ASSUME NEW w \in Writers, OpenTemporary(w)
      PROVE  /\ EntriesIn("target")' = EntriesIn("target")
             /\ Exists("target")' = Exists("target")
  <2> DEFINE inode == IF Exists("tmp") THEN names["tmp"] ELSE <<w, "tmp">>
  <2>1. inode \in Writers \X {"tmp"} /\ inode \in Inodes
    BY <1>0 DEF OwnFiles, Exists, Inodes
  <2>2. inode # names["target"]
    BY <1>0, <1>6 DEF OpenTemporary, OwnFiles, Exists
  <2>3. names' = [names EXCEPT !["tmp"] = inode] /\ disk' = [disk EXCEPT ![inode] = <<>>]
    BY <1>6 DEF OpenTemporary, Open
  <2>4. names'["target"] = names["target"] /\ \A j \in Inodes : j # inode => disk'[j] = disk[j]
    BY <1>0, <2>3 DEF TypeOK, Names
  <2> QED
    BY <1>1, <2>1, <2>2, <2>4
<1>7. ASSUME NEW w \in Writers, WriteBackup(w) \/ WriteTemporary(w)
      PROVE  /\ EntriesIn("target")' = EntriesIn("target")
             /\ Exists("target")' = Exists("target")
  <2>1. \/ open[w] = names["bak"] /\ Exists("bak")
        \/ open[w] = names["tmp"] /\ Exists("tmp")
    BY <1>7 DEF WriteBackup, WriteTemporary, SerialInv, Prepared
  <2>2. open[w] \in Inodes /\ (Exists("target") => open[w] # names["target"])
    BY <1>0, <2>1, FilesApart DEF TypeOK
  <2>3. names' = names /\ \A j \in Inodes : j # open[w] => disk'[j] = disk[j]
    BY <1>0, <1>7 DEF WriteBackup, WriteTemporary, Write, TypeOK
  <2> QED
    BY <1>1, <2>2, <2>3
<1>8. ASSUME NEW w \in Writers,
             OpenBackup(w) \/ OpenTemporary(w) \/ WriteBackup(w) \/ WriteTemporary(w)
      PROVE  \E step \in (Running \union Outcomes) \ {"ok"} : pc' = [pc EXCEPT ![w] = step]
  BY <1>8 DEF OpenBackup, OpenTemporary, WriteBackup, WriteTemporary
<1>9. CASE Crash
  BY <1>0, <1>2, <1>9 DEF Crash, TypeOK
<1>10. CASE UNCHANGED vars
  BY <1>2, <1>10 DEF vars
<1> QED
  BY <1>2, <1>3, <1>4, <1>5, <1>6, <1>7, <1>8, <1>9, <1>10 DEF Next

\* Calls that do not overlap never leave a half-written file, not even
\* where the process dies.
THEOREM WriterNeverHalfWritten == ASSUME ~MayOverlap PROVE Spec => []NeverHalfWritten
<1>1. SerialInv /\ [Next]_vars => SerialInv'
  BY SerialNext
<1>2. SerialInv => NeverHalfWritten
  BY DEF SerialInv
<1> QED
  BY SerialInit, <1>1, <1>2, PTL DEF Spec

\* After a successful write the backup holds what the write replaced.
THEOREM WriterBackupIsPrevious == ASSUME ~MayOverlap PROVE Spec => []BackupIsPrevious
<1>1. SerialInv /\ [Next]_vars => SerialInv'
  BY SerialNext
<1>2. SerialInv => BackupIsPrevious
  BY DEF SerialInv
<1> QED
  BY SerialInit, <1>1, <1>2, PTL DEF Spec

\* Calls that do not overlap implement PortfolioFile: the rename is the
\* creation or the addition, and every other step is a stutter.
THEOREM WriterImplementsFile == ASSUME ~MayOverlap PROVE Spec => ImplementsPortfolioFile
<1>1. Init => File!Init
  <2> SUFFICES ASSUME Init PROVE File!Init
    OBVIOUS
  <2>1. CASE names = [n \in Names |-> None]
    BY <2>1 DEF File!Init, EntriesIn, Exists, Names
  <2>2. CASE names # [n \in Names |-> None]
    <3>1. names["target"] = Original /\ Original # None
      BY <2>2, InodesFacts DEF Init, Names
    <3>2. disk[Original] \in Batches
      BY <2>2, InodesFacts DEF Init
    <3> QED
      BY <3>1, <3>2 DEF File!Init, EntriesIn, Exists
  <2> QED
    BY <2>1, <2>2
<1>2. SerialInv /\ [Next]_vars => SerialInv'
  BY SerialNext
<1>3. SerialInv /\ [Next]_vars => [File!Next]_<<Exists("target"), EntriesIn("target")>>
  <2> SUFFICES ASSUME SerialInv, [Next]_vars
               PROVE  [File!Next]_<<Exists("target"), EntriesIn("target")>>
    OBVIOUS
  <2>1. CASE \A w \in Writers : ~Replace(w)
    BY <2>1, OtherSteps
  <2>2. ASSUME NEW w \in Writers, Replace(w) PROVE File!Next
    <3>1. /\ Exists("target")' /\ EntriesIn("target")' = NewContent(w) /\ batch[w] \in Batches
          /\ kind = "holdings" => ~Exists("target")
      BY <2>2, ReplaceStep
    <3>2. CASE kind = "transactions"
      <4>1. File!Add(batch[w])
        BY <3>1, <3>2 DEF File!Add, NewContent, Exists
      <4> QED
        BY <3>1, <4>1 DEF File!Next
    <3>3. CASE kind # "transactions"
      <4>1. kind = "holdings"
        BY <3>3 DEF SerialInv, TypeOK
      <4>2. File!Create(batch[w])
        BY <3>1, <3>3, <4>1 DEF File!Create, NewContent, Exists
      <4> QED
        BY <3>1, <4>2 DEF File!Next
    <3> QED
      BY <3>2, <3>3
  <2> QED
    BY <2>1, <2>2
<1> QED
  BY SerialInit, <1>1, <1>2, <1>3, PTL DEF Spec, ImplementsPortfolioFile, File!Spec

\* A call's outcome tells what it did to the file.
THEOREM WriterOutcomeMatchesFile == ASSUME ~MayOverlap PROVE Spec => OutcomeMatchesFile
<1> DEFINE done == {w \in Writers : pc[w] \in Running /\ pc'[w] = "ok"}
           Told == IF done = {} THEN EntriesIn("target")' = EntriesIn("target")
                   ELSE \A w \in done :
                          EntriesIn("target")' = EntriesIn("target") \o batch[w]
<1>1. SerialInv /\ [Next]_vars => SerialInv'
  BY SerialNext
<1>2. SerialInv /\ [Next]_vars => [Told]_vars
  <2> SUFFICES ASSUME SerialInv, [Next]_vars PROVE Told
    OBVIOUS
  <2>1. CASE \A w \in Writers : ~Replace(w)
    <3>1. done = {}
      BY <2>1, OtherSteps DEF Running
    <3> QED
      BY <2>1, <3>1, OtherSteps
  <2>2. ASSUME NEW w \in Writers, Replace(w) PROVE Told
    <3>1. EntriesIn("target")' = NewContent(w) /\ batch[w] \in Lists
          /\ (kind = "holdings" => ~Exists("target"))
          /\ pc' = [pc EXCEPT ![w] = "ok"]
      BY <2>2, ReplaceStep DEF SerialInv, TypeOK
    <3>2. done = {w}
      BY <2>2, <3>1 DEF Replace, Running, SerialInv, TypeOK
    <3>3. NewContent(w) = EntriesIn("target") \o batch[w]
      <4>1. CASE kind = "transactions"
        BY <4>1 DEF NewContent
      <4>2. CASE kind # "transactions"
        <5>1. EntriesIn("target") = <<>>
          BY <3>1, <4>2 DEF SerialInv, TypeOK, EntriesIn
        <5>2. <<>> \o batch[w] = batch[w]
          BY <3>1, ConcatEmptySeq DEF Lists
        <5> QED
          BY <4>2, <5>1, <5>2 DEF NewContent
      <4> QED
        BY <4>1, <4>2
    <3> QED
      BY <3>1, <3>2, <3>3
  <2> QED
    BY <2>1, <2>2
<1> QED
  BY SerialInit, <1>1, <1>2, PTL DEF Spec, OutcomeMatchesFile
=============================================================================
