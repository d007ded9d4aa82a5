------------------------- MODULE YamlPortfolioWriter -------------------------
(***************************************************************************)
(* YamlPortfolioWriter on one file of a portfolio: transactions.yaml, to   *)
(* which rows are appended, or holdings.yaml, which is created.  Every     *)
(* call runs in a thread of Home Assistant's executor, so the file system  *)
(* calls of two of them may alternate; and the process may die between any *)
(* two.  The files are modelled as POSIX does: a name leads to an inode,   *)
(* an open file stays with its inode, a rename moves the name.             *)
(***************************************************************************)
EXTENDS Naturals, Sequences, SequencesExt

CONSTANTS Writers,     \* calls; each is made at most once
          Entries,     \* what a list in the file may hold
          Batches,     \* the lists of entries a call may write
          MayOverlap,  \* whether a call may be made while another runs
          MaxCrashes,  \* bound on the deaths of the process
          None

ASSUME OverlapAssumption == MayOverlap \in BOOLEAN
ASSUME CrashAssumption   == MaxCrashes \in Nat
ASSUME BatchAssumption   == Batches \subseteq Seq(Entries)

VARIABLES kind,     \* which of the two files this is: it never changes
          names,    \* the directory: target, .bak and .tmp to inodes
          disk,     \* the entries each inode holds
          whole,    \* the inodes whose text is complete: neither cut short nor mixed
          pc,       \* per call: its next file system call, or its outcome
          batch,    \* per call: the entries it writes
          text,     \* per call: the new content of the file
          saved,    \* per call: the content it backs up
          open,     \* per call: the inode it has open for writing
          crashes

\* History: what the latest call replaced, if it succeeded in replacing
\* something: no list of entries or one.
VARIABLE replaced

files == <<names, disk, whole>>
memory == <<batch, text, saved, open>>
vars == <<kind, files, pc, memory, crashes, replaced>>

----------------------------------------------------------------------------
Names == {"target", "bak", "tmp"}

\* A call creates at most one backup and one temporary file; "original" is
\* what the directory held before the first call.
Original == <<"original", "target">>
Inodes == (Writers \X {"bak", "tmp"}) \union {Original}

ASSUME NoneAssumption == None \notin Inodes

Exists(name) == names[name] # None

\* A file cut short before its first entry reads as no entries at all.
EntriesIn(name) == IF Exists(name) THEN disk[names[name]] ELSE <<>>

Running  == {"read", "save", "openbak", "writebak", "opentmp", "writetmp", "replace"}
Outcomes == {"ok", "exists", "failed", "dead"}

Goto(w, step) == pc' = [pc EXCEPT ![w] = step]

----------------------------------------------------------------------------
\* A call enters its thread.
Start(w) ==
  /\ pc[w] = "idle"
  /\ MayOverlap \/ \A v \in Writers : pc[v] \notin Running
  /\ \E b \in Batches : batch' = [batch EXCEPT ![w] = b]
  /\ Goto(w, "read")
  /\ replaced' = {}
  /\ UNCHANGED <<kind, files, text, saved, open, crashes>>

\* _append_transactions_sync: the file's entries and the new ones after them.
AppendRead(w) ==
  /\ pc[w] = "read" /\ kind = "transactions"
  /\ text' = [text EXCEPT ![w] = EntriesIn("target") \o batch[w]]
  /\ Goto(w, "save")
  /\ UNCHANGED <<kind, files, batch, saved, open, crashes, replaced>>

\* A creation that does not look for an existing file.
CreateUnchecked(w) ==
  /\ pc[w] = "read" /\ kind = "holdings"
  /\ text' = [text EXCEPT ![w] = batch[w]]
  /\ Goto(w, "save")
  /\ UNCHANGED <<kind, files, batch, saved, open, crashes, replaced>>

\* _create_portfolio_sync: FileExistsError when the portfolio is there.
CreateCheck(w) ==
  /\ pc[w] = "read" /\ kind = "holdings"
  /\ IF Exists("target")
     THEN Goto(w, "exists") /\ UNCHANGED text
     ELSE Goto(w, "save") /\ text' = [text EXCEPT ![w] = batch[w]]
  /\ UNCHANGED <<kind, files, batch, saved, open, crashes, replaced>>

\* _write_atomically: an existing file is read, to be backed up.
Save(w) ==
  /\ pc[w] = "save"
  /\ IF Exists("target")
     THEN Goto(w, "openbak") /\ saved' = [saved EXCEPT ![w] = EntriesIn("target")]
     ELSE Goto(w, "opentmp") /\ UNCHANGED saved
  /\ UNCHANGED <<kind, files, batch, text, open, crashes, replaced>>

\* open(name, "w"): the inode the name leads to, or a new one, truncated.
Open(w, name) ==
  LET inode == IF Exists(name) THEN names[name] ELSE <<w, name>>
  IN  /\ names' = [names EXCEPT ![name] = inode]
      /\ disk' = [disk EXCEPT ![inode] = <<>>]
      /\ whole' = whole \ {inode}
      /\ open' = [open EXCEPT ![w] = inode]

\* Writing and closing the open file.  Where another call has written since
\* the file was cut, what remains of its text may spoil this one's.
Write(w, list) ==
  /\ disk' = [disk EXCEPT ![open[w]] = list]
  /\ whole' \in IF open[w] \in whole THEN {whole, whole \ {open[w]}}
                                    ELSE {whole \union {open[w]}}

OpenBackup(w) ==
  /\ pc[w] = "openbak"
  /\ Open(w, "bak")
  /\ Goto(w, "writebak")
  /\ UNCHANGED <<kind, batch, text, saved, crashes, replaced>>

WriteBackup(w) ==
  /\ pc[w] = "writebak"
  /\ Write(w, saved[w])
  /\ Goto(w, "opentmp")
  /\ UNCHANGED <<kind, names, memory, crashes, replaced>>

\* A writer that writes the file in place.
OpenTarget(w) ==
  /\ pc[w] = "opentmp"
  /\ Open(w, "target")
  /\ Goto(w, "writetmp")
  /\ UNCHANGED <<kind, batch, text, saved, crashes, replaced>>

OpenTemporary(w) ==
  /\ pc[w] = "opentmp"
  /\ Open(w, "tmp")
  /\ Goto(w, "writetmp")
  /\ UNCHANGED <<kind, batch, text, saved, crashes, replaced>>

\* A write that forgets the entries that were read.
WriteNewOnly(w) ==
  /\ pc[w] = "writetmp"
  /\ Write(w, batch[w])
  /\ Goto(w, "replace")
  /\ UNCHANGED <<kind, names, memory, crashes, replaced>>

WriteTemporary(w) ==
  /\ pc[w] = "writetmp"
  /\ Write(w, text[w])
  /\ Goto(w, "replace")
  /\ UNCHANGED <<kind, names, memory, crashes, replaced>>

\* os.replace: the temporary file takes the target's name.  Another call may
\* have taken it away: FileNotFoundError is an OSError too.
Replace(w) ==
  /\ pc[w] = "replace"
  /\ IF ~Exists("tmp")
     THEN Goto(w, "failed") /\ UNCHANGED <<names, replaced>>
     ELSE /\ Goto(w, "ok")
          /\ names' = [names EXCEPT !["target"] = names["tmp"], !["tmp"] = None]
          /\ replaced' = IF Exists("target") THEN {EntriesIn("target")} ELSE {}
  /\ UNCHANGED <<kind, disk, whole, memory, crashes>>

\* Any file system call may raise OSError (a full disk, a lost mount), and so
\* may the parser on a text that is not whole.
OSErrorRaised(w) ==
  /\ pc[w] \in Running
  /\ Goto(w, "failed")
  /\ UNCHANGED <<kind, files, memory, crashes, replaced>>

Crash ==
  /\ crashes < MaxCrashes
  /\ crashes' = crashes + 1
  /\ pc' = [w \in Writers |-> IF pc[w] \in Running THEN "dead" ELSE pc[w]]
  /\ UNCHANGED <<kind, files, memory, replaced>>

Init ==
  /\ kind \in {"transactions", "holdings"}
  /\ \/ /\ names = [n \in Names |-> None]
        /\ disk = [i \in Inodes |-> <<>>]
     \/ /\ names = [n \in Names |-> IF n = "target" THEN Original ELSE None]
        /\ \E b \in Batches : disk = [i \in Inodes |-> IF i = Original THEN b ELSE <<>>]
  /\ whole = {Original}
  /\ pc = [w \in Writers |-> "idle"]
  /\ batch = [w \in Writers |-> <<>>]
  /\ text = [w \in Writers |-> <<>>]
  /\ saved = [w \in Writers |-> <<>>]
  /\ open = [w \in Writers |-> Original]
  /\ crashes = 0 /\ replaced = {}

Next ==
  \/ \E w \in Writers :
       \/ Start(w) \/ AppendRead(w) \/ CreateCheck(w) \/ Save(w)
       \/ OpenBackup(w) \/ WriteBackup(w) \/ OpenTemporary(w) \/ WriteTemporary(w)
       \/ Replace(w) \/ OSErrorRaised(w)
  \/ Crash

Spec == Init /\ [][Next]_vars

----------------------------------------------------------------------------
(* Properties *)

Lists == Seq(Entries)

TypeOK ==
  /\ kind \in {"transactions", "holdings"}
  /\ names \in [Names -> Inodes \union {None}]
  /\ disk \in [Inodes -> Lists]
  /\ whole \subseteq Inodes
  /\ pc \in [Writers -> Running \union Outcomes \union {"idle"}]
  /\ batch \in [Writers -> Lists]
  /\ text \in [Writers -> Lists]
  /\ saved \in [Writers -> Lists]
  /\ open \in [Writers -> Inodes]
  /\ crashes \in 0 .. MaxCrashes
  /\ \A old \in replaced : old \in Lists

\* The file is never half-written, when calls do not overlap
\* (yaml_portfolio_writer.py:92-95).
NeverHalfWritten == Exists("target") => names["target"] \in whole

\* After a successful write of an existing file, until the next call begins,
\* the .bak file holds what was replaced (docs/adr/0016, "undo my last
\* mistake"), also when the process died in between.
BackupIsPrevious ==
  \A old \in replaced : /\ Exists("bak")
                        /\ names["bak"] \in whole
                        /\ EntriesIn("bak") = old

\* The new content of the file, as a call computes it.
NewContent(w) ==
  IF kind = "transactions" THEN EntriesIn("target") \o batch[w] ELSE batch[w]

\* A temporary file is a call's own until the rename; the inode of a call that
\* has not opened its temporary file has no name yet.
OwnFiles ==
  /\ names["target"] \in {None, Original} \union (Writers \X {"tmp"})
  /\ names["bak"] \in {None} \union (Writers \X {"bak"})
  /\ names["tmp"] \in {None} \union (Writers \X {"tmp"})
  /\ names["tmp"] = names["target"] => names["tmp"] = None
  /\ \A w \in Writers :
        pc[w] \in {"idle", "read", "save", "openbak", "writebak", "opentmp"}
          => <<w, "tmp">> \notin {names["target"], names["tmp"]}

\* What a call relies on at each of its steps.
Prepared(w) ==
  /\ pc[w] \in Running => batch[w] \in Batches
  /\ pc[w] \in Running \ {"read"} =>
        /\ text[w] = NewContent(w)
        /\ kind = "holdings" => ~Exists("target")
  /\ pc[w] \in {"openbak", "writebak"} =>
        Exists("target") /\ saved[w] = EntriesIn("target")
  /\ pc[w] = "writebak" =>
        Exists("bak") /\ open[w] = names["bak"] /\ open[w] \notin whole
  /\ pc[w] \in {"opentmp", "writetmp", "replace"} /\ Exists("target") =>
        /\ Exists("bak") /\ names["bak"] \in whole
        /\ EntriesIn("bak") = EntriesIn("target")
  /\ pc[w] = "writetmp" =>
        Exists("tmp") /\ open[w] = names["tmp"] /\ open[w] \notin whole
  /\ pc[w] = "replace" => /\ Exists("tmp")
                          /\ names["tmp"] \in whole
                          /\ EntriesIn("tmp") = text[w]

\* The inductive invariant of calls that do not overlap.
SerialInv ==
  /\ TypeOK
  /\ \A v, w \in Writers : pc[v] \in Running /\ pc[w] \in Running => v = w
  /\ OwnFiles
  /\ \A w \in Writers : Prepared(w)
  /\ (\E w \in Writers : pc[w] \in Running) => replaced = {}
  /\ NeverHalfWritten
  /\ BackupIsPrevious

\* Calls that do not overlap implement what PortfolioWriter promises, whatever
\* fails and whenever the process dies: the file is created once and grows at
\* its end, by all of a call's entries or none.
File == INSTANCE PortfolioFile WITH exists <- Exists("target"),
                                    entries <- EntriesIn("target")
ImplementsPortfolioFile == File!Spec

\* A call's outcome tells what it did to the file: "ok" that its entries are
\* now behind the ones that were there, anything else that the file is as it
\* was; and until a call is over the file does not change.  The services
\* report a failure, and keep the report, on the strength of this.
OutcomeMatchesFile ==
  [][LET done == {w \in Writers : pc[w] \in Running /\ pc'[w] = "ok"}
     IN  IF done = {} THEN EntriesIn("target")' = EntriesIn("target")
         ELSE \A w \in done :
                EntriesIn("target")' = EntriesIn("target") \o batch[w]]_vars

\* What writer_base.py:40-44 says of an append: no entry that is there is
\* rewritten, reordered or dropped.
AppendOnly ==
  [][kind = "transactions" => IsPrefix(EntriesIn("target"), EntriesIn("target")')]_vars
=============================================================================
