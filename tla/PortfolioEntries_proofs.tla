----------------------- MODULE PortfolioEntries_proofs -----------------------
(* Proofs about PortfolioEntries, for any paths and folders, portfolios,   *)
(* intervals, entries and dialogs, and any number of edits.                *)
EXTENDS PortfolioEntries, NaturalsInduction, WellFoundedInduction, TLAPS

----------------------------------------------------------------------------
(* The inductive invariant *)

\* No two entries of Home Assistant have one unique id, and an entry that was
\* never moved tracks the folder its unique id names.
IdsOfEntries ==
  /\ \A e, f \in Present : e # f => entry[e].uid # entry[f].uid
  /\ \A e \in Present \ moved : entry[e].path = entry[e].uid

\* What is in hass.data, and what an entry that is not there cannot have.
LiveMatchesState ==
  \A e \in Entries :
    /\ state[e] \in {"loaded", "failed"} => e \in live
    /\ state[e] \in {"unused", "not_loaded", "setup"} => e \notin live
    /\ state[e] = "unused" => entry[e] = None

\* A coordinator, in hass.data or in its first refresh, is what its entry says
\* unless it is known to be out of date.
Current ==
  \A e \in Entries : e \in live \/ state[e] = "setup" =>
    /\ Late(e) \/ coordinator[e].base = FolderOf[entry[e].path]
    /\ Late(e) \/ e \in missed \/ coordinator[e].minutes = Interval(entry[e])
    /\ e \in moved \/ coordinator[e].base = FolderOf[entry[e].path]

\* The interval an entry calls for is the one entered last.
EnteredLast ==
  \A e \in Entries : entry[e] # None =>
    /\ entered[e] # None
    /\ \/ Interval(entry[e]) = entered[e].minutes
       \/ entered[e].by = "reconfigure" /\ entry[e].options # None

\* A pending report was compared with the log of the folder its entry tracks.
Reviewed ==
  \A e \in Entries \ moved : \A i \in Ids :
    report[e][i] # None => entry[e] # None /\ report[e][i] = FolderOf[entry[e].path]

\* A dialog that is past its first form has a path.
GuidedPath == \A f \in Flows : flow[f].step # "user" => flow[f].path \in Paths

Inv == /\ TypeOK /\ ServicesWhileLoaded /\ GuidedPath
       /\ IdsOfEntries /\ LiveMatchesState /\ Current /\ EnteredLast /\ Reviewed
       /\ WrittenWhereMeant

----------------------------------------------------------------------------

LEMMA FirstIsOne ==
  ASSUME NEW s \in SUBSET Ids, s # {}
  PROVE  First(s) \in s
<1>1. \E i \in s : \A j \in s : <<j, i>> \notin OpToRel(<, Nat)
  BY NatLessThanWellFounded, WFMin, IdsAssumption
<1>2. PICK i \in s : \A j \in s : <<j, i>> \notin OpToRel(<, Nat)
  BY <1>1
<1>3. \A j \in s : i <= j
  <2>1. SUFFICES ASSUME NEW j \in s, j < i PROVE FALSE
    BY IdsAssumption
  <2> QED
    BY <2>1, <1>2, IdsAssumption DEF OpToRel
<1> QED
  BY <1>3 DEF First

\* The entry a dialog makes.
LEMMA NewEntryKeeps ==
  ASSUME Inv, NEW e \in Entries, NEW p \in Paths, NEW m \in Minutes,
         Create(e, p, m), ~Taken(p, None), UNCHANGED <<files, service>>,
         flow' \in [Flows -> Steps],
         GuidedPath'
  PROVE  Inv'
<1>1. TypeOK'
  <2>1. /\ coordinator' \in [Entries -> Coordinators \union {None}]
        /\ files' \in [Folders -> {None} \union SUBSET Ids]
        /\ report' \in [Entries -> [Ids -> Folders \union {None}]]
        /\ call' \in CallRecords \union {None}
        /\ reload' \subseteq Entries /\ live' \subseteq Entries /\ registered' \subseteq Services
        /\ moved' \subseteq Entries /\ missed' \subseteq Entries /\ edits' \in 0 .. MaxEdits
    BY DEF TypeOK, Inv, runtime, service, Create
  <2>2. entry' \in [Entries -> Configs \union {None}]
    <3>1. [uid |-> p, path |-> p, minutes |-> m, options |-> None] \in Configs
      BY DEF Configs
    <3> QED
      BY <3>1 DEF Inv, TypeOK, Create
  <2>3. state' \in [Entries -> States]
    BY DEF TypeOK, Inv, Create, States
  <2>4. entered' \in [Entries -> Inputs \union {None}]
    <3>1. [minutes |-> m, by |-> "user"] \in Inputs
      BY DEF Inputs
    <3> QED
      BY <3>1 DEF Inv, TypeOK, Create
  <2>5. flow' \in [Flows -> Steps]
    OBVIOUS
  <2>6. Equipped'
    <3>1. /\ [uid |-> p, path |-> p, minutes |-> m, options |-> None] # None
          /\ [minutes |-> m, by |-> "user"] # None
      BY RecordsAssumption DEF Configs, Inputs
    <3> QED
      BY <3>1 DEF Inv, TypeOK, Equipped, Present, Create
  <2> QED
    BY <2>1, <2>2, <2>3, <2>4, <2>5, <2>6 DEF TypeOK
<1>2. ServicesWhileLoaded'
  BY DEF Inv, Create, ServicesWhileLoaded
<1>3. IdsOfEntries'
  BY NoneAssumption DEF Inv, Create, Taken, IdsOfEntries, TypeOK, Present
<1>4. LiveMatchesState'
  BY DEF Inv, Create, LiveMatchesState, TypeOK
<1>5. Current'
  BY DEF Inv, Create, Current, LiveMatchesState, Late
<1>6. EnteredLast'
  <2>1. entered' = [entered EXCEPT ![e] = [minutes |-> m, by |-> "user"]]
    BY DEF Create
  <2>2. entered'[e].minutes = m /\ entered'[e] # None
    BY <2>1, RecordsAssumption DEF Inv, TypeOK, Inputs
  <2>3. Interval(entry'[e]) = m
    BY DEF Create, Interval, Inv, TypeOK
  <2>4. \A g \in Entries \ {e} : entry'[g] = entry[g] /\ entered'[g] = entered[g]
    BY DEF Create, Inv, TypeOK
  <2> QED
    BY <2>2, <2>3, <2>4 DEF Inv, EnteredLast, Interval
<1>7. Reviewed'
  BY DEF Inv, service, Create, Reviewed, LiveMatchesState
<1>8. WrittenWhereMeant'
  BY DEF Inv, service, Create, WrittenWhereMeant
<1>9. GuidedPath'
  OBVIOUS
<1> QED
  BY <1>1, <1>2, <1>3, <1>4, <1>5, <1>6, <1>7, <1>8, <1>9 DEF Inv

\* The configuration a dialog changes: a new path calls for a reload, and so
\* does a new interval unless it comes while the entry is being set up.
LEMMA NewConfigurationKeeps ==
  ASSUME Inv, NEW e \in Present, NEW c \in Configs, NEW m \in Minutes,
         NEW b \in {"reconfigure", "options"}, MayEdit(e), Configure(e, c, m, b),
         c.uid = entry[e].uid,
         Interval(c) = m \/ (b = "reconfigure" /\ c.options # None),
         c.path # entry[e].path => e \in reload',
         state[e] \in {"setup", "loaded"} => e \in reload' \union missed',
         reload \subseteq reload', reload' \subseteq reload \union {e},
         missed \subseteq missed', missed' \subseteq missed \union {e}
  PROVE  Inv'
<1>0. /\ e \in Entries
      /\ entry' = [entry EXCEPT ![e] = c] /\ entry'[e] = c
      /\ entered' = [entered EXCEPT ![e] = [minutes |-> m, by |-> b]]
      /\ entered'[e] = [minutes |-> m, by |-> b]
      /\ \A g \in Entries \ {e} : entry'[g] = entry[g] /\ entered'[g] = entered[g]
      /\ Present' = Present /\ entry[e] # None /\ c # None
      /\ moved' = IF c.path = entry[e].path THEN moved ELSE moved \union {e}
      /\ UNCHANGED <<files, state, coordinator, live, registered, call, report, flow>>
  BY RecordsAssumption DEF Inv, TypeOK, Configure, Present, Equipped, runtime, service
<1>1. TypeOK'
  <2>1. /\ state' \in [Entries -> States]
        /\ coordinator' \in [Entries -> Coordinators \union {None}]
        /\ files' \in [Folders -> {None} \union SUBSET Ids]
        /\ report' \in [Entries -> [Ids -> Folders \union {None}]]
        /\ call' \in CallRecords \union {None}
        /\ flow' \in [Flows -> Steps]
    BY DEF TypeOK, Inv, runtime, service, Configure
  <2>2. entry' \in [Entries -> Configs \union {None}]
    BY DEF Inv, TypeOK, Configure
  <2>3. entered' \in [Entries -> Inputs \union {None}]
    <3>1. [minutes |-> m, by |-> b] \in Inputs
      BY DEF Inputs
    <3> QED
      BY <3>1 DEF Inv, TypeOK, Configure
  <2>4. /\ reload' \subseteq Entries /\ live' \subseteq Entries /\ registered' \subseteq Services
      /\ moved' \subseteq Entries /\ missed' \subseteq Entries /\ edits' \in 0 .. MaxEdits
    BY <1>0, EditsAssumption DEF TypeOK, Inv, Configure, MayEdit
  <2>5. Equipped'
    <3>1. c # None /\ [minutes |-> m, by |-> b] # None
      BY RecordsAssumption DEF Inputs
    <3> QED
      BY <3>1 DEF Inv, TypeOK, Equipped, Present, Configure, runtime
  <2> QED
    BY <2>1, <2>2, <2>3, <2>4, <2>5 DEF TypeOK
<1>2. ServicesWhileLoaded'
  BY <1>0 DEF Inv, ServicesWhileLoaded
<1>3. IdsOfEntries'
  BY <1>0 DEF Inv, IdsOfEntries, Present
<1>4. LiveMatchesState'
  BY <1>0 DEF Inv, LiveMatchesState, Present
<1>5. Current'
  <2> SUFFICES ASSUME NEW g \in Entries, g \in live \/ state[g] = "setup"
               PROVE  /\ Late(g)' \/ coordinator[g].base = FolderOf[entry'[g].path]
                      /\ Late(g)' \/ g \in missed' \/ coordinator[g].minutes = Interval(entry'[g])
                      /\ g \in moved' \/ coordinator[g].base = FolderOf[entry'[g].path]
    BY <1>0 DEF Current, Interval
  <2>1. Late(g) => Late(g)'
    BY <1>0 DEF Late
  <2>2. CASE g # e
    BY <1>0, <2>1, <2>2 DEF Inv, Current
  <2>3. CASE g = e
    <3>1. Late(e)' \/ e \in missed'
      BY <1>0, <2>3 DEF Inv, TypeOK, LiveMatchesState, States, Late
    <3>2. c.path # entry[e].path => Late(e)' /\ e \in moved'
      BY <1>0 DEF Late
    <3> QED
      BY <1>0, <2>1, <2>3, <3>1, <3>2 DEF Inv, Current
  <2> QED
    BY <2>2, <2>3
<1>6. EnteredLast'
  <2>1. [minutes |-> m, by |-> b] # None
    BY RecordsAssumption DEF Inputs
  <2> QED
    BY <1>0, <2>1 DEF Inv, EnteredLast, Interval
<1>7. Reviewed'
  BY <1>0 DEF Inv, Reviewed
<1>8. WrittenWhereMeant'
  BY <1>0 DEF Inv, WrittenWhereMeant
<1>9. GuidedPath'
  BY <1>0 DEF Inv, GuidedPath
<1> QED
  BY <1>1, <1>2, <1>3, <1>4, <1>5, <1>6, <1>7, <1>8, <1>9 DEF Inv

\* What a refresh of a folder with portfolios makes of a coordinator.
LEMMA Serving ==
  ASSUME Inv, NEW e \in Entries, e \in live \/ state[e] = "setup",
         files[coordinator[e].base] \notin {None, {}}
  PROVE  LET new == [coordinator[e] EXCEPT !.serves = First(files[coordinator[e].base])]
         IN  /\ new \in Coordinators /\ new # None
             /\ new.base = coordinator[e].base /\ new.minutes = coordinator[e].minutes
<1>1. coordinator[e] \in Coordinators
  BY DEF Inv, TypeOK, Equipped
<1>2. coordinator[e].base \in Folders
  BY <1>1 DEF Coordinators
<1>3. files[coordinator[e].base] \in SUBSET Ids
  BY <1>2 DEF Inv, TypeOK
<1>4. First(files[coordinator[e].base]) \in Ids
  BY <1>3, FirstIsOne
<1> QED
  BY <1>1, <1>4, RecordsAssumption DEF Coordinators

\* A service call that has found its coordinator.
LEMMA CalledKeeps ==
  ASSUME Inv, NEW kind \in {"create", "apply"}, NEW e \in live, NEW i \in Ids,
         NEW meant \in Folders, NEW late \in BOOLEAN, Called(kind, e, i, meant, late),
         coordinator[e].base # meant => IF kind = "create" THEN late ELSE e \in moved
  PROVE  Inv'
<1>0. /\ e \in Entries /\ coordinator[e].base \in Folders
      /\ UNCHANGED <<files, config, runtime, report, flow>>
      /\ call' = [kind |-> kind, entry |-> e, id |-> i, base |-> coordinator[e].base,
                  meant |-> meant, late |-> late]
  BY DEF Inv, TypeOK, Equipped, Coordinators, Called
<1>1. TypeOK'
  <2>1. /\ entry' \in [Entries -> Configs \union {None}]
        /\ state' \in [Entries -> States]
        /\ coordinator' \in [Entries -> Coordinators \union {None}]
        /\ entered' \in [Entries -> Inputs \union {None}]
        /\ files' \in [Folders -> {None} \union SUBSET Ids]
        /\ report' \in [Entries -> [Ids -> Folders \union {None}]]
        /\ flow' \in [Flows -> Steps]
        /\ reload' \subseteq Entries /\ live' \subseteq Entries /\ registered' \subseteq Services
        /\ moved' \subseteq Entries /\ missed' \subseteq Entries /\ edits' \in 0 .. MaxEdits
    BY DEF TypeOK, Inv, config, runtime, Called
  <2>2. call' \in CallRecords \union {None}
    BY <1>0 DEF CallRecords
  <2>3. Equipped'
    BY <1>0 DEF Inv, TypeOK, Equipped, Present, config, runtime
  <2> QED
    BY <2>1, <2>2, <2>3 DEF TypeOK
<1>2. ServicesWhileLoaded'
  BY <1>0 DEF Inv, ServicesWhileLoaded, runtime
<1>3. IdsOfEntries'
  BY <1>0 DEF Inv, IdsOfEntries, Present, config, runtime
<1>4. LiveMatchesState'
  BY <1>0 DEF Inv, LiveMatchesState, Present, config, runtime
<1>5. Current'
  BY <1>0 DEF Inv, Current, Late, config, runtime
<1>6. EnteredLast'
  BY <1>0 DEF Inv, EnteredLast, config
<1>7. Reviewed'
  BY <1>0 DEF Inv, Reviewed, config
<1>8. WrittenWhereMeant'
  BY <1>0 DEF WrittenWhereMeant, config
<1>9. GuidedPath'
  BY <1>0 DEF Inv, GuidedPath
<1> QED
  BY <1>1, <1>2, <1>3, <1>4, <1>5, <1>6, <1>7, <1>8, <1>9 DEF Inv

\* A report that is saved or cleared.
LEMMA ReportChanged ==
  ASSUME Inv, NEW e \in Entries, NEW i \in Ids, NEW r \in Folders \union {None},
         report' = [report EXCEPT ![e][i] = r]
  PROVE  /\ report' \in [Entries -> [Ids -> Folders \union {None}]]
         /\ report'[e][i] = r
         /\ \A g \in Entries, j \in Ids : g # e \/ j # i => report'[g][j] = report[g][j]
<1>1. report[e] \in [Ids -> Folders \union {None}]
  BY DEF Inv, TypeOK
<1>2. [report[e] EXCEPT ![i] = r] \in [Ids -> Folders \union {None}]
  BY <1>1
<1>3. report' = [report EXCEPT ![e] = [report[e] EXCEPT ![i] = r]]
  OBVIOUS
<1> QED
  BY <1>1, <1>2, <1>3 DEF Inv, TypeOK

\* A dialog goes on.
LEMMA OnlyFlow ==
  ASSUME Inv, UNCHANGED <<files, config, runtime, service>>,
         flow' \in [Flows -> Steps],
         GuidedPath'
  PROVE  Inv'
<1>1. TypeOK'
  BY DEF Inv, TypeOK, Equipped, Present, config, runtime, service
<1>2. ServicesWhileLoaded'
  BY DEF Inv, runtime, ServicesWhileLoaded
<1>3. IdsOfEntries'
  BY DEF Inv, config, runtime, IdsOfEntries, Present
<1>4. LiveMatchesState'
  BY DEF Inv, config, runtime, LiveMatchesState, Present
<1>5. Current'
  BY DEF Inv, config, runtime, Current, Late
<1>6. EnteredLast'
  BY DEF Inv, config, EnteredLast
<1>7. Reviewed'
  BY DEF Inv, config, service, Reviewed
<1>8. WrittenWhereMeant'
  BY DEF Inv, config, service, WrittenWhereMeant
<1>9. GuidedPath'
  OBVIOUS
<1> QED
  BY <1>1, <1>2, <1>3, <1>4, <1>5, <1>6, <1>7, <1>8, <1>9 DEF Inv

\* What the steps of a dialog make of it.
LEMMA FlowKeeps ==
  ASSUME Inv, NEW f \in Flows,
         \/ End(f)
         \/ flow[f].step = "guided" /\ Goto(f, "written")
         \/ flow' = [flow EXCEPT ![f].closed = TRUE]
  PROVE  flow' \in [Flows -> Steps] /\ GuidedPath'
<1>1. flow[f] \in Steps /\ flow \in [Flows -> Steps]
  BY DEF Inv, TypeOK
<1>2. CASE End(f)
  BY <1>1, <1>2 DEF End, Opened, Steps, Inv, GuidedPath
<1>3. CASE flow[f].step = "guided" /\ Goto(f, "written")
  <2>1. flow' = [flow EXCEPT ![f] = [flow[f] EXCEPT !.step = "written"]]
    BY <1>3 DEF Goto
  <2>2. /\ [flow[f] EXCEPT !.step = "written"] \in Steps
        /\ [flow[f] EXCEPT !.step = "written"].path = flow[f].path
    BY <1>1 DEF Steps
  <2> QED
    BY <1>1, <1>3, <2>1, <2>2 DEF Inv, GuidedPath
<1>4. CASE flow' = [flow EXCEPT ![f].closed = TRUE]
  <2>1. flow' = [flow EXCEPT ![f] = [flow[f] EXCEPT !.closed = TRUE]]
    BY <1>4
  <2>2. /\ [flow[f] EXCEPT !.closed = TRUE] \in Steps
        /\ [flow[f] EXCEPT !.closed = TRUE].path = flow[f].path
        /\ [flow[f] EXCEPT !.closed = TRUE].step = flow[f].step
    BY <1>1 DEF Steps
  <2> QED
    BY <1>1, <2>1, <2>2 DEF Inv, GuidedPath
<1> QED
  BY <1>2, <1>3, <1>4

LEMMA GuidedWriteKeeps ==
  ASSUME Inv, NEW f \in Flows, GuidedWrite(f)
  PROVE  Inv'
<1>1. TypeOK'
  <2>1. /\ entry' \in [Entries -> Configs \union {None}]
        /\ state' \in [Entries -> States]
        /\ coordinator' \in [Entries -> Coordinators \union {None}]
        /\ entered' \in [Entries -> Inputs \union {None}]
        /\ report' \in [Entries -> [Ids -> Folders \union {None}]]
        /\ call' \in CallRecords \union {None}
        /\ reload' \subseteq Entries /\ live' \subseteq Entries /\ registered' \subseteq Services
        /\ moved' \subseteq Entries /\ missed' \subseteq Entries /\ edits' \in 0 .. MaxEdits
    BY DEF TypeOK, Inv, config, runtime, service, GuidedWrite
  <2>2. files' \in [Folders -> {None} \union SUBSET Ids]
    BY DEF TypeOK, Inv, GuidedWrite, Written
  <2>3. flow' \in [Flows -> Steps]
    BY FlowKeeps DEF GuidedWrite
  <2>4. Equipped'
    BY DEF TypeOK, Inv, Equipped, Present, config, runtime, GuidedWrite
  <2> QED
    BY <2>1, <2>2, <2>3, <2>4 DEF TypeOK
<1>2. ServicesWhileLoaded'
  BY DEF Inv, runtime, GuidedWrite, ServicesWhileLoaded
<1>3. IdsOfEntries'
  BY DEF Inv, config, runtime, GuidedWrite, IdsOfEntries, Present
<1>4. LiveMatchesState'
  BY DEF Inv, config, runtime, GuidedWrite, LiveMatchesState
<1>5. Current'
  BY DEF Inv, config, runtime, GuidedWrite, Current, Late
<1>6. EnteredLast'
  BY DEF Inv, config, GuidedWrite, EnteredLast
<1>7. Reviewed'
  BY DEF Inv, config, service, GuidedWrite, Reviewed
<1>8. WrittenWhereMeant'
  BY DEF Inv, config, service, GuidedWrite, WrittenWhereMeant
<1>9. GuidedPath'
  BY FlowKeeps DEF GuidedWrite
<1> QED
  BY <1>1, <1>2, <1>3, <1>4, <1>5, <1>6, <1>7, <1>8, <1>9 DEF Inv

\* Only the folders change.
LEMMA OnlyFiles ==
  ASSUME Inv, UNCHANGED <<config, runtime, service, flow>>,
         files' \in [Folders -> {None} \union SUBSET Ids]
  PROVE  Inv'
<1>1. TypeOK'
  BY DEF Inv, TypeOK, Equipped, Present, config, runtime, service
<1>2. ServicesWhileLoaded' /\ LiveMatchesState'
  BY DEF Inv, ServicesWhileLoaded, LiveMatchesState, config, runtime
<1>3. IdsOfEntries' /\ GuidedPath'
  BY DEF Inv, IdsOfEntries, Present, GuidedPath, config, runtime
<1>4. Current' /\ EnteredLast'
  BY DEF Inv, Current, Late, EnteredLast, config, runtime
<1>5. Reviewed' /\ WrittenWhereMeant'
  BY DEF Inv, Reviewed, WrittenWhereMeant, config, service
<1> QED
  BY <1>1, <1>2, <1>3, <1>4, <1>5 DEF Inv

LEMMA MakeFolderKeeps ==
  ASSUME Inv, NEW f \in Flows, MakeFolder(f)
  PROVE  Inv'
<1>1. files' \in [Folders -> {None} \union SUBSET Ids]
  BY DEF Inv, TypeOK, MakeFolder, Made
<1> QED
  BY <1>1, OnlyFiles DEF MakeFolder

LEMMA EditKeeps ==
  ASSUME Inv, NEW d \in Folders, Edit(d)
  PROVE  Inv'
<1>1. files' \in [Folders -> {None} \union SUBSET Ids]
  BY DEF Inv, TypeOK, Edit
<1> QED
  BY <1>1, OnlyFiles DEF Edit

\* What is stored is kept, what was in memory is as at the start.
LEMMA RestartKeeps ==
  ASSUME Inv, Restart
  PROVE  Inv'
<1>0. /\ Present' = Present
      /\ \A e \in Present : entry'[e] = entry[e] /\ entered'[e] = entered[e] /\ report'[e] = report[e]
      /\ \A e \in Entries \ Present : /\ entry'[e] = None /\ state'[e] = state[e]
                                    /\ report'[e] = [i \in Ids |-> None]
      /\ live' = {} /\ registered' = {} /\ moved' = moved /\ call' = None
      /\ \A e \in Entries : state'[e] \in {"not_loaded", "unused", "removed"}
  BY DEF Inv, TypeOK, Restart, Present, States
<1>1. TypeOK'
  <2>1. /\ entry' \in [Entries -> Configs \union {None}]
        /\ entered' \in [Entries -> Inputs \union {None}]
        /\ coordinator' \in [Entries -> Coordinators \union {None}]
        /\ files' \in [Folders -> {None} \union SUBSET Ids]
        /\ call' \in CallRecords \union {None}
        /\ reload' \subseteq Entries /\ live' \subseteq Entries /\ registered' \subseteq Services
        /\ moved' \subseteq Entries /\ missed' \subseteq Entries /\ edits' \in 0 .. MaxEdits
    BY DEF TypeOK, Inv, Restart
  <2>2. state' \in [Entries -> States]
    BY DEF TypeOK, Inv, Restart, States
  <2>3. report' \in [Entries -> [Ids -> Folders \union {None}]]
    BY DEF TypeOK, Inv, Restart
  <2>4. flow' \in [Flows -> Steps]
    BY DEF Restart, Opened, Steps
  <2>5. Equipped'
    BY <1>0 DEF Inv, TypeOK, Equipped, Present
  <2> QED
    BY <2>1, <2>2, <2>3, <2>4, <2>5 DEF TypeOK
<1>2. ServicesWhileLoaded' /\ LiveMatchesState'
  BY <1>0 DEF ServicesWhileLoaded, LiveMatchesState, Present
<1>3. IdsOfEntries'
  BY <1>0 DEF Inv, IdsOfEntries
<1>4. GuidedPath' /\ WrittenWhereMeant' /\ Current'
  BY <1>0 DEF Restart, Opened, GuidedPath, WrittenWhereMeant, Current
<1>5. EnteredLast'
  BY <1>0 DEF Inv, EnteredLast, Interval, Present
<1>6. Reviewed'
  BY <1>0 DEF Inv, Reviewed, Present
<1> QED
  BY <1>1, <1>2, <1>3, <1>4, <1>5, <1>6 DEF Inv

LEMMA SetUpStartKeeps ==
  ASSUME Inv, NEW ee \in Entries, SetUpStart(ee)
  PROVE  Inv'
<1>1. TypeOK'
  <2>1. /\ entry' \in [Entries -> Configs \union {None}]
        /\ entered' \in [Entries -> Inputs \union {None}]
        /\ files' \in [Folders -> {None} \union SUBSET Ids]
        /\ report' \in [Entries -> [Ids -> Folders \union {None}]]
        /\ call' \in CallRecords \union {None}
        /\ flow' \in [Flows -> Steps]
    BY DEF TypeOK, Inv, config, runtime, service, SetUpStart
  <2>2. state' \in [Entries -> States]
    BY DEF TypeOK, Inv, SetUpStart, States
  <2>3. coordinator' \in [Entries -> Coordinators \union {None}] /\ coordinator'[ee] # None
    <3>1. entry[ee] \in Configs
      BY DEF Inv, TypeOK, Equipped, Present, SetUpStart
    <3>2. Interval(entry[ee]) \in Minutes
      BY <3>1 DEF Interval, Configs
    <3>3. [base |-> FolderOf[entry[ee].path], minutes |-> Interval(entry[ee]), serves |-> None] \in Coordinators
      BY <3>1, <3>2, FolderAssumption DEF Coordinators, Configs
    <3> QED
      BY <3>3, RecordsAssumption DEF SetUpStart, Inv, TypeOK
  <2>4. /\ reload' \subseteq Entries /\ live' \subseteq Entries /\ registered' \subseteq Services
      /\ moved' \subseteq Entries /\ missed' \subseteq Entries /\ edits' \in 0 .. MaxEdits
    BY DEF TypeOK, Inv, SetUpStart
  <2>5. Equipped'
    BY <2>3 DEF TypeOK, Inv, Equipped, Present, SetUpStart
  <2> QED
    BY <2>1, <2>2, <2>3, <2>4, <2>5 DEF TypeOK
<1>2. ServicesWhileLoaded'
  BY DEF Inv, SetUpStart, ServicesWhileLoaded
<1>3. IdsOfEntries'
  BY DEF Inv, SetUpStart, IdsOfEntries, Present
<1>4. LiveMatchesState'
  BY DEF Inv, SetUpStart, LiveMatchesState
<1>5. Current'
  BY DEF Inv, SetUpStart, Current, TypeOK, Late
<1>6. EnteredLast'
  BY DEF Inv, SetUpStart, EnteredLast
<1>7. Reviewed'
  BY DEF Inv, service, SetUpStart, Reviewed
<1>8. WrittenWhereMeant'
  BY DEF Inv, service, SetUpStart, WrittenWhereMeant
<1>9. GuidedPath'
  BY DEF Inv, SetUpStart, GuidedPath
<1> QED
  BY <1>1, <1>2, <1>3, <1>4, <1>5, <1>6, <1>7, <1>8, <1>9 DEF Inv

LEMMA SetUpEndKeeps ==
  ASSUME Inv, NEW ee \in Entries, SetUpEnd(ee)
  PROVE  Inv'
<1>1. TypeOK'
  <2>1. /\ entry' \in [Entries -> Configs \union {None}]
        /\ entered' \in [Entries -> Inputs \union {None}]
        /\ files' \in [Folders -> {None} \union SUBSET Ids]
        /\ report' \in [Entries -> [Ids -> Folders \union {None}]]
        /\ call' \in CallRecords \union {None}
        /\ flow' \in [Flows -> Steps]
    BY DEF TypeOK, Inv, config, service, SetUpEnd
  <2>2. state' \in [Entries -> States]
    BY DEF TypeOK, Inv, SetUpEnd, States
  <2>3. coordinator' \in [Entries -> Coordinators \union {None}]
    BY Serving DEF Inv, TypeOK, SetUpEnd
  <2>4. /\ reload' \subseteq Entries /\ live' \subseteq Entries /\ registered' \subseteq Services
      /\ moved' \subseteq Entries /\ missed' \subseteq Entries /\ edits' \in 0 .. MaxEdits
    BY DEF TypeOK, Inv, config, SetUpEnd, Register
  <2>5. Equipped'
    <3>0. \A g \in Entries \ {ee} : coordinator'[g] = coordinator[g] /\ state'[g] = state[g]
      BY DEF Inv, TypeOK, SetUpEnd
    <3>1. CASE state'[ee] = "loaded"
      <4>1. coordinator'[ee] # None /\ live' = live \union {ee}
        BY <3>1, Serving DEF Inv, TypeOK, SetUpEnd
      <4> QED
        BY <3>0, <3>1, <4>1 DEF Inv, TypeOK, Equipped, Present, SetUpEnd, config
    <3>2. CASE state'[ee] # "loaded"
      <4>1. ee \notin live /\ live' = live /\ state'[ee] = "not_loaded"
        BY <3>2 DEF Inv, TypeOK, LiveMatchesState, SetUpEnd
      <4> QED
        BY <3>0, <4>1 DEF Inv, TypeOK, Equipped, Present, SetUpEnd, config
    <3> QED
      BY <3>1, <3>2
  <2> QED
    BY <2>1, <2>2, <2>3, <2>4, <2>5 DEF TypeOK
<1>2. ServicesWhileLoaded'
  BY DEF Inv, SetUpEnd, Register, ServicesWhileLoaded, LiveMatchesState
<1>3. IdsOfEntries'
  BY NoneAssumption, EditsAssumption DEF Inv, config, runtime, service, SetUpEnd, Register, IdsOfEntries, TypeOK, Present, Configs
<1>4. LiveMatchesState'
  BY DEF Inv, config, SetUpEnd, LiveMatchesState, TypeOK, Present
<1>5. Current'
  <2>1. CASE state'[ee] = "loaded"
    <3>1. /\ coordinator'[ee].base = coordinator[ee].base /\ coordinator'[ee].minutes = coordinator[ee].minutes
          /\ \A g \in Entries \ {ee} : coordinator'[g] = coordinator[g] /\ state'[g] = state[g]
      BY <2>1, Serving DEF Inv, TypeOK, SetUpEnd
    <3> QED
      BY <2>1, <3>1 DEF Inv, Current, Late, SetUpEnd, config
  <2>2. CASE state'[ee] # "loaded"
    <3>1. ee \notin live /\ live' = live /\ state'[ee] = "not_loaded"
      BY <2>2 DEF Inv, TypeOK, LiveMatchesState, SetUpEnd
    <3>2. \A g \in Entries \ {ee} : coordinator'[g] = coordinator[g] /\ state'[g] = state[g]
      BY <2>2, <3>1 DEF Inv, TypeOK, SetUpEnd
    <3> QED
      BY <3>1, <3>2 DEF Inv, Current, Late, SetUpEnd, config
  <2> QED
    BY <2>1, <2>2
<1>6. EnteredLast'
  BY DEF Inv, config, SetUpEnd, EnteredLast
<1>7. Reviewed'
  BY DEF Inv, config, service, SetUpEnd, Reviewed
<1>8. WrittenWhereMeant'
  BY DEF Inv, config, service, SetUpEnd, WrittenWhereMeant
<1>9. GuidedPath'
  BY DEF Inv, SetUpEnd, GuidedPath
<1> QED
  BY <1>1, <1>2, <1>3, <1>4, <1>5, <1>6, <1>7, <1>8, <1>9 DEF Inv

LEMMA RefreshKeeps ==
  ASSUME Inv, NEW ee \in Entries, Refresh(ee)
  PROVE  Inv'
<1>1. TypeOK'
  <2>1. /\ entry' \in [Entries -> Configs \union {None}]
        /\ state' \in [Entries -> States]
        /\ entered' \in [Entries -> Inputs \union {None}]
        /\ files' \in [Folders -> {None} \union SUBSET Ids]
        /\ report' \in [Entries -> [Ids -> Folders \union {None}]]
        /\ call' \in CallRecords \union {None}
        /\ flow' \in [Flows -> Steps]
        /\ reload' \subseteq Entries /\ live' \subseteq Entries /\ registered' \subseteq Services
        /\ moved' \subseteq Entries /\ missed' \subseteq Entries /\ edits' \in 0 .. MaxEdits
    BY DEF TypeOK, Inv, config, runtime, service, Refresh
  <2>2. coordinator' \in [Entries -> Coordinators \union {None}]
    BY Serving DEF Inv, TypeOK, Refresh
  <2>3. Equipped'
    BY Serving DEF Inv, TypeOK, Equipped, Present, Refresh, config
  <2> QED
    BY <2>1, <2>2, <2>3 DEF TypeOK
<1>2. ServicesWhileLoaded'
  BY DEF Inv, Refresh, ServicesWhileLoaded
<1>3. IdsOfEntries'
  BY DEF Inv, config, Refresh, IdsOfEntries, Present
<1>4. LiveMatchesState'
  BY DEF Inv, config, Refresh, LiveMatchesState
<1>5. Current'
  BY DEF Inv, config, Refresh, Current, Late
<1>6. EnteredLast'
  BY DEF Inv, config, Refresh, EnteredLast
<1>7. Reviewed'
  BY DEF Inv, config, service, Refresh, Reviewed
<1>8. WrittenWhereMeant'
  BY DEF Inv, config, service, Refresh, WrittenWhereMeant
<1>9. GuidedPath'
  BY DEF Inv, Refresh, GuidedPath
<1> QED
  BY <1>1, <1>2, <1>3, <1>4, <1>5, <1>6, <1>7, <1>8, <1>9 DEF Inv

LEMMA UnloadKeeps ==
  ASSUME Inv, NEW ee \in Entries, Unload(ee)
  PROVE  Inv'
<1>1. TypeOK'
  <2>1. /\ entry' \in [Entries -> Configs \union {None}]
        /\ entered' \in [Entries -> Inputs \union {None}]
        /\ files' \in [Folders -> {None} \union SUBSET Ids]
        /\ report' \in [Entries -> [Ids -> Folders \union {None}]]
        /\ call' \in CallRecords \union {None}
        /\ flow' \in [Flows -> Steps]
    BY DEF TypeOK, Inv, config, runtime, service, Unload
  <2>2. state' \in [Entries -> States]
    BY DEF TypeOK, Inv, Unload, States
  <2>3. coordinator' \in [Entries -> Coordinators \union {None}]
    BY DEF TypeOK, Inv, Unload
  <2>4. /\ reload' \subseteq Entries /\ live' \subseteq Entries /\ registered' \subseteq Services
      /\ moved' \subseteq Entries /\ missed' \subseteq Entries /\ edits' \in 0 .. MaxEdits
    BY DEF TypeOK, Inv, Unload
  <2>5. Equipped'
    BY DEF TypeOK, Inv, Equipped, Present, Unload
  <2> QED
    BY <2>1, <2>2, <2>3, <2>4, <2>5 DEF TypeOK
<1>2. ServicesWhileLoaded'
  BY DEF Inv, Unload, ServicesWhileLoaded
<1>3. IdsOfEntries'
  BY NoneAssumption, EditsAssumption DEF Inv, config, runtime, service, Unload, IdsOfEntries, TypeOK, Present, Configs
<1>4. LiveMatchesState'
  BY DEF Inv, Unload, LiveMatchesState, TypeOK
<1>5. Current'
  BY DEF Inv, Unload, Current, TypeOK, Late
<1>6. EnteredLast'
  BY DEF Inv, Unload, EnteredLast
<1>7. Reviewed'
  BY DEF Inv, service, Unload, Reviewed
<1>8. WrittenWhereMeant'
  BY DEF Inv, service, Unload, WrittenWhereMeant
<1>9. GuidedPath'
  BY DEF Inv, Unload, GuidedPath
<1> QED
  BY <1>1, <1>2, <1>3, <1>4, <1>5, <1>6, <1>7, <1>8, <1>9 DEF Inv

LEMMA RemoveKeeps ==
  ASSUME Inv, NEW ee \in Entries, Remove(ee)
  PROVE  Inv'
<1>1. TypeOK'
  <2>1. /\ coordinator' \in [Entries -> Coordinators \union {None}]
        /\ files' \in [Folders -> {None} \union SUBSET Ids]
        /\ call' \in CallRecords \union {None}
        /\ flow' \in [Flows -> Steps]
    BY DEF TypeOK, Inv, config, runtime, service, Remove
  <2>2. entry' \in [Entries -> Configs \union {None}]
    BY DEF TypeOK, Inv, Remove
  <2>3. entered' \in [Entries -> Inputs \union {None}]
    BY DEF TypeOK, Inv, Remove
  <2>4. report' \in [Entries -> [Ids -> Folders \union {None}]]
    BY DEF TypeOK, Inv, Remove
  <2>5. state' \in [Entries -> States]
    BY DEF TypeOK, Inv, config, runtime, service, Remove, States
  <2>6. /\ reload' \subseteq Entries /\ live' \subseteq Entries /\ registered' \subseteq Services
      /\ moved' \subseteq Entries /\ missed' \subseteq Entries /\ edits' \in 0 .. MaxEdits
    BY DEF TypeOK, Inv, Remove
  <2>7. Equipped'
    BY DEF TypeOK, Inv, Equipped, Present, LiveMatchesState, runtime, service, Remove
  <2> QED
    BY <2>1, <2>2, <2>3, <2>4, <2>5, <2>6, <2>7 DEF TypeOK
<1>2. ServicesWhileLoaded'
  BY DEF Inv, Remove, ServicesWhileLoaded
<1>3. IdsOfEntries'
  BY DEF Inv, Remove, IdsOfEntries, TypeOK, Present
<1>4. LiveMatchesState'
  BY DEF Inv, Remove, LiveMatchesState, TypeOK
<1>5. Current'
  BY DEF Inv, Remove, Current, TypeOK, LiveMatchesState, Late
<1>6. EnteredLast'
  BY DEF Inv, Remove, EnteredLast, TypeOK
<1>7. Reviewed'
  BY DEF Inv, Remove, Reviewed, TypeOK, LiveMatchesState
<1>8. WrittenWhereMeant'
  BY DEF Inv, Remove, WrittenWhereMeant
<1>9. GuidedPath'
  BY DEF Inv, Remove, GuidedPath
<1> QED
  BY <1>1, <1>2, <1>3, <1>4, <1>5, <1>6, <1>7, <1>8, <1>9 DEF Inv

LEMMA CreateEndKeeps ==
  ASSUME Inv, CreateEnd
  PROVE  Inv'
<1>1. TypeOK'
  <2>1. /\ entry' \in [Entries -> Configs \union {None}]
        /\ state' \in [Entries -> States]
        /\ coordinator' \in [Entries -> Coordinators \union {None}]
        /\ entered' \in [Entries -> Inputs \union {None}]
        /\ report' \in [Entries -> [Ids -> Folders \union {None}]]
        /\ flow' \in [Flows -> Steps]
        /\ reload' \subseteq Entries /\ live' \subseteq Entries /\ registered' \subseteq Services
        /\ moved' \subseteq Entries /\ missed' \subseteq Entries /\ edits' \in 0 .. MaxEdits
    BY DEF TypeOK, Inv, config, runtime, CreateEnd, Return
  <2>2. files' \in [Folders -> {None} \union SUBSET Ids]
    <3>1. call.base \in Folders /\ call.id \in Ids
      BY NoneAssumption DEF Inv, TypeOK, CallRecords, CreateEnd
    <3>2. (IF files[call.base] = None THEN {} ELSE files[call.base]) \union {call.id} \in SUBSET Ids
      BY <3>1 DEF Inv, TypeOK
    <3> QED
      BY <3>1, <3>2 DEF Inv, TypeOK, CreateEnd, Written, Made
  <2>3. call' \in CallRecords \union {None}
    BY DEF CreateEnd, Return
  <2>4. Equipped'
    BY DEF TypeOK, Inv, Equipped, Present, config, runtime, CreateEnd, Return
  <2> QED
    BY <2>1, <2>2, <2>3, <2>4 DEF TypeOK
<1>2. ServicesWhileLoaded'
  BY DEF Inv, runtime, CreateEnd, Return, ServicesWhileLoaded
<1>3. IdsOfEntries'
  BY DEF Inv, config, runtime, CreateEnd, Return, IdsOfEntries, Present
<1>4. LiveMatchesState'
  BY DEF Inv, config, runtime, CreateEnd, Return, LiveMatchesState
<1>5. Current'
  BY DEF Inv, config, runtime, CreateEnd, Return, Current, Late
<1>6. EnteredLast'
  BY DEF Inv, config, CreateEnd, Return, EnteredLast
<1>7. Reviewed'
  BY DEF Inv, config, CreateEnd, Return, Reviewed
<1>8. WrittenWhereMeant'
  BY DEF CreateEnd, Return, WrittenWhereMeant
<1>9. GuidedPath'
  BY DEF Inv, CreateEnd, Return, GuidedPath
<1> QED
  BY <1>1, <1>2, <1>3, <1>4, <1>5, <1>6, <1>7, <1>8, <1>9 DEF Inv

LEMMA ImportKeeps ==
  ASSUME Inv, Import
  PROVE  Inv'
<1>1. TypeOK'
  <2>1. /\ entry' \in [Entries -> Configs \union {None}]
        /\ state' \in [Entries -> States]
        /\ coordinator' \in [Entries -> Coordinators \union {None}]
        /\ entered' \in [Entries -> Inputs \union {None}]
        /\ files' \in [Folders -> {None} \union SUBSET Ids]
        /\ call' \in CallRecords \union {None}
        /\ flow' \in [Flows -> Steps]
        /\ reload' \subseteq Entries /\ live' \subseteq Entries /\ registered' \subseteq Services
        /\ moved' \subseteq Entries /\ missed' \subseteq Entries /\ edits' \in 0 .. MaxEdits
    BY DEF TypeOK, Inv, config, runtime, Import
  <2>2. report' \in [Entries -> [Ids -> Folders \union {None}]]
    <3>1. PICK i \in Ids, e \in live : report' = [report EXCEPT ![e][i] = coordinator[e].base]
      BY DEF Import, FindByPortfolio
    <3>2. e \in Entries /\ coordinator[e].base \in Folders
      BY DEF Inv, TypeOK, Equipped, Coordinators
    <3> QED
      BY <3>1, <3>2, ReportChanged
  <2>3. Equipped'
    BY DEF TypeOK, Inv, Equipped, Present, config, runtime, Import
  <2> QED
    BY <2>1, <2>2, <2>3 DEF TypeOK
<1>2. ServicesWhileLoaded'
  BY DEF Inv, runtime, Import, ServicesWhileLoaded
<1>3. IdsOfEntries'
  BY DEF Inv, config, runtime, Import, IdsOfEntries, Present
<1>4. LiveMatchesState'
  BY DEF Inv, config, runtime, Import, LiveMatchesState
<1>5. Current'
  BY DEF Inv, config, runtime, Import, Current, Late
<1>6. EnteredLast'
  BY DEF Inv, config, Import, EnteredLast
<1>7. Reviewed'
  <2>1. PICK i \in Ids, e \in live : report' = [report EXCEPT ![e][i] = coordinator[e].base]
    BY DEF Import, FindByPortfolio
  <2>2. e \in Entries /\ coordinator[e].base \in Folders
    BY DEF Inv, TypeOK, Equipped, Coordinators
  <2>3. /\ report'[e][i] = coordinator[e].base
        /\ \A g \in Entries, j \in Ids : g # e \/ j # i => report'[g][j] = report[g][j]
    <3>1. report[e] \in [Ids -> Folders \union {None}]
      BY <2>2 DEF Inv, TypeOK
    <3>2. report' = [report EXCEPT ![e] = [report[e] EXCEPT ![i] = coordinator[e].base]]
      BY <2>1
    <3> QED
      BY <2>2, <3>1, <3>2 DEF Inv, TypeOK
  <2>4. entry[e] # None /\ (e \in moved \/ coordinator[e].base = FolderOf[entry[e].path])
    BY <2>2 DEF Inv, TypeOK, Equipped, Current
  <2> QED
    BY <2>3, <2>4 DEF Inv, Reviewed, Import, config
<1>8. WrittenWhereMeant'
  BY DEF Inv, config, Import, WrittenWhereMeant
<1>9. GuidedPath'
  BY DEF Inv, Import, GuidedPath
<1> QED
  BY <1>1, <1>2, <1>3, <1>4, <1>5, <1>6, <1>7, <1>8, <1>9 DEF Inv

LEMMA ApplyEndKeeps ==
  ASSUME Inv, ApplyEnd
  PROVE  Inv'
<1>1. TypeOK'
  <2>1. /\ entry' \in [Entries -> Configs \union {None}]
        /\ state' \in [Entries -> States]
        /\ coordinator' \in [Entries -> Coordinators \union {None}]
        /\ entered' \in [Entries -> Inputs \union {None}]
        /\ flow' \in [Flows -> Steps]
        /\ reload' \subseteq Entries /\ live' \subseteq Entries /\ registered' \subseteq Services
        /\ moved' \subseteq Entries /\ missed' \subseteq Entries /\ edits' \in 0 .. MaxEdits
    BY DEF TypeOK, Inv, config, runtime, service, ApplyEnd, Return
  <2>5. files' \in [Folders -> {None} \union SUBSET Ids]
    BY DEF TypeOK, Inv, ApplyEnd, Made
  <2>2. call' \in CallRecords \union {None}
    BY DEF ApplyEnd, Return
  <2>3. report' \in [Entries -> [Ids -> Folders \union {None}]]
    <3>1. call.entry \in Entries /\ call.id \in Ids
      BY NoneAssumption DEF Inv, TypeOK, CallRecords, ApplyEnd
    <3> QED
      BY <3>1, ReportChanged DEF Inv, TypeOK, ApplyEnd
  <2>4. Equipped'
    BY DEF TypeOK, Inv, Equipped, Present, Interval, config, runtime, service, ApplyEnd, Return
  <2> QED
    BY <2>1, <2>2, <2>3, <2>4, <2>5 DEF TypeOK
<1>2. ServicesWhileLoaded'
  BY DEF Inv, runtime, ApplyEnd, Return, ServicesWhileLoaded
<1>3. IdsOfEntries'
  BY DEF Inv, config, runtime, ApplyEnd, Return, IdsOfEntries, Present
<1>4. LiveMatchesState'
  BY DEF Inv, config, runtime, ApplyEnd, Return, LiveMatchesState
<1>5. Current'
  BY DEF Inv, config, runtime, ApplyEnd, Return, Current, Late
<1>6. EnteredLast'
  BY DEF Inv, config, ApplyEnd, Return, EnteredLast
<1>7. Reviewed'
  <2>1. call.entry \in Entries /\ call.id \in Ids
    BY NoneAssumption DEF Inv, TypeOK, CallRecords, ApplyEnd
  <2>2. CASE UNCHANGED report
    BY <2>2 DEF Inv, Reviewed, ApplyEnd, Return, config
  <2>3. CASE report' = [report EXCEPT ![call.entry][call.id] = None]
    <3>1. \A g \in Entries, j \in Ids : report'[g][j] # None => report'[g][j] = report[g][j]
      BY <2>1, <2>3, ReportChanged
    <3> QED
      BY <3>1 DEF Inv, Reviewed, ApplyEnd, Return, config
  <2> QED
    BY <2>2, <2>3 DEF ApplyEnd
<1>8. WrittenWhereMeant'
  BY DEF ApplyEnd, Return, WrittenWhereMeant
<1>9. GuidedPath'
  BY DEF Inv, ApplyEnd, Return, GuidedPath
<1> QED
  BY <1>1, <1>2, <1>3, <1>4, <1>5, <1>6, <1>7, <1>8, <1>9 DEF Inv

LEMMA UserStepKeeps ==
  ASSUME Inv, UserStep
  PROVE  Inv'
<1>1. PICK p \in Paths, m \in Minutes, e \in Entries : ~Taken(p, None) /\ Create(e, p, m)
  BY DEF UserStep
<1>2. UNCHANGED <<files, service, flow>>
  BY DEF UserStep
<1>3. flow' \in [Flows -> Steps]
  BY <1>2 DEF Inv, TypeOK
<1>4. GuidedPath'
  BY <1>2 DEF Inv, GuidedPath
<1> QED
  BY <1>1, <1>2, <1>3, <1>4, NewEntryKeeps

LEMMA GuidedFinishKeeps ==
  ASSUME Inv, NEW f \in Flows, GuidedFinish(f)
  PROVE  Inv'
<1>1. UNCHANGED <<files, service>>
  BY DEF GuidedFinish
<1>2. flow' \in [Flows -> Steps] /\ GuidedPath'
  BY FlowKeeps DEF GuidedFinish
<1>3. CASE UNCHANGED <<config, runtime>>
  <2>1. UNCHANGED <<files, config, runtime, service>>
    BY <1>1, <1>3
  <2> QED
    BY <1>2, <2>1, OnlyFlow
<1>4. ASSUME ~Taken(flow[f].path, None),
             NEW e \in Entries, NEW m \in Minutes, Create(e, flow[f].path, m)
      PROVE  Inv'
  <2>2. flow[f].path \in Paths
    BY DEF Inv, GuidedFinish, GuidedPath
  <2> QED
    BY <1>1, <1>2, <1>4, <2>2, NewEntryKeeps
<1> QED
  BY <1>3, <1>4 DEF GuidedFinish

LEMMA UserStepToGuidedKeeps ==
  ASSUME Inv, NEW f \in Flows, UserStepToGuided(f)
  PROVE  Inv'
<1>1. PICK p \in Paths : flow' = [flow EXCEPT ![f] = [step |-> "guided", path |-> p, closed |-> FALSE]]
  BY DEF UserStepToGuided
<1>2. UNCHANGED <<files, config, runtime, service>>
  BY DEF UserStepToGuided
<1>3. flow' \in [Flows -> Steps]
  BY <1>1 DEF Inv, TypeOK, Steps
<1>4. GuidedPath'
  BY <1>1 DEF Inv, TypeOK, GuidedPath
<1> QED
  BY <1>2, <1>3, <1>4, OnlyFlow

LEMMA CloseKeeps ==
  ASSUME Inv, NEW f \in Flows, Close(f)
  PROVE  Inv'
<1>1. UNCHANGED <<files, config, runtime, service>>
  BY DEF Close
<1>2. flow' \in [Flows -> Steps] /\ GuidedPath'
  BY FlowKeeps DEF Close
<1> QED
  BY <1>1, <1>2, OnlyFlow

LEMMA ReconfigureKeeps ==
  ASSUME Inv, NEW e \in Entries, Reconfigure(e)
  PROVE  Inv'
<1>1. MayEdit(e) /\ e \in Present /\ entry[e] \in Configs
  BY DEF Inv, TypeOK, Equipped, Reconfigure, MayEdit
<1>2. PICK p \in Paths, m \in Minutes :
        Configure(e, [entry[e] EXCEPT !.path = p, !.minutes = m], m, "reconfigure")
  BY DEF Reconfigure
<1>3. reload' = reload \union {e} /\ missed' = missed
  BY DEF Reconfigure
<1> DEFINE c == [entry[e] EXCEPT !.path = p, !.minutes = m]
<1>4. c \in Configs /\ c.uid = entry[e].uid /\ c.minutes = m /\ c.options = entry[e].options
  BY <1>1 DEF Configs
<1>5. Interval(c) = m \/ c.options # None
  BY <1>4 DEF Interval
<1> HIDE DEF c
<1>6. Configure(e, c, m, "reconfigure")
  BY <1>2 DEF c
<1>7. /\ c.path # entry[e].path => e \in reload'
      /\ state[e] \in {"setup", "loaded"} => e \in reload' \union missed'
      /\ reload \subseteq reload' /\ reload' \subseteq reload \union {e}
      /\ missed \subseteq missed' /\ missed' \subseteq missed \union {e}
  BY <1>3
<1>8. Interval(c) = m \/ ("reconfigure" = "reconfigure" /\ c.options # None)
  BY <1>5
<1> QED
  BY <1>1, <1>4, <1>6, <1>7, <1>8, NewConfigurationKeeps

LEMMA OptionsKeeps ==
  ASSUME Inv, NEW e \in Entries, Options(e)
  PROVE  Inv'
<1>1. MayEdit(e) /\ e \in Present /\ entry[e] \in Configs
  BY DEF Inv, TypeOK, Equipped, Options, MayEdit
<1>2. PICK m \in Minutes : Configure(e, [entry[e] EXCEPT !.options = m], m, "options")
  BY DEF Options
<1>3. /\ reload' = IF state[e] = "loaded" THEN reload \union {e} ELSE reload
      /\ missed' = IF state[e] = "setup" THEN missed \union {e} ELSE missed
  BY DEF Options
<1> DEFINE c == [entry[e] EXCEPT !.options = m]
<1>4. c \in Configs /\ c.uid = entry[e].uid /\ c.path = entry[e].path /\ c.options = m
  BY <1>1 DEF Configs
<1>5. Interval(c) = m
  BY <1>4, NoneAssumption DEF Interval
<1> HIDE DEF c
<1>6. Configure(e, c, m, "options")
  BY <1>2 DEF c
<1>7. /\ c.path # entry[e].path => e \in reload'
      /\ state[e] \in {"setup", "loaded"} => e \in reload' \union missed'
      /\ reload \subseteq reload' /\ reload' \subseteq reload \union {e}
      /\ missed \subseteq missed' /\ missed' \subseteq missed \union {e}
  BY <1>3, <1>4
<1>8. Interval(c) = m \/ ("options" = "reconfigure" /\ c.options # None)
  BY <1>5
<1> QED
  BY <1>1, <1>4, <1>6, <1>7, <1>8, NewConfigurationKeeps

LEMMA CreateStartKeeps ==
  ASSUME Inv, CreateStart
  PROVE  Inv'
<1>1. PICK p \in Paths, i \in Ids, e \in live :
        entry[e].path = p /\ Called("create", e, i, FolderOf[p], Late(e))
  BY DEF CreateStart, FindByPath
<1>2. e \in Entries /\ Late(e) \in BOOLEAN
  BY DEF Inv, TypeOK, Late
<1>3. coordinator[e].base # FolderOf[p] => Late(e)
  BY <1>1, <1>2 DEF Inv, Current
<1>4. FolderOf[p] \in Folders
  BY <1>1, FolderAssumption
<1> QED
  BY <1>1, <1>2, <1>3, <1>4, CalledKeeps

LEMMA ApplyStartKeeps ==
  ASSUME Inv, ApplyStart
  PROVE  Inv'
<1>1. PICK i \in Ids, e \in live : report[e][i] # None /\ Called("apply", e, i, report[e][i], FALSE)
  BY DEF ApplyStart, FindByPortfolio
<1>2. e \in Entries /\ report[e][i] \in Folders
  BY <1>1 DEF Inv, TypeOK
<1>3. coordinator[e].base # report[e][i] => e \in moved
  BY <1>1, <1>2 DEF Inv, Current, Reviewed
<1> QED
  BY <1>1, <1>2, <1>3, CalledKeeps

----------------------------------------------------------------------------
(* The invariant holds *)

LEMMA InitInv ==
  ASSUME Init
  PROVE  Inv
<1>1. TypeOK
  BY EditsAssumption DEF Init, TypeOK, Equipped, Present, States, Steps, Opened
<1>2. ServicesWhileLoaded /\ LiveMatchesState /\ Current /\ EnteredLast /\ Reviewed
  BY DEF Init, ServicesWhileLoaded, LiveMatchesState, Current, EnteredLast, Reviewed
<1>3. IdsOfEntries /\ GuidedPath /\ WrittenWhereMeant
  BY DEF Init, IdsOfEntries, Present, GuidedPath, Opened, WrittenWhereMeant
<1> QED
  BY <1>1, <1>2, <1>3 DEF Inv

LEMMA NextInv ==
  ASSUME Inv, [Next]_vars
  PROVE  Inv'
<1>1. CASE UserStep
  BY <1>1, UserStepKeeps
<1>2. ASSUME NEW f \in Flows, Dialog(f) PROVE Inv'
  BY <1>2, UserStepToGuidedKeeps, MakeFolderKeeps, GuidedWriteKeeps, GuidedFinishKeeps, CloseKeeps DEF Dialog
<1>3. ASSUME NEW e \in Entries, Lifecycle(e) PROVE Inv'
  <2>1. CASE Reconfigure(e) \/ Options(e)
    BY <2>1, ReconfigureKeeps, OptionsKeeps
  <2>2. CASE SetUpStart(e) \/ SetUpEnd(e)
    BY <2>2, SetUpStartKeeps, SetUpEndKeeps
  <2>3. CASE Refresh(e) \/ Unload(e) \/ Remove(e)
    BY <2>3, RefreshKeeps, UnloadKeeps, RemoveKeeps
  <2> QED
    BY <1>3, <2>1, <2>2, <2>3 DEF Lifecycle
<1>4. CASE Service
  BY <1>4, CreateStartKeeps, CreateEndKeeps, ImportKeeps, ApplyStartKeeps, ApplyEndKeeps DEF Service
<1>5. ASSUME NEW d \in Folders, Edit(d) PROVE Inv'
  BY <1>5, EditKeeps
<1>7. CASE Restart
  BY <1>7, RestartKeeps
<1>6. CASE UNCHANGED vars
  <2>1. /\ UNCHANGED <<files, config, runtime, service>>
        /\ flow' = flow
    BY <1>6 DEF vars
  <2>2. /\ flow' \in [Flows -> Steps]
        /\ GuidedPath'
    BY <2>1 DEF Inv, TypeOK, GuidedPath
  <2> QED
    BY <2>1, <2>2, OnlyFlow
<1> QED
  BY <1>1, <1>2, <1>3, <1>4, <1>5, <1>6, <1>7 DEF Next

LEMMA SpecInv == Spec => []Inv
<1>1. Init => Inv
  BY InitInv
<1>2. Inv /\ [Next]_vars => Inv'
  BY NextInv
<1> QED
  BY <1>1, <1>2, PTL DEF Spec

----------------------------------------------------------------------------
(* What follows *)

\* Types, and what each state of an entry needs, for any number of entries,
\* folders and dialogs (config_flow.py, __init__.py, services.py).
THEOREM TypeCorrect == Spec => []TypeOK
<1>1. Inv => TypeOK
  BY DEF Inv
<1> QED
  BY <1>1, SpecInv, PTL

\* async_register_services and async_unload_entry: the services are registered
\* exactly while some coordinator is in hass.data.
THEOREM ServicesMatchCoordinators == Spec => []ServicesWhileLoaded
<1>1. Inv => ServicesWhileLoaded
  BY DEF Inv
<1> QED
  BY <1>1, SpecInv, PTL

\* _abort_if_unique_id_configured: of two entries for one folder, one was moved
\* there by async_step_reconfigure, or the folder was typed in two ways.
THEOREM OneEntryPerFolder == Spec => []SameFolderOnlyWithReason
<1>1. Inv => SameFolderOnlyWithReason
  BY DEF Inv, IdsOfEntries, SameFolderOnlyWithReason
<1> QED
  BY <1>1, SpecInv, PTL

\* PortfolioCoordinator.__init__ takes folder and interval over once: they are
\* those of the entry unless a reload is due, has failed, or was never asked for.
THEOREM CoordinatorIsCurrent == Spec => []CurrentUnlessPending
<1>1. Inv => CurrentUnlessPending
  BY DEF Inv, TypeOK, Current, CurrentUnlessPending
<1> QED
  BY <1>1, SpecInv, PTL

\* The folder that create_portfolio and apply_import write to is the one that
\* is meant, except by a coordinator to be replaced or an entry that was moved.
THEOREM CallsWriteWhereMeant == Spec => []WrittenWhereMeant
<1>1. Inv => WrittenWhereMeant
  BY DEF Inv
<1> QED
  BY <1>1, SpecInv, PTL

\* The interval in force is the one the user entered last, except where a
\* reconfiguration is shadowed by the options.
THEOREM IntervalInForce == Spec => []IntervalIsTheLastEntered
<1>1. Inv => IntervalIsTheLastEntered
  <2> SUFFICES ASSUME Inv, NEW e \in live
               PROVE  \/ Late(e) \/ e \in missed
                      \/ coordinator[e].minutes = entered[e].minutes
                      \/ entered[e].by = "reconfigure" /\ entry[e].options # None
    BY DEF IntervalIsTheLastEntered
  <2>1. e \in Entries /\ entry[e] # None
    BY DEF Inv, TypeOK, Equipped
  <2> QED
    BY <2>1 DEF Inv, Current, EnteredLast
<1> QED
  BY <1>1, SpecInv, PTL

\* _async_finish_guided_setup: the folder that a guided dialog has written to is
\* some entry's when the dialog ends, unless that entry was moved away, or the
\* dialog was closed or Home Assistant stopped before the entry was made.
THEOREM GuidedFolderIsTracked == Spec => GuidedIsTracked
<1>1. ASSUME Inv, Next, ~Restart,
             NEW f \in Flows, flow[f].step = "written", flow'[f].step # "written", ~flow[f].closed
      PROVE  \E e \in Present' : /\ entry'[e].uid = flow[f].path
                               /\ (entry'[e].path = flow[f].path \/ e \in moved)
  <2>1. GuidedFinish(f)
    <3>1. flow' # flow
      BY <1>1
    <3>2. ~UserStep /\ ~(\E e \in Entries : Lifecycle(e)) /\ ~Service /\ ~(\E d \in Folders : Edit(d))
      BY <3>1 DEF UserStep, Lifecycle, Reconfigure, Options, Configure, SetUpStart, SetUpEnd, Refresh,
                  Unload, Remove, Service, CreateStart, CreateEnd, Import, ApplyStart, ApplyEnd, Called,
                  Return, Edit
    <3>3. PICK g \in Flows : Dialog(g)
      BY <1>1, <3>2 DEF Next
    <3>4. ~MakeFolder(g)
      BY <3>1 DEF MakeFolder
    <3>5. g = f
      BY <1>1, <3>3, <3>4 DEF Dialog, UserStepToGuided, GuidedWrite, GuidedFinish, Close, End, Goto, Inv, TypeOK
    <3>6. ~Close(f)
      <4>1. SUFFICES ASSUME Close(f) PROVE FALSE
        OBVIOUS
      <4>2. flow' = [flow EXCEPT ![f].closed = TRUE]
        BY <1>1, <4>1 DEF Close
      <4>3. flow[f] \in Steps /\ flow' = [flow EXCEPT ![f] = [flow[f] EXCEPT !.closed = TRUE]]
        BY <1>1, <4>2 DEF Inv, TypeOK
      <4> QED
        BY <1>1, <4>3 DEF Inv, TypeOK, Steps
    <3> QED
      BY <1>1, <3>3, <3>4, <3>5, <3>6 DEF Dialog, UserStepToGuided, GuidedWrite
  <2>2. CASE Taken(flow[f].path, None) /\ UNCHANGED <<config, runtime>>
    <3>2. PICK e \in Present : entry[e].uid = flow[f].path
      BY <2>2 DEF Taken
    <3>3. e \in moved \/ entry[e].path = entry[e].uid
      BY <1>1 DEF Inv, IdsOfEntries
    <3> QED
      BY <2>2, <3>2, <3>3 DEF Present, config, runtime
  <2>3. ASSUME NEW e \in Entries, NEW m \in Minutes, Create(e, flow[f].path, m)
        PROVE  \E g \in Present' : /\ entry'[g].uid = flow[f].path
                                 /\ (entry'[g].path = flow[f].path \/ g \in moved)
    <3>2. entry'[e].uid = flow[f].path /\ entry'[e].path = flow[f].path /\ state'[e] = "not_loaded"
      BY <1>1, <2>3 DEF Create, Inv, TypeOK
    <3> QED
      BY <3>2 DEF Present
  <2> QED
    BY <1>1, <2>1, <2>2, <2>3 DEF GuidedFinish
<1>2. Inv /\ [Next]_vars =>
        [\A f \in Flows : flow[f].step = "written" /\ flow'[f].step # "written" =>
           \/ flow[f].closed
           \/ Restart
           \/ \E e \in Present' : /\ entry'[e].uid = flow[f].path
                                 /\ (entry'[e].path = flow[f].path \/ e \in moved)]_vars
  BY <1>1
<1> QED
  BY <1>2, SpecInv, PTL DEF Spec, GuidedIsTracked
=============================================================================
