--------------------- MODULE PortfolioCoordinator_proofs ---------------------
(***************************************************************************)
(* Proofs about PortfolioCoordinator, for any number of loads and days.    *)
(* The snapshot and issue properties rest on Alone: as long as no refresh  *)
(* has outlived its coordinator, the only one in flight is that of the     *)
(* coordinator the entry has, or is being set up with.                     *)
(***************************************************************************)
EXTENDS PortfolioCoordinator, TLAPS

\* No refresh in flight but that of the entry's own coordinator.
Alone == ~outlived => \A g \in Loads : tick[g] # None => Serves(g)

\* A refresh that is about to store a snapshot knows that the day has none,
\* and what it has loaded is still what is stored.
Decided ==
  ~outlived => \A g \in Loads : tick[g] # None =>
    /\ tick[g].stage = "loading" => snapshots[tick[g].day] = 0
    /\ tick[g].stage = "saving" => /\ snapshots[tick[g].day] = 0
                                   /\ tick[g].stored = snapshots

\* An entry is removed with a coordinator only if its unload has failed.
RemovedAlive == (entry = "removed" /\ ~skipped) => live = 0

IInv == TypeOK /\ Alone /\ Decided /\ OneSnapshotPerDay /\ RemovedAlive
          /\ IssuesMatchData /\ UnloadedIsClean

----------------------------------------------------------------------------
(* Types *)

\* The stages through which Proceed takes a refresh keep it a refresh.
LEMMA TickType ==
  ASSUME NEW t \in Ticks
  PROVE  /\ \A st \in {"fetching", "reading", "loading", "saving", "reporting"} :
              /\ [t EXCEPT !.stage = st] \in Ticks
              /\ \A e \in BOOLEAN : [t EXCEPT !.stage = st, !.error = e] \in Ticks
              /\ \A d \in Days : [t EXCEPT !.stage = st, !.day = d] \in Ticks
              /\ \A s \in [Days -> Nat] : [t EXCEPT !.stage = st, !.stored = s] \in Ticks
         /\ t.day \in Days /\ t.stored \in [Days -> Nat] /\ t.file \in Files
         /\ t.error \in BOOLEAN
BY DEF Ticks

LEMMA TickFields ==
  ASSUME NEW t \in Ticks, NEW st
  PROVE  /\ [t EXCEPT !.stage = st].stage = st
         /\ \A e : [t EXCEPT !.stage = st, !.error = e].stage = st
         /\ \A d : /\ [t EXCEPT !.stage = st, !.day = d].stage = st
                  /\ [t EXCEPT !.stage = st, !.day = d].day = d
         /\ \A s : /\ [t EXCEPT !.stage = st, !.stored = s].stage = st
                  /\ [t EXCEPT !.stage = st, !.stored = s].day = t.day
                  /\ [t EXCEPT !.stage = st, !.stored = s].stored = s
BY DEF Ticks

\* A refresh that goes on with a tick of the right type.
LEMMA GoOnType ==
  ASSUME TypeOK, NEW g \in Loads, NEW t \in Ticks, GoOn(g, t), Stay,
         snapshots' \in [Days -> Nat]
  PROVE  TypeOK'
BY DEF TypeOK, GoOn, Stay, coordinator, Loads

\* A refresh that ends in a failure.
LEMMA FailType ==
  ASSUME TypeOK, NEW g \in Loads, NEW b \in BOOLEAN, Fail(g, b), Stay,
         UNCHANGED snapshots
  PROVE  TypeOK'
BY DEF TypeOK, Fail, Ended, EntryAfter, Serves, Stay, Loads, States, Keys

LEMMA BeginType ==
  ASSUME TypeOK, NEW g \in Loads, NEW by \in {"interval", "request", "setup"},
         Begin(g, by), Stay, UNCHANGED snapshots
  PROVE  TypeOK'
<1>1. [stage |-> "fetching", by |-> by, file |-> file, error |-> FALSE,
       day |-> 0, stored |-> NoSnapshots] \in Ticks
  BY BoundsAssumption DEF TypeOK, Ticks, Days, NoSnapshots
<1>2. QED
  BY <1>1, GoOnType, FailType DEF Begin, TypeOK

\* Init => TypeOK.
LEMMA InitType == Init => TypeOK
<1> SUFFICES ASSUME Init
             PROVE  TypeOK
  OBVIOUS
<1>1. tick \in [Loads -> {None} \union Ticks] /\ snapshots \in [Days -> Nat]
  BY DEF Init
<1>2. today \in Days /\ loads \in 0 .. MaxLoads /\ entry \in States
  BY BoundsAssumption DEF Init, Days, States
<1>3. QED
  BY <1>1, <1>2 DEF Init, TypeOK

\* Every step preserves the types.
LEMMA NextType == TypeOK /\ [Next]_vars => TypeOK'
<1> SUFFICES ASSUME TypeOK, [Next]_vars
             PROVE  TypeOK'
  OBVIOUS
<1>1. ASSUME NEW by \in {"interval", "request"}, Refresh(by)
      PROVE  TypeOK'
  <2>1. live \in Loads
    BY <1>1 DEF TypeOK, Refresh
  <2>2. QED
    BY <1>1, <2>1, BeginType DEF Refresh
<1>2. ASSUME NEW g \in Loads, FetchFails(g)
      PROVE  TypeOK'
  BY <1>2, FailType DEF FetchFails
<1>3. ASSUME NEW g \in Loads, tick[g] # None
      PROVE  tick[g] \in Ticks
  BY <1>3 DEF TypeOK
<1>4. ASSUME NEW g \in Loads, Fetched(g)
      PROVE  TypeOK'
  BY <1>4, <1>3, TickType, GoOnType DEF Fetched, At, TypeOK
<1>5. ASSUME NEW g \in Loads, SnapshotsRead(g)
      PROVE  TypeOK'
  <2>1. tick[g] \in Ticks
    BY <1>5, <1>3 DEF SnapshotsRead, At
  <2>2. CASE Fail(g, TRUE)
    BY <2>2, <1>5, FailType DEF SnapshotsRead
  <2>3. CASE StoreFails(g)
    BY <2>3, <2>1, <1>5, TickType, GoOnType DEF SnapshotsRead, StoreFails, TypeOK
  <2>4. CASE GoOn(g, IF Due(snapshots, today)
                     THEN [tick[g] EXCEPT !.stage = "loading", !.day = today]
                     ELSE [tick[g] EXCEPT !.stage = "reporting"])
    <3>1. (IF Due(snapshots, today)
             THEN [tick[g] EXCEPT !.stage = "loading", !.day = today]
             ELSE [tick[g] EXCEPT !.stage = "reporting"]) \in Ticks
      BY <2>1, TickType DEF TypeOK
    <3>2. QED
      BY <2>4, <3>1, <1>5, GoOnType DEF SnapshotsRead, TypeOK
  <2>5. QED
    BY <2>2, <2>3, <2>4, <1>5 DEF SnapshotsRead
<1>6. ASSUME NEW g \in Loads, AppendLoaded(g)
      PROVE  TypeOK'
  <2>1. tick[g] \in Ticks
    BY <1>6, <1>3 DEF AppendLoaded, At
  <2>2. CASE StoreFails(g)
    BY <2>2, <2>1, <1>6, TickType, GoOnType DEF AppendLoaded, StoreFails, TypeOK
  <2>3. CASE GoOn(g, [tick[g] EXCEPT !.stage = "saving", !.stored = snapshots])
    BY <2>3, <2>1, <1>6, TickType, GoOnType DEF AppendLoaded, TypeOK
  <2>4. QED
    BY <2>2, <2>3, <1>6 DEF AppendLoaded
<1>7. ASSUME NEW g \in Loads, AppendSaved(g)
      PROVE  TypeOK'
  <2>1. tick[g] \in Ticks
    BY <1>7, <1>3 DEF AppendSaved, At
  <2>2. snapshots' \in [Days -> Nat]
    <3>1. CASE UNCHANGED snapshots
      BY <3>1 DEF TypeOK
    <3>2. CASE snapshots' = [tick[g].stored EXCEPT ![tick[g].day] = @ + 1]
      <4>1. PICK s \in [Days -> Nat], d \in Days : tick[g].stored = s /\ tick[g].day = d
        BY <2>1, TickType
      <4>2. snapshots' = [s EXCEPT ![d] = s[d] + 1]
        BY <3>2, <4>1
      <4>3. QED
        BY <4>1, <4>2
    <3>3. QED
      BY <3>1, <3>2, <1>7 DEF AppendSaved
  <2>3. NoSnapshots \in [Days -> Nat]
    BY DEF NoSnapshots
  <2>4. QED
    BY <1>7, <2>1, <2>2, <2>3, TickType, GoOnType DEF AppendSaved
<1>8. ASSUME NEW g \in Loads, ReportFails(g)
      PROVE  TypeOK'
  BY <1>8, FailType DEF ReportFails
<1>9. ASSUME NEW g \in Loads, ReportRead(g)
      PROVE  TypeOK'
  <2>1. tick[g] \in Ticks
    BY <1>9, <1>3 DEF ReportRead, At
  <2>2. PICK missing \in BOOLEAN :
          LET d == [file |-> tick[g].file, missing |-> missing, error |-> tick[g].error]
          IN  Sync(d) /\ Ended(g, TRUE) /\ data' = IF Serves(g) THEN d ELSE data
    BY <1>9 DEF ReportRead
  <2>3. [file |-> tick[g].file, missing |-> missing, error |-> tick[g].error] \in Datas
    BY <2>1, TickType DEF Datas
  <2>4. issues' \subseteq Keys
    BY <2>2 DEF Sync, Called, Keys
  <2>5. UNCHANGED <<file, today, loads, snapshots, outlived, skipped>>
    BY <1>9 DEF ReportRead, Stay
  <2>6. tick' \in [Loads -> {None} \union Ticks]
    BY <2>2 DEF Ended, TypeOK
  <2>7. CASE Serves(g)
    <3>1. data' \in Datas /\ data' # None
      BY <2>2, <2>3, <2>7, NoneAssumption
    <3>2. live' = g /\ lastOk' = TRUE /\ g = loads
      BY <2>2, <2>7 DEF Ended, Serves, TypeOK, Loads
    <3>3. entry' = IF entry = "setup" THEN "loaded" ELSE entry
      BY <2>2, <3>2 DEF Ended, EntryAfter
    <3>4. entry' \notin {"not_loaded", "setup", "retry"}
      BY <2>7, <3>3 DEF Serves, TypeOK, Loads
    <3>5. QED
      BY <2>4, <2>5, <2>6, <3>1, <3>2, <3>3, <3>4 DEF TypeOK, Loads, States
  <2>8. CASE ~Serves(g)
    BY <2>2, <2>4, <2>5, <2>6, <2>8 DEF TypeOK, Ended, EntryAfter, Serves
  <2>9. QED
    BY <2>7, <2>8
<1>10. CASE SetUp
  BY <1>10, BoundsAssumption DEF SetUp, TypeOK, States, Loads
<1>11. CASE FirstRefresh
  <2>1. loads \in Loads
    BY <1>11 DEF FirstRefresh, TypeOK, Loads
  <2>2. QED
    BY <1>11, <2>1, BeginType DEF FirstRefresh
<1>12. CASE UnloadStart
  BY <1>12 DEF UnloadStart, TypeOK, States, coordinator
<1>13. CASE UnloadFails
  BY <1>13 DEF UnloadFails, TypeOK, States, coordinator
<1>14. CASE UnloadDone
  BY <1>14 DEF UnloadDone, TypeOK, States, AfterUnload
<1>15. CASE Leave
  BY <1>15 DEF Leave, TypeOK, States, coordinator
<1>16. CASE Edit
  BY <1>16 DEF Edit, TypeOK, coordinator
<1>17. CASE Midnight
  BY <1>17, BoundsAssumption DEF Midnight, TypeOK, Days, coordinator
<1>18. CASE Restart
  BY <1>18 DEF Restart, TypeOK, States
<1>19. CASE UNCHANGED vars
  BY <1>19 DEF vars, TypeOK, coordinator
<1>20. QED
  BY <1>1, <1>2, <1>4, <1>5, <1>6, <1>7, <1>8, <1>9, <1>10, <1>11, <1>12, <1>13,
     <1>14, <1>15, <1>16, <1>17, <1>18, <1>19 DEF Next, Proceed

\* Every variable keeps its type, and the entry's state and the coordinator
\* in hass.data agree (TypeOK), for any number of loads and days.
THEOREM TypeCorrect == Spec => []TypeOK
<1>1. Init => TypeOK
  BY InitType
<1>2. TypeOK /\ [Next]_vars => TypeOK'
  BY NextType
<1>3. QED
  BY <1>1, <1>2, PTL DEF Spec

----------------------------------------------------------------------------
(* What a refresh does to the parts of the invariant *)

\* As long as no refresh has outlived its coordinator, two that are in flight
\* are the same.
LEMMA AtMostOne ==
  ASSUME TypeOK, Alone, ~outlived, NEW g \in Loads, NEW h \in Loads,
         tick[g] # None, tick[h] # None
  PROVE  g = h
BY DEF Alone, Serves, TypeOK, Loads

\* A refresh that goes on to a stage that stores nothing, or has decided so.
LEMMA GoOnStep ==
  ASSUME IInv, NEW g \in Loads, NEW t \in Ticks, GoOn(g, t), Stay,
         tick[g] # None \/ Serves(g),
         UNCHANGED snapshots,
         ~outlived => /\ t.stage = "loading" => snapshots[t.day] = 0
                      /\ t.stage = "saving" => snapshots[t.day] = 0 /\ t.stored = snapshots
  PROVE  IInv'
<1>1. TypeOK'
  BY GoOnType DEF IInv, TypeOK
<1>2. /\ UNCHANGED <<file, today, loads, snapshots, outlived, skipped, entry, live, data, lastOk, issues>>
      /\ \A h \in Loads : tick'[h] = IF h = g THEN t ELSE tick[h]
  BY DEF GoOn, Stay, coordinator, IInv, TypeOK
<1>3. Alone'
  BY <1>2 DEF IInv, Alone, Serves
<1>4. Decided'
  BY <1>2 DEF IInv, Decided
<1>5. QED
  BY <1>1, <1>2, <1>3, <1>4
  DEF IInv, OneSnapshotPerDay, RemovedAlive, IssuesMatchData, UnloadedIsClean

\* A refresh that fails.
LEMMA FailStep ==
  ASSUME IInv, NEW g \in Loads, NEW b \in BOOLEAN, Fail(g, b), Stay,
         tick[g] # None \/ Serves(g), UNCHANGED snapshots
  PROVE  IInv'
<1>1. TypeOK'
  BY FailType DEF IInv
<1>2. /\ UNCHANGED <<file, today, loads, snapshots, outlived, skipped, data, live>>
      /\ \A h \in Loads : tick'[h] = IF h = g THEN None ELSE tick[h]
      /\ issues' \in {issues, issues \union {"malformed"}}
      /\ entry' \in {entry, EntryAfter(g, FALSE)}
  BY DEF Fail, Ended, Stay, IInv, TypeOK
<1>3. ~outlived => Serves(g)
  BY DEF IInv, Alone
<1>4. Alone'
  <2>1. SUFFICES ASSUME ~outlived, NEW h \in Loads, tick[h] # None, h # g
                 PROVE  FALSE
    BY <1>2 DEF Alone
  <2>2. Serves(h) /\ Serves(g)
    BY <1>3, <2>1 DEF IInv, Alone
  <2>3. QED
    BY <2>1, <2>2 DEF Serves, IInv, TypeOK, Loads
<1>5. Decided'
  BY <1>2 DEF IInv, Decided
<1>6. ~outlived => entry \notin {"not_loaded"} /\ (entry = "removed" => skipped)
  BY <1>3 DEF Serves, IInv, TypeOK, RemovedAlive, Loads
<1>7. ~outlived => entry' \notin {"not_loaded"} /\ (entry' = "removed" => skipped)
  BY <1>2, <1>6 DEF EntryAfter
<1>8. UnloadedIsClean'
  BY <1>2, <1>7 DEF UnloadedIsClean
<1>9. RemovedAlive'
  BY <1>2 DEF RemovedAlive, EntryAfter, IInv
<1>10. IssuesMatchData'
  <2>1. SUFFICES ASSUME live # 0, ~outlived
                 PROVE  issues' \ {"malformed"} = Called(data) /\ ~lastOk'
    BY <1>2 DEF IssuesMatchData
  <2>2. issues \ {"malformed"} = Called(data)
    BY <2>1 DEF IInv, IssuesMatchData
  <2>3. ~lastOk'
    BY <1>3, <2>1 DEF Fail, Ended
  <2>4. QED
    BY <1>2, <2>2, <2>3
<1>11. QED
  BY <1>1, <1>2, <1>4, <1>5, <1>8, <1>9, <1>10 DEF IInv, OneSnapshotPerDay

LEMMA BeginStep ==
  ASSUME IInv, NEW g \in Loads, NEW by \in {"interval", "request", "setup"},
         Begin(g, by), Serves(g), Stay, UNCHANGED snapshots
  PROVE  IInv'
<1> DEFINE t == [stage |-> "fetching", by |-> by, file |-> file, error |-> FALSE,
                 day |-> 0, stored |-> NoSnapshots]
<1>1. t \in Ticks /\ t.stage = "fetching"
  BY BoundsAssumption DEF IInv, TypeOK, Ticks, Days, NoSnapshots
<1>2. CASE GoOn(g, t)
  <2>1. t.stage # "loading" /\ t.stage # "saving"
    BY <1>1
  <2> HIDE DEF t
  <2>2. QED
    BY <1>1, <1>2, <2>1, GoOnStep
<1>3. CASE \E b \in BOOLEAN : Fail(g, b)
  BY <1>3, FailStep
<1>4. QED
  BY <1>2, <1>3 DEF Begin

\* A refresh that succeeds: the issues are those of its data.
LEMMA SuccessStep ==
  ASSUME IInv, NEW g \in Loads, ReportRead(g)
  PROVE  IInv'
<1>1. PICK d \in Datas : Sync(d) /\ Ended(g, TRUE) /\ data' = IF Serves(g) THEN d ELSE data
  <2>1. tick[g] \in Ticks
    BY DEF ReportRead, At, IInv, TypeOK
  <2>2. PICK missing \in BOOLEAN :
          LET d == [file |-> tick[g].file, missing |-> missing, error |-> tick[g].error]
          IN  Sync(d) /\ Ended(g, TRUE) /\ data' = IF Serves(g) THEN d ELSE data
    BY DEF ReportRead
  <2>3. [file |-> tick[g].file, missing |-> missing, error |-> tick[g].error] \in Datas
    BY <2>1, TickType DEF Datas
  <2>4. QED
    BY <2>2, <2>3
<1>2. TypeOK'
  BY NextType DEF IInv, Next, Proceed
<1>3. /\ UNCHANGED <<file, today, loads, snapshots, outlived, skipped>>
      /\ \A h \in Loads : tick'[h] = IF h = g THEN None ELSE tick[h]
      /\ issues' = Called(d)
      /\ entry' \in {entry, EntryAfter(g, TRUE)}
  BY <1>1 DEF ReportRead, Ended, Stay, IInv, TypeOK, Sync
<1>4. ~outlived => Serves(g)
  BY DEF IInv, Alone, ReportRead, At
<1>5. Alone'
  <2>1. SUFFICES ASSUME ~outlived, NEW h \in Loads, tick[h] # None, h # g
                 PROVE  FALSE
    BY <1>3 DEF Alone
  <2>2. QED
    BY <2>1, AtMostOne DEF IInv, ReportRead, At
<1>6. Decided'
  BY <1>3 DEF IInv, Decided
<1>7. ~outlived => entry' # "not_loaded" /\ (entry' = "removed" => skipped)
  BY <1>3, <1>4 DEF EntryAfter, Serves, IInv, TypeOK, RemovedAlive, Loads
<1>8. UnloadedIsClean'
  BY <1>3, <1>7 DEF UnloadedIsClean
<1>9. RemovedAlive'
  BY <1>1, <1>3 DEF RemovedAlive, EntryAfter, IInv, Ended, Serves
<1>10. IssuesMatchData'
  <2>1. ~outlived => data' = d
    BY <1>1, <1>4
  <2>2. issues' = Called(d) /\ Called(d) \ {"malformed"} = Called(d) /\ "malformed" \notin Called(d)
    BY <1>3 DEF Called
  <2>3. QED
    BY <1>3, <2>1, <2>2 DEF IssuesMatchData
<1>11. QED
  BY <1>2, <1>3, <1>5, <1>6, <1>8, <1>9, <1>10 DEF IInv, OneSnapshotPerDay

\* The save of an append: the snapshots of the other days stay, and the day
\* that had none has one.
LEMMA SaveStep ==
  ASSUME IInv, NEW g \in Loads, AppendSaved(g)
  PROVE  /\ IInv'
         /\ ~outlived => \A d \in Days : snapshots'[d] >= snapshots[d]
<1>1. tick[g] \in Ticks /\ tick[g].day \in Days /\ tick[g].stage = "saving"
  BY TickType DEF AppendSaved, At, IInv, TypeOK
<1>2. TypeOK'
  BY NextType DEF IInv, Next, Proceed
<1>3. PICK t \in Ticks : GoOn(g, t) /\ t.stage = "reporting"
  <2>1. NoSnapshots \in [Days -> Nat]
    BY DEF NoSnapshots
  <2>2. [tick[g] EXCEPT !.stage = "reporting", !.stored = NoSnapshots] \in Ticks
    BY <1>1, <2>1, TickType
  <2>3. [tick[g] EXCEPT !.stage = "reporting", !.stored = NoSnapshots].stage = "reporting"
    BY <1>1 DEF Ticks
  <2>4. QED
    BY <2>2, <2>3 DEF AppendSaved
<1>4. /\ UNCHANGED <<file, today, loads, outlived, skipped, entry, live, data, lastOk, issues>>
      /\ \A h \in Loads : tick'[h] = IF h = g THEN t ELSE tick[h]
  BY <1>3 DEF AppendSaved, GoOn, Stay, coordinator, IInv, TypeOK
<1>5. ~outlived => \A d \in Days : snapshots'[d] = snapshots[d]
                                    \/ (snapshots[d] = 0 /\ snapshots'[d] = 1)
  <2>1. SUFFICES ASSUME ~outlived, NEW d \in Days,
                        snapshots' = [tick[g].stored EXCEPT ![tick[g].day] = @ + 1]
                 PROVE  snapshots'[d] = snapshots[d] \/ (snapshots[d] = 0 /\ snapshots'[d] = 1)
    BY DEF AppendSaved
  <2>2. tick[g].stored = snapshots /\ snapshots[tick[g].day] = 0
    BY <1>1, <2>1 DEF IInv, Decided, AppendSaved, At
  <2>3. PICK day \in Days : tick[g].day = day
    BY <1>1
  <2>4. snapshots \in [Days -> Nat]
    BY DEF IInv, TypeOK
  <2>5. snapshots[day] = 0
    BY <2>2, <2>3
  <2>6. snapshots' = [snapshots EXCEPT ![day] = snapshots[day] + 1]
    BY <2>1, <2>2, <2>3
  <2>7. QED
    BY <2>4, <2>5, <2>6
<1>6. OneSnapshotPerDay'
  BY <1>4, <1>5 DEF OneSnapshotPerDay, IInv
<1>7. ~outlived => \A d \in Days : snapshots'[d] >= snapshots[d]
  BY <1>5 DEF IInv, TypeOK
<1>8. Alone'
  BY <1>4 DEF IInv, Alone, Serves, AppendSaved, At
<1>9. Decided'
  <2>1. SUFFICES ASSUME ~outlived, NEW h \in Loads, tick'[h] # None,
                        tick'[h].stage \in {"loading", "saving"}
                 PROVE  FALSE
    BY <1>4 DEF Decided
  <2>2. h # g /\ tick[h] # None
    BY <1>3, <1>4, <2>1
  <2>3. QED
    BY <2>1, <2>2, AtMostOne DEF IInv, AppendSaved, At
<1>10. QED
  BY <1>2, <1>4, <1>6, <1>7, <1>8, <1>9
  DEF IInv, RemovedAlive, IssuesMatchData, UnloadedIsClean

----------------------------------------------------------------------------
(* The invariant *)

LEMMA InitInv == Init => IInv
<1> SUFFICES ASSUME Init
             PROVE  IInv
  OBVIOUS
<1>1. TypeOK
  BY InitType
<1>2. Alone /\ Decided
  BY DEF Init, Alone, Decided
<1>3. OneSnapshotPerDay
  BY DEF Init, OneSnapshotPerDay
<1>4. RemovedAlive /\ IssuesMatchData /\ UnloadedIsClean
  BY DEF Init, RemovedAlive, IssuesMatchData, UnloadedIsClean
<1>5. QED
  BY <1>1, <1>2, <1>3, <1>4 DEF IInv

\* Every step preserves the invariant and, while no refresh has outlived its
\* coordinator, every stored snapshot.
LEMMA NextInv ==
  IInv /\ [Next]_vars => /\ IInv'
                         /\ ~outlived => \A d \in Days : snapshots'[d] >= snapshots[d]
<1> SUFFICES ASSUME IInv, [Next]_vars
             PROVE  /\ IInv'
                    /\ ~outlived => \A d \in Days : snapshots'[d] >= snapshots[d]
  OBVIOUS
<1>1. TypeOK'
  BY NextType DEF IInv
<1>2. ASSUME UNCHANGED snapshots
      PROVE  \A d \in Days : snapshots'[d] >= snapshots[d]
  BY <1>2 DEF IInv, TypeOK
<1>3. ASSUME NEW g \in Loads, tick[g] # None
      PROVE  tick[g] \in Ticks
  BY <1>3 DEF IInv, TypeOK
<1>4. ASSUME NEW by \in {"interval", "request"}, Refresh(by)
      PROVE  IInv' /\ UNCHANGED snapshots
  <2>1. live \in Loads /\ Serves(live)
    BY <1>4 DEF Refresh, IInv, TypeOK, Serves
  <2>2. QED
    BY <1>4, <2>1, BeginStep DEF Refresh
<1>5. ASSUME NEW g \in Loads, FetchFails(g)
      PROVE  IInv' /\ UNCHANGED snapshots
  BY <1>5, FailStep DEF FetchFails, At
<1>6. ASSUME NEW g \in Loads, Fetched(g)
      PROVE  IInv' /\ UNCHANGED snapshots
  <2> DEFINE t == [tick[g] EXCEPT !.stage = "reading"]
  <2>1. tick[g] # None /\ tick[g] \in Ticks
    BY <1>6, <1>3 DEF Fetched, At
  <2>2. t \in Ticks
    BY <2>1, TickType
  <2>3. t.stage = "reading"
    BY <2>1, TickFields
  <2>4. GoOn(g, t)
    BY <1>6 DEF Fetched
  <2> HIDE DEF t
  <2>5. QED
    BY <1>6, <2>1, <2>2, <2>3, <2>4, GoOnStep DEF Fetched
<1>7. ASSUME NEW g \in Loads, tick[g] # None, StoreFails(g), Stay, UNCHANGED snapshots
      PROVE  IInv'
  <2> DEFINE t == [tick[g] EXCEPT !.stage = "reporting", !.error = TRUE]
  <2>1. tick[g] \in Ticks
    BY <1>7, <1>3
  <2>2. t \in Ticks
    BY <2>1, TickType
  <2>3. t.stage = "reporting"
    BY <2>1, TickFields
  <2>4. GoOn(g, t)
    BY <1>7 DEF StoreFails
  <2> HIDE DEF t
  <2>5. QED
    BY <1>7, <2>2, <2>3, <2>4, GoOnStep
<1>8. ASSUME NEW g \in Loads, SnapshotsRead(g)
      PROVE  IInv' /\ UNCHANGED snapshots
  <2>1. tick[g] # None /\ tick[g] \in Ticks /\ Stay /\ UNCHANGED snapshots
    BY <1>8, <1>3 DEF SnapshotsRead, At
  <2>2. CASE Fail(g, TRUE)
    BY <2>1, <2>2, FailStep
  <2>3. CASE StoreFails(g)
    BY <2>1, <2>3, <1>7
  <2>4. CASE Due(snapshots, today) /\ GoOn(g, [tick[g] EXCEPT !.stage = "loading", !.day = today])
    <3> DEFINE t == [tick[g] EXCEPT !.stage = "loading", !.day = today]
    <3>1. today \in Days /\ snapshots[today] = 0
      BY <2>4 DEF Due, IInv, TypeOK
    <3>2. t \in Ticks
      BY <2>1, <3>1, TickType
    <3>3. t.stage = "loading" /\ t.day = today
      BY <2>1, TickFields
    <3>4. GoOn(g, t)
      BY <2>4
    <3> HIDE DEF t
    <3>5. QED
      BY <2>1, <3>1, <3>2, <3>3, <3>4, GoOnStep
  <2>5. CASE GoOn(g, [tick[g] EXCEPT !.stage = "reporting"])
    <3> DEFINE t == [tick[g] EXCEPT !.stage = "reporting"]
    <3>1. t \in Ticks
      BY <2>1, TickType
    <3>2. t.stage = "reporting"
      BY <2>1, TickFields
    <3>3. GoOn(g, t)
      BY <2>5
    <3> HIDE DEF t
    <3>4. QED
      BY <2>1, <3>1, <3>2, <3>3, GoOnStep
  <2>6. QED
    BY <1>8, <2>1, <2>2, <2>3, <2>4, <2>5 DEF SnapshotsRead
<1>9. ASSUME NEW g \in Loads, AppendLoaded(g)
      PROVE  IInv' /\ UNCHANGED snapshots
  <2>1. /\ tick[g] # None /\ tick[g] \in Ticks /\ tick[g].stage = "loading"
        /\ Stay /\ UNCHANGED snapshots
    BY <1>9, <1>3 DEF AppendLoaded, At
  <2>2. CASE StoreFails(g)
    BY <2>1, <2>2, <1>7
  <2>3. CASE GoOn(g, [tick[g] EXCEPT !.stage = "saving", !.stored = snapshots])
    <3> DEFINE t == [tick[g] EXCEPT !.stage = "saving", !.stored = snapshots]
    <3>1. ~outlived => snapshots[tick[g].day] = 0
      BY <2>1 DEF IInv, Decided
    <3>2. snapshots \in [Days -> Nat]
      BY DEF IInv, TypeOK
    <3>3. t \in Ticks
      BY <2>1, <3>2, TickType
    <3>4. t.stage = "saving" /\ t.day = tick[g].day /\ t.stored = snapshots
      BY <2>1, TickFields
    <3>5. GoOn(g, t)
      BY <2>3
    <3> HIDE DEF t
    <3>6. QED
      BY <2>1, <3>1, <3>3, <3>4, <3>5, GoOnStep
  <2>4. QED
    BY <1>9, <2>1, <2>2, <2>3 DEF AppendLoaded
<1>10. ASSUME NEW g \in Loads, ReportFails(g)
       PROVE  IInv' /\ UNCHANGED snapshots
  BY <1>10, FailStep DEF ReportFails, At
<1>11. CASE SetUp
  <2>1. UNCHANGED <<live, tick, issues, snapshots, outlived, skipped>> /\ entry' = "setup"
    BY <1>11 DEF SetUp
  <2>2. live = 0
    BY <1>11 DEF SetUp, IInv, TypeOK
  <2>3. Alone'
    BY <1>11, <2>1, <2>2 DEF SetUp, IInv, Alone, Serves, Loads
  <2>4. QED
    BY <1>1, <1>2, <2>1, <2>2, <2>3
    DEF IInv, Decided, OneSnapshotPerDay, RemovedAlive, IssuesMatchData, UnloadedIsClean
<1>12. CASE FirstRefresh
  <2>1. loads \in Loads /\ Serves(loads)
    BY <1>12 DEF FirstRefresh, IInv, TypeOK, Loads, Serves
  <2>2. QED
    BY <1>2, <1>12, <2>1, BeginStep DEF FirstRefresh
<1>13. CASE UnloadStart \/ UnloadFails
  BY <1>1, <1>2, <1>13
  DEF UnloadStart, UnloadFails, IInv, Alone, Serves, Decided, OneSnapshotPerDay,
      RemovedAlive, IssuesMatchData, UnloadedIsClean, coordinator
<1>14. CASE UnloadDone
  <2>1. /\ entry = "unloading" /\ live \in Loads /\ UNCHANGED snapshots
        /\ entry' = "not_loaded" /\ live' = 0 /\ issues' = {}
    BY <1>14 DEF UnloadDone, IInv, TypeOK
  <2>2. \A g \in Loads : tick'[g] = IF g = live THEN AfterUnload(tick[g]) ELSE tick[g]
    BY <1>14, <2>1 DEF UnloadDone, IInv, TypeOK
  <2>3. ~outlived' => ~outlived /\ AfterUnload(tick[live]) = None
    BY <1>14 DEF UnloadDone, IInv, TypeOK
  <2>4. ~outlived' => \A g \in Loads : tick'[g] = None
    BY <2>1, <2>2, <2>3 DEF IInv, Alone, Serves
  <2>5. Alone' /\ Decided'
    BY <2>4 DEF Alone, Decided
  <2>6. OneSnapshotPerDay'
    BY <2>1, <2>3 DEF IInv, OneSnapshotPerDay
  <2>7. RemovedAlive' /\ IssuesMatchData' /\ UnloadedIsClean'
    BY <2>1 DEF RemovedAlive, IssuesMatchData, UnloadedIsClean
  <2>8. QED
    BY <1>1, <1>2, <2>1, <2>5, <2>6, <2>7 DEF IInv
<1>15. CASE Leave
  <2>1. UNCHANGED <<loads, live, data, lastOk, tick, issues, snapshots, outlived>>
    BY <1>15 DEF Leave, coordinator
  <2>2. entry # "setup"
    BY <1>15 DEF Leave
  <2>3. Alone'
    BY <2>1, <2>2 DEF IInv, Alone, Serves
  <2>4. RemovedAlive'
    BY <1>15, <2>1 DEF Leave, RemovedAlive, IInv, TypeOK
  <2>5. UnloadedIsClean'
    <3>1. CASE entry = "not_loaded"
      <4>1. skipped' <=> skipped
        BY <1>15, <3>1 DEF Leave
      <4>2. QED
        BY <2>1, <3>1, <4>1 DEF UnloadedIsClean, IInv
    <3>2. CASE entry # "not_loaded"
      <4>1. skipped'
        BY <1>15, <3>2 DEF Leave
      <4>2. QED
        BY <4>1 DEF UnloadedIsClean
    <3>3. QED
      BY <3>1, <3>2
  <2>6. Decided' /\ OneSnapshotPerDay'
    BY <2>1 DEF IInv, Decided, OneSnapshotPerDay
  <2>7. IssuesMatchData'
    BY <2>1 DEF IInv, IssuesMatchData
  <2>8. QED
    BY <1>1, <1>2, <2>1, <2>3, <2>4, <2>5, <2>6, <2>7 DEF IInv
<1>16. CASE Edit \/ Midnight \/ UNCHANGED vars
  <2>1. UNCHANGED <<entry, loads, live, data, lastOk, tick, issues, snapshots, outlived, skipped>>
    BY <1>16 DEF Edit, Midnight, vars, coordinator
  <2>2. Alone' /\ Decided' /\ OneSnapshotPerDay'
    BY <2>1 DEF IInv, Alone, Serves, Decided, OneSnapshotPerDay
  <2>3. RemovedAlive' /\ IssuesMatchData' /\ UnloadedIsClean'
    BY <2>1 DEF IInv, RemovedAlive, IssuesMatchData, UnloadedIsClean
  <2>4. QED
    BY <1>1, <1>2, <2>1, <2>2, <2>3 DEF IInv
<1>17. CASE Restart
  <2>1. /\ UNCHANGED <<snapshots, outlived>> /\ entry' = "not_loaded" /\ live' = 0
        /\ issues' = {} /\ \A g \in Loads : tick'[g] = None
    BY <1>17 DEF Restart
  <2>2. Alone' /\ Decided'
    BY <2>1 DEF Alone, Decided
  <2>3. OneSnapshotPerDay'
    BY <2>1 DEF IInv, OneSnapshotPerDay
  <2>4. RemovedAlive' /\ IssuesMatchData' /\ UnloadedIsClean'
    BY <2>1 DEF RemovedAlive, IssuesMatchData, UnloadedIsClean
  <2>5. QED
    BY <1>1, <1>2, <2>1, <2>2, <2>3, <2>4 DEF IInv
<1>18. ASSUME NEW g \in Loads, ReportRead(g)
       PROVE  IInv' /\ UNCHANGED snapshots
  BY <1>18, SuccessStep DEF ReportRead
<1>19. ASSUME NEW g \in Loads, Proceed(g)
       PROVE  /\ IInv'
              /\ ~outlived => \A d \in Days : snapshots'[d] >= snapshots[d]
  BY <1>2, <1>5, <1>6, <1>8, <1>9, <1>10, <1>18, <1>19, SaveStep DEF Proceed
<1>20. QED
  BY <1>2, <1>4, <1>11, <1>12, <1>13, <1>14, <1>15, <1>16, <1>17, <1>19 DEF Next

\* At most one snapshot per calendar date, across any number of loads,
\* midnights, failures and restarts, unless a refresh has outlived its
\* coordinator (should_create_snapshot, async_append_snapshot).
THEOREM AtMostOneSnapshotPerDay == Spec => []OneSnapshotPerDay
<1>1. IInv /\ [Next]_vars => IInv'
  BY NextInv
<1>2. IInv => OneSnapshotPerDay
  BY DEF IInv
<1>3. QED
  BY InitInv, <1>1, <1>2, PTL DEF Spec

\* No stored snapshot is lost, unless a refresh has outlived its coordinator
\* (async_append_snapshot).
THEOREM NoSnapshotLost == Spec => SnapshotsNeverLost
<1>1. IInv /\ [Next]_vars => IInv'
  BY NextInv
<1>2. IInv /\ [Next]_vars
        => [~outlived => \A d \in Days : snapshots'[d] >= snapshots[d]]_vars
  BY NextInv
<1>3. QED
  BY InitInv, <1>1, <1>2, PTL DEF Spec, SnapshotsNeverLost

\* The open issues are those of the data that the entry serves
\* (_sync_repair_issues), unless a refresh has outlived its coordinator.
THEOREM IssuesAreThoseOfTheData == Spec => []IssuesMatchData
<1>1. IInv /\ [Next]_vars => IInv'
  BY NextInv
<1>2. IInv => IssuesMatchData
  BY DEF IInv
<1>3. QED
  BY InitInv, <1>1, <1>2, PTL DEF Spec

\* An entry that was unloaded leaves no issue open (async_unload_entry),
\* unless a refresh has outlived its coordinator.
THEOREM UnloadLeavesNoIssue == Spec => []UnloadedIsClean
<1>1. IInv /\ [Next]_vars => IInv'
  BY NextInv
<1>2. IInv => UnloadedIsClean
  BY DEF IInv
<1>3. QED
  BY InitInv, <1>1, <1>2, PTL DEF Spec

----------------------------------------------------------------------------
(* The snapshots are a series *)

\* The day of a snapshot is decided on when it is that day; the clock that is
\* modelled goes on only.
NotAhead == \A g \in Loads : tick[g] # None => tick[g].day <= today

\* A refresh that goes on keeps its day or takes today's.
LEMMA GoOnNotAhead ==
  ASSUME TypeOK, NotAhead, NEW g \in Loads, NEW t, GoOn(g, t), UNCHANGED today, t.day <= today
  PROVE  NotAhead'
BY DEF GoOn, NotAhead, TypeOK

\* A refresh that ends leaves the others as they are.
LEMMA EndedNotAhead ==
  ASSUME TypeOK, NotAhead, NEW g \in Loads, NEW ok, Ended(g, ok), UNCHANGED today
  PROVE  NotAhead'
BY DEF Ended, NotAhead, TypeOK

LEMMA BeginNotAhead ==
  ASSUME TypeOK, NotAhead, NEW g \in Loads, NEW by, Begin(g, by), Stay
  PROVE  NotAhead'
<1> DEFINE t == [stage |-> "fetching", by |-> by, file |-> file, error |-> FALSE,
                 day |-> 0, stored |-> NoSnapshots]
<1>1. t.day <= today
  BY BoundsAssumption DEF TypeOK, Days
<1>2. CASE GoOn(g, t)
  <2> HIDE DEF t
  <2> QED
    BY <1>1, <1>2, GoOnNotAhead DEF Stay
<1>3. CASE Fail(g, TRUE) \/ Fail(g, FALSE)
  BY <1>3, EndedNotAhead DEF Fail, Stay
<1> QED
  BY <1>2, <1>3 DEF Begin

\* From stage to stage a refresh keeps its day, or takes today's.
LEMMA ProceedNotAhead ==
  ASSUME TypeOK, NotAhead, NEW g \in Loads, Proceed(g)
  PROVE  NotAhead'
<1>1. tick[g] \in Ticks /\ tick[g].day <= today /\ UNCHANGED today
  BY DEF Proceed, FetchFails, Fetched, SnapshotsRead, AppendLoaded, AppendSaved, ReportFails, ReportRead,
         At, Stay, TypeOK, NotAhead
<1>2. CASE \E ok \in BOOLEAN : Ended(g, ok)
  BY <1>1, <1>2, EndedNotAhead
<1>3. CASE \E t : GoOn(g, t) /\ (t.day = tick[g].day \/ t.day = today)
  <2>1. today <= today
    BY DEF TypeOK, Days
  <2> QED
    BY <1>1, <1>3, <2>1, GoOnNotAhead
<1>4. CASE StoreFails(g)
  <2> DEFINE t == [tick[g] EXCEPT !.stage = "reporting", !.error = TRUE]
  <2>1. t.day = tick[g].day
    BY <1>1 DEF Ticks
  <2> QED
    BY <1>3, <1>4, <2>1 DEF StoreFails
<1>5. CASE Fetched(g)
  <2>1. [tick[g] EXCEPT !.stage = "reading"].day = tick[g].day
    BY <1>1 DEF Ticks
  <2> QED
    BY <1>3, <1>5, <2>1 DEF Fetched
<1>6. CASE SnapshotsRead(g)
  <2> DEFINE t == IF Due(snapshots, today)
                  THEN [tick[g] EXCEPT !.stage = "loading", !.day = today]
                  ELSE [tick[g] EXCEPT !.stage = "reporting"]
  <2>1. t.day = tick[g].day \/ t.day = today
    BY <1>1 DEF Ticks
  <2> QED
    BY <1>2, <1>3, <1>4, <1>6, <2>1 DEF SnapshotsRead, Fail
<1>7. CASE AppendLoaded(g)
  <2>1. [tick[g] EXCEPT !.stage = "saving", !.stored = snapshots].day = tick[g].day
    BY <1>1 DEF Ticks
  <2> QED
    BY <1>3, <1>4, <1>7, <2>1 DEF AppendLoaded
<1>8. CASE AppendSaved(g)
  <2>1. [tick[g] EXCEPT !.stage = "reporting", !.stored = NoSnapshots].day = tick[g].day
    BY <1>1 DEF Ticks
  <2> QED
    BY <1>3, <1>8, <2>1 DEF AppendSaved
<1> QED
  BY <1>2, <1>5, <1>6, <1>7, <1>8 DEF Proceed, FetchFails, ReportFails, ReportRead, Fail

LEMMA NextNotAhead == TypeOK /\ NotAhead /\ [Next]_vars => NotAhead'
<1> SUFFICES ASSUME TypeOK, NotAhead, [Next]_vars PROVE NotAhead'
  OBVIOUS
<1>1. ASSUME NEW by \in {"interval", "request"}, Refresh(by) PROVE NotAhead'
  <2>1. live \in Loads
    BY <1>1 DEF TypeOK, Refresh
  <2> QED
    BY <1>1, <2>1, BeginNotAhead DEF Refresh
<1>2. CASE FirstRefresh
  <2>1. loads \in Loads
    BY <1>2 DEF FirstRefresh, TypeOK, Loads
  <2> QED
    BY <1>2, <2>1, BeginNotAhead DEF FirstRefresh
<1>3. CASE SetUp \/ UnloadStart \/ UnloadFails \/ Leave \/ Edit \/ UNCHANGED vars
  BY <1>3 DEF SetUp, UnloadStart, UnloadFails, Leave, Edit, vars, NotAhead
<1>4. CASE UnloadDone
  BY <1>4 DEF UnloadDone, AfterUnload, NotAhead, TypeOK
<1>5. CASE Midnight
  <2>1. \A g \in Loads : tick[g] # None => tick[g].day \in Nat
    BY DEF TypeOK, Ticks, Days
  <2> QED
    BY <1>5, <2>1 DEF Midnight, NotAhead, TypeOK, Days
<1>6. CASE Restart
  BY <1>6 DEF Restart, NotAhead
<1> QED
  BY <1>1, <1>2, <1>3, <1>4, <1>5, <1>6, ProceedNotAhead DEF Next

\* A step that stores is a Store of the series, as Decided has it; all others
\* leave the snapshots alone.
LEMMA NextSeries ==
  ASSUME IInv, IInv', NotAhead, [Next]_vars, ~outlived
  PROVE  Series!Next \/ UNCHANGED <<today, snapshots>>
<1>1. CASE \E g \in Loads : AppendSaved(g) /\ ~UNCHANGED snapshots
  <2>1. PICK g \in Loads : AppendSaved(g) /\ ~UNCHANGED snapshots
    BY <1>1
  <2>2. /\ tick[g] # None /\ tick[g].stage = "saving" /\ UNCHANGED today
        /\ snapshots' = [tick[g].stored EXCEPT ![tick[g].day] = @ + 1]
    BY <2>1 DEF AppendSaved, At, Stay
  <2>3. tick[g].day \in Days /\ tick[g].day <= today
    BY <2>2 DEF IInv, TypeOK, Ticks, NotAhead
  <2>4. tick[g].stored = snapshots /\ snapshots[tick[g].day] = 0
    BY <2>2 DEF IInv, Decided
  <2>5. snapshots' = [snapshots EXCEPT ![tick[g].day] = 1]
    BY <2>2, <2>3, <2>4 DEF IInv, TypeOK
  <2> QED
    BY <2>2, <2>3, <2>4, <2>5 DEF Series!Next, Series!Store
<1>2. CASE UNCHANGED snapshots
  <2>1. today' \in Days
    BY DEF IInv, TypeOK
  <2> QED
    BY <1>2, <2>1 DEF Series!Next, Series!Pass
<1>3. UNCHANGED snapshots \/ \E g \in Loads : AppendSaved(g)
  BY DEF Next, Proceed, Refresh, FetchFails, Fetched, SnapshotsRead, AppendLoaded, ReportFails, ReportRead,
         SetUp, FirstRefresh, UnloadStart, UnloadFails, UnloadDone, Leave, Edit, Midnight, Restart, vars
<1> QED
  BY <1>1, <1>2, <1>3

\* The coordinator's snapshots are a SnapshotSeries, whatever fails and however
\* often the entry is loaded, unless a refresh has outlived its coordinator
\* (should_create_snapshot, async_append_snapshot).
THEOREM CoordinatorImplementsSeries == Spec => ImplementsSeries
<1>1. Init => Series!Init
  BY BoundsAssumption DEF Init, Series!Init, Days
<1>2. Init => NotAhead
  BY DEF Init, NotAhead
<1>3. IInv => TypeOK
  BY DEF IInv
<1>4. IInv /\ [Next]_vars => IInv'
  BY NextInv
<1>5. IInv /\ IInv' /\ NotAhead /\ [Next]_vars => [~outlived => Series!Next]_<<today, snapshots>>
  BY NextSeries
<1> QED
  BY InitInv, NextNotAhead, <1>1, <1>2, <1>3, <1>4, <1>5, PTL DEF Spec, ImplementsSeries
=============================================================================
