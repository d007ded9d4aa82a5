------------------------ MODULE PortfolioCoordinator ------------------------
(***************************************************************************)
(* One config entry: how it is set up, unloaded, reloaded and removed, the *)
(* refreshes of its coordinator, the repair issues these create and clear, *)
(* and the daily snapshots they store.  Each load makes a new coordinator; *)
(* a refresh runs from one await to the next, so that files, days and the  *)
(* entry change under it, and one that a service call asked for may go on  *)
(* after its coordinator was unloaded.                                     *)
(***************************************************************************)
EXTENDS Naturals, FiniteSets

CONSTANTS MaxLoads,  \* bound on how often the entry is loaded
          MaxDay,    \* bound on the days that pass
          None

ASSUME BoundsAssumption == MaxLoads \in Nat /\ MaxDay \in Nat

VARIABLES file,       \* what the portfolio's files hold
          today,
          entry,      \* the config entry's state
          loads,      \* the latest coordinator made
          live,       \* the coordinator in hass.data, or 0
          data,       \* what that coordinator last fetched, or None
          lastOk,     \* its last_update_success
          tick,       \* per coordinator: its refresh in flight, or None
          issues,     \* the open repair issues
          snapshots   \* per day: how many snapshots the store holds

\* History: a refresh has gone on after its coordinator was unloaded; the
\* entry was disabled or removed without an unload that succeeded.
VARIABLES outlived, skipped

coordinator == <<live, data, lastOk>>
vars == <<file, today, entry, loads, coordinator, tick, issues, snapshots,
          outlived, skipped>>

----------------------------------------------------------------------------
Loads == 1 .. MaxLoads
Days  == 0 .. MaxDay

\* What the files may hold: nothing, a text or values the repository refuses,
\* a log whose replay raises, holdings that the log contradicts, or nothing
\* remarkable.
Files == {"missing", "malformed", "oversold", "discrepant", "sound"}

NoSnapshots == [d \in Days |-> 0]

Keys == {"malformed", "discrepancy", "rates", "snapshots"}

States == {"not_loaded", "setup", "retry", "loaded", "unloading", "failed", "removed"}

\* What a refresh that succeeds finds.
Datas == [file : Files, missing : BOOLEAN, error : BOOLEAN]

ASSUME NoneAssumption == None \notin Datas

\* _sync_repair_issues: the issues that fetched data call for.
Called(d) == (IF d.file = "discrepant" THEN {"discrepancy"} ELSE {})
               \union (IF d.missing THEN {"rates"} ELSE {})
               \union (IF d.error THEN {"snapshots"} ELSE {})

\* A synchronisation that creates issues and clears none but its own.
SyncCreatesOnly(d) == issues' = (issues \ {"malformed"}) \union Called(d)

\* A refresh that succeeds clears "malformed" and settles the others.
Sync(d) == issues' = Called(d)

\* What no refresh changes.
Stay == UNCHANGED <<file, today, loads, outlived, skipped>>

----------------------------------------------------------------------------
(* The end of a refresh *)

\* A first refresh that fails is ConfigEntryNotReady: the entry is retried.
EntryAfter(g, ok) ==
  IF entry = "setup" /\ g = loads THEN IF ok THEN "loaded" ELSE "retry" ELSE entry

\* g is the coordinator of the entry, or becomes it when it has refreshed.
Serves(g) == g = live \/ (entry = "setup" /\ g = loads)

\* async_setup_entry stores the coordinator once its first refresh is done.
Ended(g, ok) ==
  /\ tick' = [tick EXCEPT ![g] = None]
  /\ entry' = EntryAfter(g, ok)
  /\ live' = IF Serves(g) /\ ok THEN g ELSE live
  /\ lastOk' = IF Serves(g) THEN ok ELSE lastOk

\* UpdateFailed: the coordinator keeps the data it has.  Invalid data is
\* also made an issue of, any other failure is not.
Fail(g, invalid) ==
  /\ Ended(g, FALSE)
  /\ issues' = IF invalid THEN issues \union {"malformed"} ELSE issues
  /\ UNCHANGED data

\* A refresh goes on in another stage.
GoOn(g, t) ==
  /\ tick' = [tick EXCEPT ![g] = t]
  /\ UNCHANGED <<entry, coordinator, issues>>

----------------------------------------------------------------------------
(* async_fetch_portfolio_data, from one await to the next *)

\* The repository reads the files at once: a refresh of files that it
\* refuses, or of no portfolio, is over before anything else can happen.
Begin(g, by) ==
  \/ /\ file = "missing"
     /\ Fail(g, FALSE)
  \/ /\ file = "malformed"
     /\ Fail(g, TRUE)
  \/ /\ file \notin {"missing", "malformed"}
     /\ GoOn(g, [stage |-> "fetching", by |-> by, file |-> file, error |-> FALSE,
                 day |-> 0, stored |-> NoSnapshots])

\* A coordinator that stops polling once a refresh has failed.
RefreshWhileOk(by) ==
  /\ live # 0 /\ tick[live] = None
  /\ lastOk
  /\ Begin(live, by)
  /\ Stay /\ UNCHANGED snapshots

\* The interval elapses, or import_transactions or apply_import asks.
Refresh(by) ==
  /\ live # 0 /\ tick[live] = None
  /\ Begin(live, by)
  /\ Stay /\ UNCHANGED snapshots

At(g, stage) == tick[g] # None /\ tick[g].stage = stage

\* Quotes and rates: no answer, or one that is no JSON (a ValueError, like
\* malformed files),
FetchFails(g) ==
  /\ At(g, "fetching")
  /\ \E invalid \in BOOLEAN : Fail(g, invalid)
  /\ Stay /\ UNCHANGED snapshots

\* or an answer.
Fetched(g) ==
  /\ At(g, "fetching")
  /\ GoOn(g, [tick[g] EXCEPT !.stage = "reading"])
  /\ Stay /\ UNCHANGED snapshots

\* should_create_snapshot
Due(stored, day) == stored[day] = 0

\* An error of the snapshot store ends nothing, it only makes a note.
StoreFails(g) == GoOn(g, [tick[g] EXCEPT !.stage = "reporting", !.error = TRUE])

\* The stored snapshots; then, in one go, the calculators, whose replay may
\* raise, and the daily policy, which looks at the clock once.
SnapshotsRead(g) ==
  /\ At(g, "reading")
  /\ \/ /\ tick[g].file = "oversold"
        /\ Fail(g, TRUE)
     \/ /\ tick[g].file # "oversold"
        /\ StoreFails(g)
     \/ /\ tick[g].file # "oversold"
        /\ GoOn(g, IF Due(snapshots, today)
                   THEN [tick[g] EXCEPT !.stage = "loading", !.day = today]
                   ELSE [tick[g] EXCEPT !.stage = "reporting"])
  /\ Stay /\ UNCHANGED snapshots

\* async_append_snapshot loads all that is stored,
AppendLoaded(g) ==
  /\ At(g, "loading")
  /\ \/ StoreFails(g)
     \/ GoOn(g, [tick[g] EXCEPT !.stage = "saving", !.stored = snapshots])
  /\ Stay /\ UNCHANGED snapshots

\* An append that saves the new snapshot alone.
AppendSavedAlone(g) ==
  /\ At(g, "saving")
  /\ \/ snapshots' = [NoSnapshots EXCEPT ![tick[g].day] = 1]
     \/ UNCHANGED snapshots
  /\ GoOn(g, [tick[g] EXCEPT !.stage = "reporting", !.stored = NoSnapshots])
  /\ Stay

\* and saves it with the new one; Store logs a write error and raises nothing.
AppendSaved(g) ==
  /\ At(g, "saving")
  /\ \/ snapshots' = [tick[g].stored EXCEPT ![tick[g].day] = @ + 1]
     \/ UNCHANGED snapshots
  /\ GoOn(g, [tick[g] EXCEPT !.stage = "reporting", !.stored = NoSnapshots])
  /\ Stay

\* The load of the pending import report raises, outside every handler.
ReportFails(g) ==
  /\ At(g, "reporting")
  /\ Fail(g, FALSE)
  /\ Stay /\ UNCHANGED snapshots

\* The refresh succeeds; the issues follow its data.  Whether the answer had
\* all the rates that the holdings need is chosen here, where it is used.
ReportRead(g) ==
  /\ At(g, "reporting")
  /\ \E missing \in BOOLEAN :
       LET d == [file |-> tick[g].file, missing |-> missing, error |-> tick[g].error]
       IN  /\ Sync(d)
           /\ Ended(g, TRUE)
           /\ data' = IF Serves(g) THEN d ELSE data
  /\ Stay /\ UNCHANGED snapshots

----------------------------------------------------------------------------
(* The entry *)

\* async_setup_entry: a new coordinator and its first refresh.
SetUp ==
  /\ entry \in {"not_loaded", "retry"}
  /\ loads < MaxLoads
  /\ loads' = loads + 1
  /\ entry' = "setup"
  /\ data' = None /\ lastOk' = TRUE
  /\ UNCHANGED <<file, today, live, tick, issues, snapshots, outlived, skipped>>

FirstRefresh ==
  /\ entry = "setup" /\ tick[loads] = None
  /\ Begin(loads, "setup")
  /\ Stay /\ UNCHANGED snapshots

\* An unload, on its own or before a reload or a removal: the platforms first.
UnloadStart ==
  /\ entry = "loaded"
  /\ entry' = "unloading"
  /\ UNCHANGED <<file, today, loads, coordinator, tick, issues, snapshots, outlived, skipped>>

UnloadFails ==
  /\ entry = "unloading"
  /\ entry' = "failed"
  /\ UNCHANGED <<file, today, loads, coordinator, tick, issues, snapshots, outlived, skipped>>

\* Home Assistant then cancels a refresh that the interval began; one that
\* a service call began runs in the task of that call.
AfterUnload(t) == IF t # None /\ t.by = "interval" THEN None ELSE t

\* async_unload_entry: out of hass.data, all issues deleted.
UnloadDone ==
  /\ entry = "unloading"
  /\ entry' = "not_loaded"
  /\ live' = 0 /\ data' = None /\ lastOk' = TRUE
  /\ issues' = issues \ Keys
  /\ tick' = [tick EXCEPT ![live] = AfterUnload(@)]
  /\ outlived' = (outlived \/ AfterUnload(tick[live]) # None)
  /\ skipped' = FALSE
  /\ UNCHANGED <<file, today, loads, snapshots>>

\* Home Assistant unloads only what is loaded: an entry that waits for a
\* retry is disabled or removed as it is, one whose unload failed is removed
\* all the same, with its coordinator still in hass.data.
Leave ==
  /\ \/ entry = "not_loaded" /\ entry' = "removed"
     \/ entry = "retry" /\ entry' \in {"not_loaded", "removed"}
     \/ entry = "failed" /\ entry' = "removed"
  /\ skipped' = (skipped \/ entry # "not_loaded")
  /\ UNCHANGED <<file, today, loads, coordinator, tick, issues, snapshots, outlived>>

----------------------------------------------------------------------------
(* The environment *)

\* The user edits the files, or a service writes to them.
Edit == /\ file' \in Files \ {file}
        /\ UNCHANGED <<today, entry, loads, coordinator, tick, issues, snapshots,
                       outlived, skipped>>

Midnight == /\ today < MaxDay
            /\ today' = today + 1
            /\ UNCHANGED <<file, entry, loads, coordinator, tick, issues, snapshots,
                           outlived, skipped>>

\* Home Assistant stops or dies, and starts again: issues are not kept, but
\* what is stored is.
Restart ==
  /\ entry \notin {"not_loaded", "removed"}
  /\ entry' = "not_loaded"
  /\ live' = 0 /\ data' = None /\ lastOk' = TRUE
  /\ tick' = [g \in Loads |-> None]
  /\ issues' = {} /\ skipped' = FALSE
  /\ UNCHANGED <<file, today, loads, snapshots, outlived>>

Init ==
  /\ file \in Files
  /\ today = 0 /\ entry = "not_loaded" /\ loads = 0
  /\ live = 0 /\ data = None /\ lastOk = TRUE
  /\ tick = [g \in Loads |-> None]
  /\ issues = {} /\ snapshots = [d \in Days |-> 0]
  /\ outlived = FALSE /\ skipped = FALSE

Proceed(g) == \/ FetchFails(g) \/ Fetched(g) \/ SnapshotsRead(g) \/ AppendLoaded(g)
              \/ AppendSaved(g) \/ ReportFails(g) \/ ReportRead(g)

Next ==
  \/ \E by \in {"interval", "request"} : Refresh(by)
  \/ \E g \in Loads : Proceed(g)
  \/ SetUp \/ FirstRefresh \/ UnloadStart \/ UnloadFails \/ UnloadDone \/ Leave
  \/ Edit \/ Midnight \/ Restart

Spec == Init /\ [][Next]_vars

\* The coordinator schedules a refresh after each one, whatever its end; a
\* refresh goes on; the network and the stores do not fail for ever.
Fairness ==
  /\ WF_vars(Refresh("interval"))
  /\ \A g \in Loads : /\ WF_vars(Proceed(g))
                      /\ SF_vars(Fetched(g))
                      /\ SF_vars(ReportRead(g))

FairSpec == Spec /\ Fairness

----------------------------------------------------------------------------
(* Properties *)

Ticks == [stage : {"fetching", "reading", "loading", "saving", "reporting"},
          by : {"interval", "request", "setup"}, file : Files,
          error : BOOLEAN, day : Days, stored : [Days -> Nat]]

\* Every variable keeps its type, no coordinator of hass.data outlives its
\* entry's unload (entry and live agree), and only what an entry has loaded
\* serves data.
TypeOK ==
  /\ file \in Files /\ today \in Days /\ entry \in States
  /\ loads \in 0 .. MaxLoads
  /\ live \in {0} \union Loads /\ live \in {0, loads}
  /\ data \in {None} \union Datas /\ lastOk \in BOOLEAN
  /\ tick \in [Loads -> {None} \union Ticks]
  /\ issues \subseteq Keys
  /\ snapshots \in [Days -> Nat]
  /\ outlived \in BOOLEAN /\ skipped \in BOOLEAN
  /\ entry = "setup" => loads # 0
  /\ entry \in {"loaded", "unloading", "failed"} => live # 0
  /\ entry \in {"not_loaded", "setup", "retry"} => live = 0
  /\ (data # None) <=> (live # 0)

\* At most one snapshot per calendar date, across midnights, failed saves,
\* reloads and restarts (should_create_snapshot), as long as no refresh goes
\* on after its coordinator was unloaded: then two may decide on the same day.
OneSnapshotPerDay == ~outlived => \A d \in Days : snapshots[d] <= 1

\* async_append_snapshot loads, appends and saves: no snapshot that is stored
\* is ever lost, whatever fails and however often the entry is reloaded, if
\* no refresh goes on after its coordinator was unloaded.
SnapshotsNeverLost == [][~outlived => \A d \in Days : snapshots'[d] >= snapshots[d]]_vars

Series == INSTANCE SnapshotSeries WITH series <- snapshots

\* Whatever fails, and however loads, midnights and restarts interleave with
\* the awaits of an append, the store goes through a SnapshotSeries, one
\* snapshot at a time and none of a day to come, as long as no refresh goes on
\* after its coordinator was unloaded.
ImplementsSeries ==
  Series!Init /\ [][~outlived => Series!Next]_<<today, snapshots>>

\* The issues of an entry that has data are those that its last successful
\* refresh called for, and "malformed" only after a refresh that failed
\* (_sync_repair_issues: "a resolved problem clears itself").
IssuesMatchData ==
  (live # 0 /\ ~outlived) => /\ issues \ {"malformed"} = Called(data)
                             /\ lastOk => "malformed" \notin issues

\* An entry that was unloaded or removed has no open issue (async_unload_entry),
\* unless it was never unloaded or a refresh of it goes on.
UnloadedIsClean ==
  (entry \in {"not_loaded", "removed"} /\ ~outlived /\ ~skipped) => issues = {}

\* Once the files stay as they are and can be valued, and the entry stays
\* loaded, the issues are again and again right: nothing is called malformed
\* and a discrepancy is reported if and only if there is one.
IssuesSettle ==
  \A f \in {"discrepant", "sound"} :
    <>[](entry = "loaded" /\ file = f)
      => []<>("malformed" \notin issues /\ ("discrepancy" \in issues <=> f = "discrepant"))
=============================================================================
