--------------------------- MODULE ImportPipeline ---------------------------
(***************************************************************************)
(* The review-then-apply import of one portfolio: the import_transactions  *)
(* and apply_import services, the stored report between them, the          *)
(* transaction log on disk, and the coordinator whose cached data the      *)
(* duplicate check reads.  Service calls are coroutines of one event loop: *)
(* a step of a call runs from one await to the next, and anything else may *)
(* run in between.                                                         *)
(*                                                                         *)
(* The log is a bag of rows: what is decided here depends on which rows it *)
(* holds, and the file's bytes, its backup and overlapping writes of it    *)
(* belong to YamlPortfolioWriter.                                          *)
(***************************************************************************)
EXTENDS Naturals, FiniteSets

CONSTANTS Rows,        \* broker rows, as parsed by an importer
          Ids,         \* transaction ids
          IdOf,        \* the id the importer gave each row
          Alike,       \* pairs of rows the heuristic takes for one trade
          Files,       \* the broker exports at hand: bags of rows
          FirstLogs,   \* bound: the logs there may be before the first call
          Calls,       \* service calls, numbered in the order they are made
          MaxRestarts, \* bound on restarts of Home Assistant
          None

ASSUME RowsAssumption  == IdOf \in [Rows -> Ids] /\ Alike \subseteq Rows \X Rows
ASSUME FilesAssumption == Files \subseteq [Rows -> Nat]
ASSUME LogsAssumption  == FirstLogs \subseteq [Rows -> {0, 1}]
ASSUME CallsAssumption == Calls \subseteq Nat
ASSUME BoundAssumption == MaxRestarts \in Nat

VARIABLES log,      \* transactions.yaml: how often it holds each row
          store,    \* the pending report of ImportReportStore, or None
          data,     \* coordinator.data["portfolio_transactions"], or None
                    \* while the entry is not set up
          lastOk,   \* coordinator.last_update_success
          refresh,  \* the refresh in flight, or None
          timer,    \* the debouncer's cooldown timer
          pc, held  \* per call: where it waits, and what it carries

\* History: what happened that the program does not remember.
VARIABLES applied,  \* how often each report's rows were written to the log
          blame,    \* which of Hazards have happened
          dropped,  \* a refresh was dropped, or never asked for though the
                    \* log was written, and none has begun since
          latest,   \* the import that ended last without an error, or None
          restarts

process == <<data, lastOk, refresh, timer, pc, held>>
vars == <<log, store, process, applied, blame, dropped, latest, restarts>>

----------------------------------------------------------------------------
(* Rows, bags of rows, reports *)

RowsOf(bag) == {r \in Rows : bag[r] > 0}

IdsOf(rows) == {IdOf[r] : r \in rows}

\* No id occurs twice: what _load_transactions insists on.
Readable(bag) == /\ \A r \in Rows : bag[r] <= 1
                 /\ \A r, s \in RowsOf(bag) : IdOf[r] = IdOf[s] => r = s

\* detect_duplicates: the same id, or the heuristic.
Matches(r, e) == IdOf[r] = IdOf[e] \/ <<r, e>> \in Alike

\* A duplicate check that trusts the heuristic alone.
ImportedHeuristicOnly(file, existing) ==
  [r \in Rows |-> IF \E e \in existing : <<r, e>> \in Alike THEN 0 ELSE file[r]]

\* build_import_report: a parsed row is imported unless some duplicate has
\* its id.
Imported(file, existing) ==
  LET duplicates == {r \in RowsOf(file) : \E e \in existing : Matches(r, e)}
  IN  [r \in Rows |-> IF IdOf[r] \in IdsOf(duplicates) THEN 0 ELSE file[r]]

Reports == [id : Calls, imported : [Rows -> Nat], base : SUBSET Rows]

\* Each report is named by the call that built it (its as_of stamp in the
\* code); base is the transaction list its duplicates were looked up in.
BuildReport(c, file, existing) ==
  [id |-> c, imported |-> Imported(file, existing), base |-> existing]

AddRows(bag, more) == [r \in Rows |-> bag[r] + more[r]]

----------------------------------------------------------------------------
(* States of a call *)

Waiting  == {"reading", "saving", "loading", "appending", "clearing",
             "requesting", "refreshing"}
Finished == {"ok", "error", "lost"}

InFlight == {c \in Calls : pc[c] \in Waiting}

Hazards == {"overlap",  \* a call was made while another was in flight
            "crash",    \* a restart fell between append and clear
            "stale",    \* rows were written that had been compared with
                        \* another state of the log
            "repeat",   \* rows were written that repeat an id themselves
            "store"}    \* the report store kept what it was to replace

Note(ws) == blame' = blame \union ws

----------------------------------------------------------------------------
(* The coordinator: refreshes and the debouncer in front of them *)

Idle == refresh = None

\* What the caller that awaits a refresh becomes when the refresh ends.
Release(waiting) == IF waiting = None THEN pc ELSE [pc EXCEPT ![waiting] = "ok"]

\* A debounced refresh is followed by a cooldown; the interval's is not.
AfterRefresh(by) == IF by = "request" THEN "cooldown" ELSE "off"

\* _async_refresh up to its first real await: the timer is cancelled and the
\* repository reads the log.  An unreadable log fails the refresh on the spot.
BeginRefresh(by, waiting) ==
  /\ dropped' = FALSE
  /\ IF Readable(log)
     THEN /\ refresh' = [by |-> by, rows |-> RowsOf(log), waiting |-> waiting]
          /\ timer' = "off"
          /\ pc' = IF waiting = None
                   THEN pc ELSE [pc EXCEPT ![waiting] = "refreshing"]
          /\ UNCHANGED lastOk
     ELSE /\ timer' = AfterRefresh(by)
          /\ lastOk' = FALSE
          /\ pc' = Release(waiting)
          /\ UNCHANGED refresh
  /\ UNCHANGED data

\* async_request_refresh: leave it to the running cooldown timer, or drop it
\* when a refresh is in flight ("any call is good"), or refresh now.
RequestRefresh(c) ==
  /\ pc[c] = "requesting"
  /\ \/ /\ timer # "off"
        /\ timer' = "pending"
        /\ pc' = [pc EXCEPT ![c] = "ok"]
        /\ UNCHANGED <<data, lastOk, refresh, dropped>>
     \/ /\ timer = "off" /\ ~Idle
        /\ dropped' = TRUE
        /\ pc' = [pc EXCEPT ![c] = "ok"]
        /\ UNCHANGED <<data, lastOk, refresh, timer>>
     \/ /\ timer = "off" /\ Idle
        /\ BeginRefresh("request", c)
  /\ UNCHANGED <<log, store, held, applied, blame, latest, restarts>>

\* The cooldown is over: what was requested meanwhile is done now.
TimerExpires ==
  /\ \/ /\ timer = "cooldown"
        /\ timer' = "off"
        /\ UNCHANGED <<data, lastOk, refresh, pc, dropped>>
     \/ /\ timer = "pending"
        /\ BeginRefresh("request", None)
  /\ UNCHANGED <<log, store, held, applied, blame, latest, restarts>>

\* A coordinator that stops polling once a refresh has failed.
IntervalElapsesWhileOk ==
  /\ data # None /\ Idle /\ lastOk
  /\ BeginRefresh("interval", None)
  /\ UNCHANGED <<log, store, held, applied, blame, latest, restarts>>

IntervalElapses ==
  /\ data # None /\ Idle
  /\ BeginRefresh("interval", None)
  /\ UNCHANGED <<log, store, held, applied, blame, latest, restarts>>

\* async_setup_entry's first refresh; Home Assistant retries a failed one.
SetUp ==
  /\ data = None /\ Idle
  /\ BeginRefresh("setup", None)
  /\ UNCHANGED <<log, store, held, applied, blame, latest, restarts>>

RefreshSucceeds ==
  /\ ~Idle
  /\ data' = refresh.rows
  /\ lastOk' = TRUE
  /\ timer' = AfterRefresh(refresh.by)
  /\ pc' = Release(refresh.waiting)
  /\ refresh' = None
  /\ UNCHANGED <<log, store, held, applied, blame, dropped, latest, restarts>>

\* Prices or exchange rates could not be fetched: the cached data stays.
RefreshFails ==
  /\ ~Idle
  /\ lastOk' = FALSE
  /\ timer' = AfterRefresh(refresh.by)
  /\ pc' = Release(refresh.waiting)
  /\ refresh' = None
  /\ UNCHANGED <<log, store, data, held, applied, blame, dropped, latest,
                 restarts>>

----------------------------------------------------------------------------
(* The services' common entry *)

\* The call that is made next.
Upcoming(c) == pc[c] = "idle" /\ \A d \in Calls : d < c => pc[d] # "idle"

\* A call begins when the coordinator is found: hass.data holds it, and it
\* has data.  Only the history remembers that another call was in flight.
Start(c, stage, file) ==
  /\ Upcoming(c) /\ data # None
  /\ pc' = [pc EXCEPT ![c] = stage]
  /\ held' = [held EXCEPT ![c] = file]
  /\ Note(IF InFlight = {} THEN {} ELSE {"overlap"})
  /\ UNCHANGED <<log, store, data, lastOk, refresh, timer, applied, dropped,
                 latest, restarts>>

\* No portfolio of that id is set up, or the export file does not exist.
Refused(c) ==
  /\ Upcoming(c)
  /\ pc' = [pc EXCEPT ![c] = "error"]
  /\ UNCHANGED <<log, store, data, lastOk, refresh, timer, held, applied, blame,
                 dropped, latest, restarts>>

\* The call moves on, and touches no more than itself.
Step(c, stage, carry) ==
  /\ pc' = [pc EXCEPT ![c] = stage]
  /\ held' = [held EXCEPT ![c] = carry]
  /\ UNCHANGED <<data, lastOk, refresh, timer, dropped, restarts>>

----------------------------------------------------------------------------
(* import_transactions *)

ImportStart(c) == \E f \in Files : Start(c, "reading", f)

\* Back from the executor with the file: parse it, compare it with the
\* coordinator's cached transactions, build the report.
ImportBuild(c) ==
  /\ pc[c] = "reading"
  /\ Step(c, "saving", BuildReport(c, held[c], data))
  /\ UNCHANGED <<log, store, applied, blame, latest>>

\* The executor could not read the file.
ImportUnreadable(c) ==
  /\ pc[c] = "reading"
  /\ Step(c, "error", None)
  /\ UNCHANGED <<log, store, applied, blame, latest>>

\* An import that leaves a report alone that is pending already.
ImportKeepsPending(c) ==
  /\ pc[c] = "saving"
  /\ store' = IF store = None THEN held[c] ELSE store
  /\ latest' = c
  /\ Step(c, "requesting", None)
  /\ UNCHANGED <<log, applied, blame>>

ImportSave(c) ==
  /\ pc[c] = "saving"
  /\ store' = held[c]
  /\ latest' = c
  /\ Step(c, "requesting", None)
  /\ UNCHANGED <<log, applied, blame>>

\* The store's file cannot be read: async_load raises and the service fails.
ImportSaveRaises(c) ==
  /\ pc[c] = "saving"
  /\ Step(c, "error", None)
  /\ UNCHANGED <<log, store, applied, blame, latest>>

\* The store's file cannot be written: async_save logs that and returns, and
\* the import goes on as if its report were the pending one.
ImportSaveLost(c) ==
  /\ pc[c] = "saving"
  /\ latest' = c
  /\ Note({"store"})
  /\ Step(c, "requesting", None)
  /\ UNCHANGED <<log, store, applied>>

----------------------------------------------------------------------------
(* apply_import *)

ApplyStart(c) == Start(c, "loading", None)

\* async_get_last_report: no pending report is an error.
ApplyLoad(c) ==
  /\ pc[c] = "loading"
  /\ IF store = None THEN Step(c, "error", None) ELSE Step(c, "appending", store)
  /\ UNCHANGED <<log, store, applied, blame, latest>>

ApplyLoadRaises(c) ==
  /\ pc[c] = "loading"
  /\ Step(c, "error", None)
  /\ UNCHANGED <<log, store, applied, blame, latest>>

\* An append that writes some of the rows only.
ApplyAppendsSome(c) ==
  /\ pc[c] = "appending"
  /\ \E some \in SUBSET Rows :
       log' = AddRows(log, [r \in Rows |-> IF r \in some THEN held[c].imported[r] ELSE 0])
  /\ applied' = [applied EXCEPT ![held[c].id] = @ + 1]
  /\ Step(c, "clearing", held[c])
  /\ UNCHANGED <<store, blame, latest>>

\* The executor's append of report.imported, all of it in one replacement of
\* the file (YamlPortfolioWriter implements this when writes do not overlap).
ApplyAppend(c) ==
  /\ pc[c] = "appending"
  /\ log' = AddRows(log, held[c].imported)
  /\ applied' = [applied EXCEPT ![held[c].id] = @ + 1]
  /\ Note((IF RowsOf(log) = held[c].base THEN {} ELSE {"stale"})
           \union (IF Readable(held[c].imported) THEN {} ELSE {"repeat"}))
  /\ Step(c, "clearing", held[c])
  /\ UNCHANGED <<store, latest>>

\* An apply that carries on after an OSError as if it had written.
ApplySwallowsError(c) ==
  /\ pc[c] = "appending"
  /\ Step(c, "clearing", held[c])
  /\ UNCHANGED <<log, store, applied, blame, latest>>

\* The append raised OSError: the service fails and the report stays.
ApplyWriteFails(c) ==
  /\ pc[c] = "appending"
  /\ Step(c, "error", None)
  /\ UNCHANGED <<log, store, applied, blame, latest>>

\* An apply that leaves the report pending.
ApplyKeepsReport(c) ==
  /\ pc[c] = "clearing"
  /\ Step(c, "requesting", None)
  /\ UNCHANGED <<log, store, applied, blame, latest>>

\* An apply that does not have its rows shown.
ApplyWithoutRefresh(c) ==
  /\ pc[c] = "clearing"
  /\ store' = None
  /\ Step(c, "ok", None)
  /\ UNCHANGED <<log, applied, blame, latest>>

\* async_clear_report drops whatever report is pending by now.
ApplyClear(c) ==
  /\ pc[c] = "clearing"
  /\ store' = None
  /\ Step(c, "requesting", None)
  /\ UNCHANGED <<log, applied, blame, latest>>

\* Its load raises: the rows are in the log, the report stays pending, and
\* nobody asks for a refresh.
ApplyClearRaises(c) ==
  /\ pc[c] = "clearing"
  /\ pc' = [pc EXCEPT ![c] = "error"]
  /\ held' = [held EXCEPT ![c] = None]
  /\ dropped' = TRUE
  /\ Note({"store"})
  /\ UNCHANGED <<log, store, data, lastOk, refresh, timer, applied, latest,
                 restarts>>

\* Its save is not written, without a word: the report stays pending.
ApplyClearLost(c) ==
  /\ pc[c] = "clearing"
  /\ Note({"store"})
  /\ Step(c, "requesting", None)
  /\ UNCHANGED <<log, store, applied, latest>>

----------------------------------------------------------------------------
\* Home Assistant stops, or dies, and starts again: what was in memory goes.
Restart ==
  /\ restarts < MaxRestarts
  /\ restarts' = restarts + 1
  /\ data' = None /\ refresh' = None /\ timer' = "off" /\ lastOk' = TRUE
  /\ pc' = [c \in Calls |-> IF pc[c] \in Waiting THEN "lost" ELSE pc[c]]
  /\ held' = [c \in Calls |-> None]
  /\ dropped' = FALSE
  /\ Note(IF \E c \in Calls : pc[c] = "clearing" THEN {"crash"} ELSE {})
  /\ UNCHANGED <<log, store, applied, latest>>

Init ==
  /\ log \in {bag \in FirstLogs : Readable(bag)}
  /\ store = None /\ data = None /\ lastOk = TRUE
  /\ refresh = None /\ timer = "off"
  /\ pc = [c \in Calls |-> "idle"]
  /\ held = [c \in Calls |-> None]
  /\ applied = [c \in Calls |-> 0]
  /\ blame = {} /\ dropped = FALSE /\ latest = None /\ restarts = 0

\* The steps a call takes by itself once it is made.
Proceed(c) == \/ ImportBuild(c) \/ ImportSave(c)
              \/ ApplyLoad(c) \/ ApplyAppend(c) \/ ApplyClear(c)
              \/ RequestRefresh(c)

Next ==
  \/ \E c \in Calls : \/ ImportStart(c) \/ ApplyStart(c) \/ Refused(c)
                      \/ ImportUnreadable(c) \/ ApplyWriteFails(c)
                      \/ ImportSaveRaises(c) \/ ImportSaveLost(c)
                      \/ ApplyLoadRaises(c)
                      \/ ApplyClearRaises(c) \/ ApplyClearLost(c)
                      \/ Proceed(c)
  \/ SetUp \/ IntervalElapses \/ TimerExpires
  \/ RefreshSucceeds \/ RefreshFails
  \/ Restart

Spec == Init /\ [][Next]_vars

\* The event loop and the executor run what is ready, however its steps end;
\* the coordinator is set up and polls, and timers fire; a refresh comes to an
\* end, and though any may fail not all of them do.
\* Nothing says that a user makes calls or that Home Assistant restarts.
Fairness ==
  /\ WF_vars(\E c \in Calls : Proceed(c))
  /\ WF_vars(SetUp \/ IntervalElapses) /\ WF_vars(TimerExpires)
  /\ SF_vars(RefreshSucceeds)

FairSpec == Spec /\ Fairness
----------------------------------------------------------------------------
(* Properties *)

RefreshRecords == [by : {"request", "interval", "setup"}, rows : SUBSET Rows,
                   waiting : Calls \union {None}]

\* None is no report and no refresh.
ASSUME NoneAssumption == None \notin Reports \union RefreshRecords

\* Every variable has its type, and a call carries what its stage needs.
TypeOK ==
  /\ log \in [Rows -> Nat]
  /\ store \in Reports \union {None}
  /\ data \in (SUBSET Rows) \union {None}
  /\ lastOk \in BOOLEAN
  /\ refresh \in RefreshRecords \union {None}
  /\ timer \in {"off", "cooldown", "pending"}
  /\ pc \in [Calls -> Waiting \union Finished \union {"idle"}]
  /\ held \in [Calls -> Files \union Reports \union {None}]
  /\ \A c \in Calls :
        /\ pc[c] = "reading" => held[c] \in Files /\ data \in SUBSET Rows
        /\ pc[c] \in {"saving", "appending", "clearing"} => held[c] \in Reports
  /\ applied \in [Calls -> Nat]
  /\ blame \subseteq Hazards
  /\ dropped \in BOOLEAN
  /\ latest \in Calls \union {None}
  /\ restarts \in 0 .. MaxRestarts

\* Applying reports makes the log unreadable (every refresh then fails) only
\* in two ways: rows were written that had been compared with another state of
\* the log than the one they were added to, or a report repeats an id itself.
\* It holds whatever calls overlap, and across restarts.
UnreadableOnlyIfBlamed == Readable(log) \/ blame \intersect {"stale", "repeat"} # {}

\* A report holds no id of the list it was checked against.
Sound(report) ==
  \A r \in Rows : report.imported[r] > 0 => \A e \in report.base : IdOf[r] # IdOf[e]

\* The inductive form of UnreadableOnlyIfBlamed: it needs that every report,
\* pending or carried by a call, is sound.
ReadableInv ==
  /\ TypeOK
  /\ store # None => Sound(store)
  /\ \A c \in Calls : pc[c] \in {"saving", "appending", "clearing"} => Sound(held[c])
  /\ UnreadableOnlyIfBlamed

\* A report's rows are written once, however often apply_import is called,
\* as long as calls do not overlap, the report store takes what it is given,
\* and no restart comes between the write of the log and the clearing of the
\* report.
AppliedAtMostOnce ==
  blame \intersect {"overlap", "crash", "store"} = {} =>
    \A c \in Calls : applied[c] <= 1

\* The report that is applied is the one the last import made, which is the
\* one its user was shown: an older one is written only when calls overlap or
\* the store has kept it against a save (ADR 0017).
AppliedIsReviewed ==
  [][\A c \in Calls :
       applied'[c] > applied[c] /\ blame' \intersect {"overlap", "store"} = {}
         => latest = c]_vars

\* As the abstract specification sees it a report that is in the log is no
\* longer pending, though the store has yet to hear of it.
Pending == IF \E c \in Calls : pc[c] = "clearing" THEN None ELSE store
Done == {c \in Calls : applied[c] > 0}

Abstract == INSTANCE ReviewedImport WITH pending <- Pending, done <- Done

\* Until calls overlap, the store fails or a restart splits an apply, import
\* and apply keep the promise of ReviewedImport: every change of the log is
\* one pending report written whole, and that report is never seen again.
ImplementsReview ==
  Abstract!Init /\ [][blame' \intersect {"overlap", "crash", "store"} = {}
                        => Abstract!Next]_<<log, Pending, Done>>

\* With calls one after another a pending report goes away only because its
\* rows are in the log: no error and no restart loses a reviewed report.
ReportNeverLost ==
  [][store # None /\ store' = None /\ "overlap" \notin blame
       => applied[store.id] >= 1]_vars

\* A report that is written a second time, by applies that overlap, after a
\* restart that fell between append and clear, or because the store kept it,
\* never doubles what the portfolio shows: its rows are in the log with their
\* ids, all of them, so that no refresh reads the log again.  What overlaps,
\* crashes and failing stores can do to a reviewed import ends there.
SecondWriteIsNoticed ==
  [][\A c \in Calls :
       applied[c] >= 1 /\ applied'[c] > applied[c] => ~Readable(log') \/ log' = log]_vars

\* The coordinator shows another list than the log's only while something is
\* under way that will show it (a refresh, a cooldown that ends in one, the
\* rest of an apply), or after a failed refresh, or after a request for a
\* refresh was dropped because one was in flight or not made because clearing
\* the report raised.  Once the price service
\* answers nothing else delays what apply_import wrote.
StaleOnlyWithReason ==
  data # None /\ data # RowsOf(log) =>
    \/ ~Idle \/ timer = "pending" \/ dropped \/ ~lastOk
    \/ \E c \in Calls : pc[c] \in {"clearing", "requesting"}

\* If the log stays readable the coordinator comes to show it, for good:
\* failed and dropped refreshes only delay it.
CatchesUp == <>[](Readable(log) => data = RowsOf(log))
=============================================================================
