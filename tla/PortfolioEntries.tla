-------------------------- MODULE PortfolioEntries --------------------------
(***************************************************************************)
(* Several config entries side by side: the dialogs that make, move and    *)
(* tune them (config_flow.py), their set-up and unloading (__init__.py),   *)
(* and the services, which look for the coordinator to work with among all *)
(* that are loaded (services.py).  A coordinator keeps the folder and the  *)
(* interval it was made with; the entry may say something else by now.     *)
(* What a refresh and an apply do in detail is PortfolioCoordinator's and  *)
(* ImportPipeline's matter: here each is a step between changes of the     *)
(* configuration.                                                          *)
(***************************************************************************)
EXTENDS Naturals, FiniteSets

CONSTANTS Paths,     \* investments paths, as users type them
          Folders,   \* the folders they lead to
          FolderOf,  \* which: several paths may lead to one ("x" and "x/")
          Ids,       \* portfolio folders in them, by name; numbers, for their order
          Minutes,   \* update intervals a user may enter
          Entries,   \* config entries that can be made
          Flows,     \* set-up dialogs that can be opened
          Used,      \* bound: the entries that are changed and imported into, and
          MaxEdits,  \* how often, reconfigurations and option changes together
          Lasting,   \* bound: the folders that have all portfolios and are kept
          MaxBusy,   \* bound: guided dialogs and service calls under way, together
          None

ASSUME IdsAssumption == Ids \subseteq Nat
ASSUME FolderAssumption == FolderOf \in [Paths -> Folders]
ASSUME NoneAssumption ==
  None \notin Paths \union Folders \union Ids \union Minutes \union Entries
ASSUME LastingAssumption == Lasting \subseteq Folders
ASSUME EditsAssumption == MaxEdits \in Nat
ASSUME BusyAssumption == MaxBusy \in Nat

VARIABLES files,       \* per folder: its portfolios, or None if it is not there
          entry,       \* per entry: its configuration, or None
          state,       \* per entry: how far it is loaded
          reload,      \* the entries whose reload is scheduled
          coordinator, \* per entry: the coordinator made last, or None
          live,        \* the entries of hass.data
          registered,  \* the services of the domain
          flow,        \* per dialog: its step, the path that was entered, and
                       \* whether the user has closed it
          call,        \* the service call under way, or None
          report       \* per entry and portfolio: the folder whose log its
                       \* pending import report was compared with, or None

\* History: the interval entered last and where, the entries whose path was
\* changed, those whose options changed while they were being set up.
VARIABLES entered, moved, missed, edits

config  == <<entry, reload, entered, moved, missed, edits>>
runtime == <<state, coordinator, live, registered>>
service == <<call, report>>
vars == <<files, config, runtime, service, flow>>

----------------------------------------------------------------------------
Services == {"import_transactions", "export_portfolio_data", "search_assets",
             "apply_import", "create_portfolio"}

States == {"unused", "not_loaded", "setup", "loaded", "failed", "removed"}

Configs == [uid : Paths, path : Paths, minutes : Minutes, options : Minutes \union {None}]

Coordinators == [base : Folders, minutes : Minutes, serves : Ids \union {None}]

CallRecords == [kind : {"create", "apply"}, entry : Entries, id : Ids,
                base : Folders, meant : Folders, late : BOOLEAN]

Steps == [step : {"user", "guided", "written"}, path : Paths \union {None}, closed : BOOLEAN]

\* An interval that was entered, and where.
Inputs == [minutes : Minutes, by : {"user", "reconfigure", "options"}]

ASSUME RecordsAssumption ==
  None \notin Configs \union Coordinators \union CallRecords \union Inputs

\* The entries Home Assistant lists.
Present == {e \in Entries : state[e] \notin {"unused", "removed"}}

Exists(p) == files[FolderOf[p]] # None

\* A dialog that asks nobody.
TakenByNone(p, own) == FALSE

\* _abort_if_unique_id_configured, for a dialog of entry own (or of none): the
\* unique id is the path as it was typed, whatever folder it leads to.
Taken(p, own) == \E e \in Present \ {own} : entry[e].uid = p

\* A unique id for the whole domain: one entry, and no second one ever.
TakenByAny(p, own) == Present \ {own} # {}

\* The portfolio of a folder that a coordinator shows: the first by name.
First(s) == CHOOSE i \in s : \A j \in s : i <= j

\* The interval of the data, whatever the options say.
IntervalOfData(c) == c.minutes

\* PortfolioCoordinator.__init__: options come before data.
Interval(c) == IF c.options = None THEN c.minutes ELSE c.options

----------------------------------------------------------------------------
(* The set-up dialog *)

\* The bound leaves room for another dialog or call.
MayBegin ==
  Cardinality({f \in Flows : flow[f].step # "user"}) + (IF call = None THEN 0 ELSE 1) < MaxBusy

\* async_create_entry: a new entry, which Home Assistant sets up.
Create(e, p, m) ==
  /\ state[e] = "unused"
  /\ entry' = [entry EXCEPT ![e] = [uid |-> p, path |-> p, minutes |-> m, options |-> None]]
  /\ state' = [state EXCEPT ![e] = "not_loaded"]
  /\ entered' = [entered EXCEPT ![e] = [minutes |-> m, by |-> "user"]]
  /\ UNCHANGED <<reload, moved, missed, edits, coordinator, live, registered>>

Goto(f, step) == flow' = [flow EXCEPT ![f].step = step]

Opened == [step |-> "user", path |-> None, closed |-> FALSE]

\* The dialog ends, with an entry or without; another one may be opened.
End(f) == flow' = [flow EXCEPT ![f] = Opened]

\* A path that no folder has, and the box ticked: the guided set-up.  (Not
\* ticked, the form comes back with an error.)  The interval and the
\* portfolio's name, entered here and in the next forms, are chosen where they
\* are used.
UserStepToGuided(f) ==
  /\ flow[f].step = "user" /\ MayBegin
  /\ \E p \in Paths :
       /\ ~Exists(p)
       /\ flow' = [flow EXCEPT ![f] = [step |-> "guided", path |-> p, closed |-> FALSE]]
  /\ UNCHANGED <<files, config, runtime, service>>

\* A folder that exists: an entry, or an abort if its path has one.  All that
\* happens in one step: a dialog that has only been opened has no state.
UserStep ==
  /\ \E p \in Paths, m \in Minutes :
       /\ Exists(p) /\ ~Taken(p, None)
       /\ \E e \in Entries : Create(e, p, m)
  /\ UNCHANGED <<files, service, flow>>

\* mkdir(parents=True, exist_ok=True) of the writer.
Made(d) == files' = [files EXCEPT ![d] = IF @ = None THEN {} ELSE @]

\* The writer's _create_portfolio_sync: a portfolio that is there already is a
\* FileExistsError.
Written(d, i) == files' = [files EXCEPT ![d] = (IF @ = None THEN {} ELSE @) \union {i}]
CanCreate(d, i) == files[d] # None => i \notin files[d]

\* Guided set-up goes through the form of the new portfolio, then searches for
\* holdings and choices of one, over and over, which change nothing that is
\* modelled.  A blank query ends them, and the portfolio is written in the
\* executor: first its folder is made, ...
MakeFolder(f) ==
  /\ flow[f].step = "guided"
  /\ ~Exists(flow[f].path) /\ Made(FolderOf[flow[f].path])
  /\ UNCHANGED <<config, runtime, service, flow>>

\* ... then its files are.  Any error ends the dialog, and leaves the folder.
GuidedWrite(f) ==
  /\ flow[f].step = "guided"
  /\ LET d == FolderOf[flow[f].path]
     IN  \/ /\ Exists(flow[f].path)
            /\ \E i \in Ids : CanCreate(d, i) /\ Written(d, i)
            /\ Goto(f, "written")
         \/ /\ End(f)
            /\ UNCHANGED files
  /\ UNCHANGED <<config, runtime, service>>

\* A finish that knows one unique id only.
GuidedFinishByDomain(f) ==
  /\ flow[f].step = "written"
  /\ End(f)
  /\ \/ /\ TakenByAny(flow[f].path, None) \/ flow[f].closed
        /\ UNCHANGED <<config, runtime>>
     \/ /\ ~TakenByAny(flow[f].path, None)
        /\ \E e \in Entries, m \in Minutes : Create(e, flow[f].path, m)
  /\ UNCHANGED <<files, service>>

\* Only now is the unique id set, and the dialog aborted if it is taken.  Home
\* Assistant drops what a closed dialog returns, or makes the entry all the
\* same: that depends on its version.
GuidedFinish(f) ==
  /\ flow[f].step = "written"
  /\ End(f)
  /\ \/ /\ Taken(flow[f].path, None) \/ flow[f].closed
        /\ UNCHANGED <<config, runtime>>
     \/ /\ ~Taken(flow[f].path, None)
        /\ \E e \in Entries, m \in Minutes : Create(e, flow[f].path, m)
  /\ UNCHANGED <<files, service>>

\* The user closes the dialog: while a form is shown it is gone; while the
\* write is awaited, and until its result is taken, the write goes on.
Close(f) ==
  /\ \/ flow[f].step = "guided" /\ End(f)
     \/ flow[f].step \in {"guided", "written"} /\ flow' = [flow EXCEPT ![f].closed = TRUE]
  /\ UNCHANGED <<files, config, runtime, service>>

----------------------------------------------------------------------------
(* The dialogs of an entry *)

\* A dialog of an entry that is there.
MayEdit(e) == e \in Present /\ e \in Used /\ edits < MaxEdits

\* What both do: the configuration is another one, and was entered by b.
Configure(e, c, m, b) ==
  /\ edits' = edits + 1
  /\ entry' = [entry EXCEPT ![e] = c]
  /\ entered' = [entered EXCEPT ![e] = [minutes |-> m, by |-> b]]
  /\ moved' = IF c.path = entry[e].path THEN moved ELSE moved \union {e}
  /\ UNCHANGED <<files, runtime, service, flow>>

\* A reconfiguration that takes effect at the next restart.
ReconfigureOnly(e) ==
  /\ MayEdit(e)
  /\ \E p \in Paths, m \in Minutes :
       /\ Exists(p) /\ ~Taken(p, e)
       /\ Configure(e, [entry[e] EXCEPT !.path = p, !.minutes = m], m, "reconfigure")
  /\ UNCHANGED <<reload, missed>>

\* async_step_reconfigure: new data, the unique id and the options as they
\* were, and a reload.  Whether Home Assistant counts the entry's own id as
\* taken makes no difference: then nothing happens.
Reconfigure(e) ==
  /\ MayEdit(e)
  /\ \E p \in Paths, m \in Minutes :
       /\ Exists(p) /\ ~Taken(p, e)
       /\ Configure(e, [entry[e] EXCEPT !.path = p, !.minutes = m], m, "reconfigure")
  /\ reload' = reload \union {e}
  /\ UNCHANGED missed

\* The options dialog: the update listener reloads an entry that is loaded;
\* one that is being set up has no listener yet.
Options(e) ==
  /\ MayEdit(e)
  /\ \E m \in Minutes : Configure(e, [entry[e] EXCEPT !.options = m], m, "options")
  /\ reload' = IF state[e] = "loaded" THEN reload \union {e} ELSE reload
  /\ missed' = IF state[e] = "setup" THEN missed \union {e} ELSE missed

----------------------------------------------------------------------------
(* Set-up, unload, removal *)

\* async_setup_entry: a coordinator from what the entry says now.
SetUpStart(e) ==
  /\ state[e] = "not_loaded"
  /\ state' = [state EXCEPT ![e] = "setup"]
  /\ coordinator' = [coordinator EXCEPT ![e] =
       [base |-> FolderOf[entry[e].path], minutes |-> Interval(entry[e]), serves |-> None]]
  /\ reload' = reload \ {e}
  /\ missed' = missed \ {e}
  /\ UNCHANGED <<files, entry, entered, moved, edits, live, registered, service, flow>>

\* async_register_services: those that are not registered yet.
Register == registered' = registered \union Services

\* The first refresh: on success the coordinator goes to hass.data and the
\* services that are not registered yet are; on failure the entry is retried.
SetUpEnd(e) ==
  /\ state[e] = "setup"
  /\ \/ /\ files[coordinator[e].base] \notin {None, {}}
        /\ state' = [state EXCEPT ![e] = "loaded"]
        /\ coordinator' = [coordinator EXCEPT ![e].serves = First(files[coordinator[e].base])]
        /\ live' = live \union {e}
        /\ Register
     \/ /\ state' = [state EXCEPT ![e] = "not_loaded"]
        /\ coordinator' = [coordinator EXCEPT ![e] = None]
        /\ UNCHANGED <<live, registered>>
  /\ UNCHANGED <<files, config, service, flow>>

\* Any later refresh: a folder without portfolios fails it, the data stay.
Refresh(e) ==
  /\ e \in live
  /\ files[coordinator[e].base] \notin {None, {}}
  /\ coordinator' = [coordinator EXCEPT ![e].serves = First(files[coordinator[e].base])]
  /\ UNCHANGED <<files, config, state, live, registered, service, flow>>

\* An unload that forgets the services of Milestone 12.
UnloadForgetsServices(e) ==
  /\ state[e] = "loaded"
  /\ \/ /\ state' = [state EXCEPT ![e] = "not_loaded"]
        /\ coordinator' = [coordinator EXCEPT ![e] = None]
        /\ live' = live \ {e}
        /\ registered' = IF live = {e} THEN registered \intersect {"apply_import", "create_portfolio"}
                         ELSE registered
        /\ UNCHANGED reload
     \/ /\ state' = [state EXCEPT ![e] = "failed"]
        /\ reload' = reload \ {e}
        /\ UNCHANGED <<coordinator, live, registered>>
  /\ UNCHANGED <<files, entry, entered, moved, missed, edits, service, flow>>

\* async_unload_entry, before a reload or on its own: out of hass.data, the
\* services go with the last entry.  If the platforms cannot be unloaded the
\* coordinator stays, and Home Assistant does not reload the entry.
Unload(e) ==
  /\ state[e] = "loaded"
  /\ \/ /\ state' = [state EXCEPT ![e] = "not_loaded"]
        /\ coordinator' = [coordinator EXCEPT ![e] = None]
        /\ live' = live \ {e}
        /\ registered' = IF live = {e} THEN {} ELSE registered
        /\ UNCHANGED reload
     \/ /\ state' = [state EXCEPT ![e] = "failed"]
        /\ reload' = reload \ {e}
        /\ UNCHANGED <<coordinator, live, registered>>
  /\ UNCHANGED <<files, entry, entered, moved, missed, edits, service, flow>>

\* The user removes an entry: what is kept under its id is not read again.  A
\* coordinator whose unload failed stays in hass.data, with the entry it has.
Remove(e) ==
  /\ \/ /\ state[e] = "not_loaded"
        /\ entry' = [entry EXCEPT ![e] = None]
        /\ entered' = [entered EXCEPT ![e] = None]
        /\ report' = [report EXCEPT ![e] = [i \in Ids |-> None]]
     \/ /\ state[e] = "failed"
        /\ UNCHANGED <<entry, entered, report>>
  /\ state' = [state EXCEPT ![e] = "removed"]
  /\ reload' = reload \ {e}
  /\ UNCHANGED <<files, moved, missed, edits, coordinator, live, registered, call, flow>>

----------------------------------------------------------------------------
(* Services *)

\* A search for the path an entry was made with.
FindByUid(p) == {e \in live : entry[e].uid = p}

\* _find_coordinator_for_portfolio and _find_coordinator_for_investments_path
\* take the first coordinator of hass.data that matches; which one of several
\* that is depends on the order of loading, and is left open here.
FindByPortfolio(i) == {e \in live : coordinator[e].serves = i}
FindByPath(p) == {e \in live : entry[e].path = p}

\* A call that has found its coordinator goes on with that coordinator's
\* folder, whatever becomes of the entry; meant is the folder it is about.
Called(kind, e, i, meant, late) ==
  /\ call = None /\ MayBegin
  /\ call' = [kind |-> kind, entry |-> e, id |-> i, base |-> coordinator[e].base,
              meant |-> meant, late |-> late]
  /\ UNCHANGED <<files, config, runtime, report, flow>>

\* An entry whose coordinator is known to be out of date.
Late(e) == e \in reload \/ state[e] \in {"failed", "removed"}

CreateStart ==
  \E p \in Paths, i \in Ids : \E e \in FindByPath(p) : Called("create", e, i, FolderOf[p], Late(e))

\* import_transactions saves its report under the entry and the portfolio.
\* Its stages are ImportPipeline's.
Import ==
  /\ \E i \in Ids : \E e \in FindByPortfolio(i) \intersect Used :
       report' = [report EXCEPT ![e][i] = coordinator[e].base]
  /\ UNCHANGED <<files, config, runtime, call, flow>>

\* async_get_last_report: the report of this entry for this portfolio, if any.
ApplyStart ==
  \E i \in Ids : \E e \in FindByPortfolio(i) :
    /\ report[e][i] # None
    /\ Called("apply", e, i, report[e][i], FALSE)

Return == /\ call' = None
          /\ UNCHANGED <<config, runtime, flow>>

\* create_portfolio writes in the executor; any error ends the call, before the
\* folder was made or after.
CreateEnd ==
  /\ call # None
  /\ call.kind = "create"
  /\ \/ CanCreate(call.base, call.id) /\ Written(call.base, call.id)
     \/ Made(call.base)
     \/ UNCHANGED files
  /\ Return
  /\ UNCHANGED report

\* apply_import appends to the log of the portfolio of that name, whose folder
\* it makes if it is not there, and clears the report; an error leaves it.
ApplyEnd ==
  /\ call # None
  /\ call.kind = "apply"
  /\ \/ /\ Made(call.base)
        /\ report' = [report EXCEPT ![call.entry][call.id] = None]
     \/ /\ Made(call.base) \/ UNCHANGED files
        /\ UNCHANGED report
  /\ Return

----------------------------------------------------------------------------
\* The user deletes a folder.  (One that a user makes is there from the start.)
Edit(d) ==
  /\ files[d] # None /\ d \notin Lasting
  /\ files' = [files EXCEPT ![d] = None]
  /\ UNCHANGED <<config, runtime, service, flow>>

\* Home Assistant stops, wherever dialogs, reloads and calls are, and starts
\* again: entries and reports are stored, all else was in memory.
Restart ==
  /\ entry' = [e \in Entries |-> IF e \in Present THEN entry[e] ELSE None]
  /\ entered' = [e \in Entries |-> IF e \in Present THEN entered[e] ELSE None]
  /\ report' = [e \in Entries |-> IF e \in Present THEN report[e] ELSE [i \in Ids |-> None]]
  /\ state' = [e \in Entries |-> IF e \in Present THEN "not_loaded" ELSE state[e]]
  /\ coordinator' = [e \in Entries |-> None]
  /\ reload' = {} /\ missed' = {} /\ live' = {} /\ registered' = {}
  /\ flow' = [f \in Flows |-> Opened]
  /\ call' = None
  /\ UNCHANGED <<files, moved, edits>>

Init ==
  /\ files \in [Folders -> {None} \union SUBSET Ids]
  /\ \A d \in Lasting : files[d] = Ids
  /\ entry = [e \in Entries |-> None]
  /\ state = [e \in Entries |-> "unused"]
  /\ reload = {} /\ live = {} /\ registered = {}
  /\ coordinator = [e \in Entries |-> None]
  /\ flow = [f \in Flows |-> Opened]
  /\ call = None
  /\ report = [e \in Entries |-> [i \in Ids |-> None]]
  /\ entered = [e \in Entries |-> None]
  /\ moved = {} /\ missed = {} /\ edits = 0

Dialog(f) == \/ UserStepToGuided(f) \/ MakeFolder(f) \/ GuidedWrite(f)
             \/ GuidedFinish(f) \/ Close(f)

Lifecycle(e) == \/ Reconfigure(e) \/ Options(e) \/ SetUpStart(e) \/ SetUpEnd(e)
                \/ Refresh(e) \/ Unload(e) \/ Remove(e)

Service == \/ CreateStart \/ CreateEnd \/ Import \/ ApplyStart \/ ApplyEnd

Next == \/ UserStep
        \/ \E f \in Flows : Dialog(f)
        \/ \E e \in Entries : Lifecycle(e)
        \/ Service
        \/ \E d \in Folders : Edit(d)
        \/ Restart

Spec == Init /\ [][Next]_vars

----------------------------------------------------------------------------
(* Properties *)

\* An entry that is there has a configuration, one that is being set up or is
\* loaded has a coordinator.
Equipped ==
  \A e \in Entries :
    /\ e \in Present \union live => entry[e] # None /\ entered[e] # None
    /\ e \in live \/ state[e] \in {"setup", "loaded", "failed"} => coordinator[e] # None

\* Every variable has its type, and every entry what its state needs.
TypeOK ==
  /\ files \in [Folders -> {None} \union SUBSET Ids]
  /\ entry \in [Entries -> Configs \union {None}]
  /\ state \in [Entries -> States]
  /\ reload \subseteq Entries /\ live \subseteq Entries
  /\ coordinator \in [Entries -> Coordinators \union {None}]
  /\ registered \subseteq Services
  /\ flow \in [Flows -> Steps]
  /\ call \in CallRecords \union {None}
  /\ report \in [Entries -> [Ids -> Folders \union {None}]]
  /\ entered \in [Entries -> Inputs \union {None}]
  /\ moved \subseteq Entries /\ missed \subseteq Entries
  /\ edits \in 0 .. MaxEdits
  /\ Equipped

\* async_register_services and async_unload_entry: the five services are there
\* exactly while some coordinator is in hass.data.
ServicesWhileLoaded == registered = IF live = {} THEN {} ELSE Services

\* Two entries track the same folder for one of two reasons only, however the
\* dialogs interleave.  One was moved: reconfiguring changes the path and keeps
\* the unique id, so that the new path can be set up once more.  Or the folder
\* was typed in two ways: the unique id is what was typed (config_flow.py:66
\* looks for the folder, 100 and 248 compare the text).
SameFolderOnlyWithReason ==
  \A e, f \in Present : e # f /\ FolderOf[entry[e].path] = FolderOf[entry[f].path] =>
    {e, f} \intersect moved # {} \/ entry[e].path # entry[f].path

\* A coordinator works with the folder and the interval its entry names, unless
\* a reload is scheduled, or the unload failed, or the options were changed
\* while the entry was being set up.
CurrentUnlessPending ==
  \A e \in live : \/ Late(e) \/ e \in missed
                  \/ /\ coordinator[e].base = FolderOf[entry[e].path]
                     /\ coordinator[e].minutes = Interval(entry[e])

\* create_portfolio writes to the folder that was named in the call, unless it
\* found a coordinator that was to be reloaded; apply_import writes to the log
\* the report was compared with, unless the entry was moved to another folder.
WrittenWhereMeant ==
  call # None /\ call.base # call.meant =>
    IF call.kind = "create" THEN call.late ELSE call.entry \in moved

\* Guided set-up writes before it knows whether it may make the entry.  All the
\* same a folder it wrote to is some entry's when it ends, unless an entry that
\* was made for that path was moved to another one.  What it cannot do anything
\* about is a dialog that is closed, or a Home Assistant that is stopped, while
\* it writes: those folders may be left to nobody.
GuidedIsTracked ==
  [][\A f \in Flows : flow[f].step = "written" /\ flow'[f].step # "written" =>
       \/ flow[f].closed
       \/ Restart
       \/ \E e \in Present' : /\ entry'[e].uid = flow[f].path
                             /\ (entry'[e].path = flow[f].path \/ e \in moved)]_vars

\* The interval a user entered last is the one in force, unless a reload is
\* due, or it was entered by reconfiguring an entry that has options, which
\* come first.
IntervalIsTheLastEntered ==
  \A e \in live : \/ Late(e) \/ e \in missed
                  \/ coordinator[e].minutes = entered[e].minutes
                  \/ entered[e].by = "reconfigure" /\ entry[e].options # None
=============================================================================
