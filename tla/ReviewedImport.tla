--------------------------- MODULE ReviewedImport ---------------------------
(***************************************************************************)
(* What review-then-apply promises (ADR 0017): an import only puts a       *)
(* report aside to be reviewed, and the one thing that changes the log is  *)
(* to apply the report that is pending, all of it in one step, with which  *)
(* it is pending no longer and never again.                                *)
(***************************************************************************)
EXTENDS Naturals

CONSTANTS Rows, Reports, None

VARIABLES log,      \* how often the transaction log holds each row
          pending,  \* the report to be reviewed, or None
          done      \* the ids of the reports that were applied

Init == /\ log \in [Rows -> Nat]
        /\ pending = None
        /\ done = {}

\* A new report takes the place of the one that was pending, if any.
Review == /\ pending' \in Reports
          /\ pending'.id \notin done
          /\ UNCHANGED <<log, done>>

Apply == /\ pending # None
         /\ log' = [r \in Rows |-> log[r] + pending.imported[r]]
         /\ done' = done \union {pending.id}
         /\ pending' = None

Next == Review \/ Apply

Spec == Init /\ [][Next]_<<log, pending, done>>
=============================================================================
