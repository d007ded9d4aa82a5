--------------------------- MODULE SnapshotSeries ---------------------------
(***************************************************************************)
(* What the snapshot policy promises (should_create_snapshot and the       *)
(* store's append, docs/adr/0012): a history that only grows, by one       *)
(* snapshot at a time, of today or of a day that was today when it was     *)
(* taken, and never by a second one of the same day.                       *)
(***************************************************************************)
EXTENDS Naturals

CONSTANT Days

VARIABLES today,
          series  \* per day: how many snapshots there are of it

Init == today \in Days /\ series = [d \in Days |-> 0]

\* A refresh that began before midnight may store its snapshot after it.
Store == \E d \in Days :
           /\ d <= today /\ series[d] = 0
           /\ series' = [series EXCEPT ![d] = 1]
           /\ UNCHANGED today

\* The clock of the machine goes on, or is set.
Pass == today' \in Days /\ UNCHANGED series

Next == Store \/ Pass

Spec == Init /\ [][Next]_<<today, series>>
=============================================================================
