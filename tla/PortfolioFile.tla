---------------------------- MODULE PortfolioFile ----------------------------
(***************************************************************************)
(* What PortfolioWriter (writer_base.py) promises of one file of a         *)
(* portfolio: it is created once and never overwritten, and what is added  *)
(* to it is added at its end, all of it or nothing.  Nobody ever sees      *)
(* anything in between.                                                    *)
(***************************************************************************)
EXTENDS Sequences

CONSTANT Batches  \* the lists of entries a caller may write

VARIABLES exists,  \* whether the file is there
          entries  \* what it holds, in order; nothing while it is not there

Init ==
  \/ exists = FALSE /\ entries = <<>>
  \/ exists = TRUE /\ entries \in Batches

Create(batch) ==
  /\ exists = FALSE
  /\ exists' = TRUE
  /\ entries' = batch

Add(batch) ==
  /\ exists' = TRUE
  /\ entries' = entries \o batch

Next == \E batch \in Batches : Create(batch) \/ Add(batch)

Spec == Init /\ [][Next]_<<exists, entries>>
=============================================================================
