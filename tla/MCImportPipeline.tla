-------------------------- MODULE MCImportPipeline --------------------------
(* Small instances of ImportPipeline. *)
EXTENDS ImportPipeline

CONSTANTS r1, r2, r3, i1, i2

MCRows == {r1, r2, r3}

\* r1 and r2 are different rows with ids of their own; r3 is r1's trade as
\* another export gives it, with r2's id.
MCIdOf == [r \in MCRows |-> IF r = r1 THEN i1 ELSE i2]
MCAlike == {<<r1, r3>>, <<r3, r1>>}

Bag(n1, n2, n3) ==
  [r \in MCRows |-> CASE r = r1 -> n1 [] r = r2 -> n2 [] r = r3 -> n3]

\* An export of two rows, and another broker's view of the first of them, which
\* holds it twice.
MCFiles == {Bag(1, 1, 0), Bag(0, 0, 2)}

\* Of the first export nothing is in the log, or one row as it stands, or one
\* row as the other broker has it, which also has the id of the other row.
MCLogs == {Bag(0, 0, 0), Bag(1, 0, 0), Bag(0, 0, 1)}
=============================================================================
