---------------------------- MODULE BrokerImport ----------------------------
(***************************************************************************)
(* What becomes of the rows of a broker export: the importers for generic  *)
(* CSV and for IBKR Flex Query turn each row into a transaction, refuse it *)
(* or skip it; those found in the transaction log are duplicates; the rest *)
(* is what the report proposes and apply_import writes.  Imports are made  *)
(* one after another here, each compared with the log as it is: what       *)
(* overlapping and stale ones do belongs to ImportPipeline.                *)
(*                                                                         *)
(* Numbers are whole, in units that make the tolerance of the duplicate    *)
(* check a whole number too.                                               *)
(***************************************************************************)
EXTENDS Integers, FiniteSets

CONSTANTS Exports,     \* the broker exports at hand
          HandWritten, \* transactions that the user has entered without an id;
                       \* the one that a read gives them is equal to no other
          Tolerance,   \* HEURISTIC_TOLERANCE
          MaxImports,  \* bound on the imports made
          Absent,      \* a field that is absent or empty
          Bad,         \* a text that is no number, date or known word
          NaN          \* the float that the text "nan" is

ASSUME ExportsAssumption   == \A x \in Exports : IsFiniteSet(DOMAIN x.rows)
ASSUME ToleranceAssumption == Tolerance \in Nat
ASSUME ImportsAssumption   == MaxImports \in Nat
ASSUME FieldsAssumption    == /\ \A x \in {Absent, Bad, NaN} : x \notin Int
                              /\ Absent # NaN /\ Absent # Bad /\ Bad # NaN

VARIABLES entries,   \* transactions.yaml: entries, each with its own key:
                     \* the import it came from, and the row
          imports,   \* how many imports were begun
          export,    \* the export being read, or last read
          left,      \* the rows of it not yet read
          parsed,    \* the transactions made of its rows, by row
          rejected,  \* the rows that gave no valid transaction
          skipped,   \* the cash rows of a type that is only warned about
          status     \* "idle", "reading", "reported" or "crashed"

\* History: the exports whose report is in the log; whether one of them
\* repeated an id.
VARIABLES written, repeated

reading == <<export, left, parsed, rejected, skipped>>
brokerVars == <<entries, imports, reading, status, written, repeated>>

----------------------------------------------------------------------------
(* Transactions *)

Increases == {"buy", "transfer_in"}
Decreases == {"sell", "transfer_out"}
Positions == Increases \union Decreases
Transfers == {"transfer_in", "transfer_out"}
Types     == Positions \union {"dividend", "deposit", "withdrawal", "fee"}

\* A comparison with NaN is false, whichever it is.
AtMostZero(x) == x # NaN /\ x <= 0
Magnitude(x)  == IF x = NaN THEN NaN ELSE IF x < 0 THEN -x ELSE x
Product(x, y) == IF NaN \in {x, y} THEN NaN ELSE x * y

\* Transaction.__post_init__, of fields that have been read as numbers.
Valid(t) ==
  /\ t.id # Absent /\ t.currency # Absent
  /\ IF t.type \in Transfers THEN t.amount = 0 ELSE ~AtMostZero(t.amount)
  /\ IF t.type \in Positions
     THEN /\ t.symbol # Absent
          /\ t.shares # Absent /\ ~AtMostZero(t.shares)
          /\ t.price # Absent /\ ~AtMostZero(t.price)
     ELSE /\ t.symbol # Absent <=> t.type = "dividend"
          /\ t.shares = Absent /\ t.price = Absent

----------------------------------------------------------------------------
(* Generic CSV *)

\* deterministic_transaction_id: the price and the notes have no part in it.
GeneratedId(row) ==
  <<"gen", row.type, row.date, row.symbol, row.shares, row.amount, row.currency>>

\* What _row_to_transaction can read; it raises a ValueError at the rest.
CsvReadable(row) == /\ row.type \in Types
                    /\ row.date \notin {Bad, Absent}
                    /\ row.amount \notin {Bad, Absent}
                    /\ row.shares # Bad /\ row.price # Bad

CsvTransaction(row) ==
  [id |-> IF row.id = Absent THEN GeneratedId(row) ELSE row.id, type |-> row.type,
   date |-> row.date, symbol |-> row.symbol, shares |-> row.shares,
   price |-> row.price, amount |-> row.amount, currency |-> row.currency]

----------------------------------------------------------------------------
(* IBKR Flex Query *)

IbkrId(id) == IF id = Absent THEN Absent ELSE <<"ibkr", id>>

TradeReadable(row) == /\ row.type \in {"buy", "sell"}
                      /\ row.shares \notin {Bad, Absent} /\ row.price \notin {Bad, Absent}
                      /\ row.amount # Bad
                      /\ row.date \notin {Bad, Absent}

\* Quantities and amounts are signed; without an amount it is computed.
TradeTransaction(row) ==
  LET shares == Magnitude(row.shares)
  IN  [id |-> IbkrId(row.id), type |-> row.type, date |-> row.date,
       symbol |-> row.symbol, shares |-> shares, price |-> row.price,
       amount |-> IF row.amount = Absent THEN Magnitude(Product(row.price, shares))
                  ELSE Magnitude(row.amount),
       currency |-> row.currency]

CashReadable(row) == row.amount \notin {Bad, Absent} /\ row.date \notin {Bad, Absent}

\* A deposit or a withdrawal is told by the sign of its amount.
CashType(row) ==
  CASE row.type = "dividends" -> "dividend"
    [] row.type = "fees" -> "fee"
    [] OTHER -> IF row.amount # NaN /\ row.amount >= 0 THEN "deposit" ELSE "withdrawal"

CashTransaction(row) ==
  [id |-> IbkrId(row.id), type |-> CashType(row), date |-> row.date,
   symbol |-> IF CashType(row) = "dividend" THEN row.symbol ELSE Absent,
   shares |-> Absent, price |-> Absent, amount |-> Magnitude(row.amount),
   currency |-> row.currency]

----------------------------------------------------------------------------
(* Rows *)

RowReadable(row) == CASE row.kind = "csv" -> CsvReadable(row)
                      [] row.kind = "trade" -> TradeReadable(row)
                      [] row.kind = "cash" -> CashReadable(row)

TransactionOf(row) == CASE row.kind = "csv" -> CsvTransaction(row)
                        [] row.kind = "trade" -> TradeTransaction(row)
                        [] row.kind = "cash" -> CashTransaction(row)

Accepted(row) == RowReadable(row) /\ Valid(TransactionOf(row))

\* A CSV row with more fields than the header: its surplus is a list, which
\* cannot be stripped, and the loop does not catch that.
Crashes(row) == row.kind = "csv" /\ row.surplus

Unsupported(row) == row.kind = "cash" /\ row.type \notin {"dividends", "deposits", "fees"}

----------------------------------------------------------------------------
(* Duplicates and the report *)

\* _close: both absent, or both there and within the tolerance.
Close(a, b) == \/ a = Absent /\ b = Absent
               \/ /\ {Absent, NaN} \intersect {a, b} = {}
                  /\ Magnitude(a - b) <= Tolerance

\* _find_heuristic_match: price and currency have no part in it.
SameTrade(t, e) == /\ t.type = e.type /\ t.date = e.date /\ t.symbol = e.symbol
                   /\ Close(t.shares, e.shares) /\ Close(t.amount, e.amount)

\* A detection without the check of the id, or without that of the rest.
MatchesByContent(t, e) == SameTrade(t, e)
MatchesById(t, e) == t.id = e.id

IsDuplicateOf(t, e) == t.id = e.id \/ SameTrade(t, e)

\* The log as it was before the last import was applied.
KnownStale == {entry.is : entry \in {e \in entries : e.key[1] < imports - 1}}

Known == {entry.is : entry \in entries}

\* detect_duplicates
Duplicates == {i \in DOMAIN parsed : \E e \in Known : IsDuplicateOf(parsed[i], e)}

\* build_import_report: a row is proposed unless a duplicate has its id.
Proposed == {i \in DOMAIN parsed : \A d \in Duplicates : parsed[i].id # parsed[d].id}

TransactionsRead == Cardinality(DOMAIN parsed) + Cardinality(rejected)

----------------------------------------------------------------------------
(* Steps *)

\* What a refresh insists on before the log is compared with anything.
LogReadable == \A d, e \in entries : d.is.id = e.is.id => d = e

BrokerInit ==
  /\ entries \in {{}} \union {{[key |-> <<0, 0>>, is |-> t]} : t \in HandWritten}
  /\ imports = 0
  /\ export \in Exports
  /\ left = {} /\ parsed = <<>> /\ rejected = {} /\ skipped = {}
  /\ status = "idle"
  /\ written = {} /\ repeated = FALSE

\* An export without a usable header, or that is no XML, has no rows to read:
\* its report has a warning only.
Open ==
  /\ status \in {"idle", "reported", "crashed"}
  /\ imports < MaxImports
  /\ LogReadable
  /\ export' \in Exports
  /\ left' = IF export'.sound THEN DOMAIN export'.rows ELSE {}
  /\ parsed' = <<>> /\ rejected' = {} /\ skipped' = {}
  /\ imports' = imports + 1
  /\ status' = "reading"
  /\ UNCHANGED <<entries, written, repeated>>

\* Trades are read before cash transactions, else rows in their order.
NextUp(i) ==
  \A j \in left \ {i} :
    \/ export.rows[i].kind = "trade" /\ export.rows[j].kind = "cash"
    \/ export.rows[i].kind = export.rows[j].kind /\ i < j

\* A reader that loses the rows it cannot take.
ReadRowForgetful ==
  /\ status = "reading"
  /\ \E i \in left :
       LET row == export.rows[i]
       IN  /\ NextUp(i)
           /\ left' = left \ {i}
           /\ parsed' = IF Accepted(row)
                        THEN [j \in DOMAIN parsed \union {i} |->
                                IF j = i THEN TransactionOf(row) ELSE parsed[j]]
                        ELSE parsed
  /\ UNCHANGED <<entries, imports, export, rejected, skipped, status, written, repeated>>

\* parse, one row.
ReadRow ==
  /\ status = "reading"
  /\ \E i \in left :
       LET row == export.rows[i]
       IN  /\ NextUp(i)
           /\ left' = left \ {i}
           /\ \/ /\ Crashes(row)
                 /\ status' = "crashed"
                 /\ UNCHANGED <<parsed, rejected, skipped>>
              \/ /\ Unsupported(row)
                 /\ skipped' = skipped \union {i}
                 /\ UNCHANGED <<parsed, rejected, status>>
              \/ /\ ~Crashes(row) /\ ~Unsupported(row) /\ Accepted(row)
                 /\ parsed' = [j \in DOMAIN parsed \union {i} |->
                                 IF j = i THEN TransactionOf(row) ELSE parsed[j]]
                 /\ UNCHANGED <<rejected, skipped, status>>
              \/ /\ ~Crashes(row) /\ ~Unsupported(row) /\ ~Accepted(row)
                 /\ rejected' = rejected \union {i}
                 /\ UNCHANGED <<parsed, skipped, status>>
  /\ UNCHANGED <<entries, imports, export, written, repeated>>

Report ==
  /\ status = "reading" /\ left = {}
  /\ status' = "reported"
  /\ UNCHANGED <<entries, imports, reading, written, repeated>>

RepeatsId == \E i, j \in Proposed : i # j /\ parsed[i].id = parsed[j].id

\* What a report is read back from is JSON as Home Assistant writes it, which
\* has null in the place of NaN, and no transaction is made of that.
Restorable == \A i \in Proposed \union Duplicates :
                NaN \notin {parsed[i].amount, parsed[i].shares, parsed[i].price}

\* apply_import: the proposed rows are appended and the report is cleared.
Apply ==
  /\ status = "reported"
  /\ Restorable
  /\ entries' = entries \union {[key |-> <<imports, i>>, is |-> parsed[i]] : i \in Proposed}
  /\ status' = "idle"
  /\ written' = written \union {export}
  /\ repeated' = (repeated \/ RepeatsId)
  /\ UNCHANGED <<imports, reading>>

BrokerNext == Open \/ ReadRow \/ Report \/ Apply

BrokerSpec == BrokerInit /\ [][BrokerNext]_brokerVars

----------------------------------------------------------------------------
(* Properties *)

ExportRows == IF export.sound THEN DOMAIN export.rows ELSE {}

\* The rows read so far are told apart without a rest, every transaction is
\* valid, and every entry of the log has a key of its own.
BrokerTypeOK ==
  /\ imports \in 0 .. MaxImports
  /\ export \in Exports
  /\ status \in {"idle", "reading", "reported", "crashed"}
  /\ left \subseteq ExportRows
  /\ \A i \in DOMAIN parsed : Valid(parsed[i])
  /\ written \subseteq Exports /\ repeated \in BOOLEAN
  /\ \A d, e \in entries : d.key = e.key => d = e

\* No row is lost without a word: each row that was read is either proposed,
\* a duplicate, refused with a reason or warned about, or else it has the id
\* of a row of the same export that is a duplicate (build_import_report).
EveryRowIsAnswered ==
  status = "reported" =>
    \A i \in ExportRows :
      \/ i \in Proposed \/ i \in Duplicates \/ i \in rejected \/ i \in skipped
      \/ \E d \in Duplicates \ {i} : parsed[i].id = parsed[d].id

\* report.py:128-130 says that the counts always add up: they do if the
\* export repeats no id.
CountsAddUp ==
  status = "reported" /\ (\A i, j \in DOMAIN parsed : parsed[i].id = parsed[j].id => i = j)
    => Cardinality(Proposed) + Cardinality(Duplicates) + Cardinality(rejected)
         = TransactionsRead

\* No trade gets into the log twice from two imports, whether their exports
\* give it the same id or are of two brokers' formats with ids of their own,
\* nor beside what the user has written (docs/adr/0013).
NothingEnteredTwice ==
  \A d, e \in entries :
    d.key[1] < e.key[1] => /\ d.is.id # e.is.id
                           /\ ~SameTrade(e.is, d.is)

\* A row of an export whose report was applied is not proposed again, neither
\* from that export nor from one that repeats the row among others, whatever
\* was imported in between; unless the first gave another row the same id
\* (docs/adr/0013: ids are the same whenever a row is read).
AppliedIsNotProposed ==
  status = "reported" =>
    \A i \in Proposed : \A x \in written : \A j \in DOMAIN x.rows :
      x.sound /\ x.rows[j] = export.rows[i] =>
        \E k \in DOMAIN x.rows \ {j} :
          Accepted(x.rows[k]) /\ TransactionOf(x.rows[k]).id = parsed[i].id

\* Imports leave the log readable unless an export gives two rows the same id:
\* equal rows without an id do, and rows that differ in price or notes only.
ReadableUnlessRepeated == ~repeated => LogReadable
=============================================================================
