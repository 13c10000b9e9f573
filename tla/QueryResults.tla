--------------------------- MODULE QueryResults ---------------------------
(***************************************************************************)
(* What becomes of the rows that a query returned (pipeline/results.py):   *)
(* a short result is shown as it is, of a long one the first rows are      *)
(* shown and all of them are put into a CSV text.  Rows are told apart by  *)
(* their positions, which are the numbers 1 .. n.                          *)
(***************************************************************************)
EXTENDS Integers

CONSTANTS
  MaxRows,     \* settings.max_result_rows
  LongResult,  \* results of so many rows are long
  PreviewRows

ASSUME ResultAssumption ==
  MaxRows \in Nat \ {0} /\ LongResult \in Nat /\ PreviewRows \in Nat

Least(a, b) == IF a <= b THEN a ELSE b

Result == [row_count : Nat, preview_rows : SUBSET Nat,
           truncated : BOOLEAN, csv_data : SUBSET Nat]
NoResult == [row_count |-> 0, preview_rows |-> {},
             truncated |-> FALSE, csv_data |-> {}]

\* The rows a CSV text holds, every one of those it is given.
Csv(rows) == rows

\* A mutant: the text is made of what is shown.
ProcessPreview(n) ==
  LET preview == 1 .. Least(n, PreviewRows) IN
  [row_count |-> n, preview_rows |-> IF n >= LongResult THEN preview ELSE 1 .. n,
   truncated |-> n >= LongResult, csv_data |-> IF n >= LongResult THEN preview ELSE {}]

Process(n) ==
  LET long == n >= LongResult IN
  [row_count |-> n,
   preview_rows |-> IF long THEN 1 .. Least(n, PreviewRows) ELSE 1 .. n,
   truncated |-> long,
   csv_data |-> IF long THEN Csv(1 .. n) ELSE {}]

\* Nothing the database returned is out of the reader's reach: a row that is
\* not shown is in the CSV text, and a result that is not cut is shown whole.
IsWhole(result) ==
  /\ result.preview_rows \cup result.csv_data = 1 .. result.row_count
  /\ ~result.truncated => result.preview_rows = 1 .. result.row_count
=============================================================================
