------------------------------ MODULE RowHash ------------------------------
(***************************************************************************)
(* What add_row_hash (src/security/audit.py) and the row_key of            *)
(* add_bronze_metadata (src/transformations/bronze.py) hash: the values of *)
(* some columns, joined by '|' with concat_ws, which passes over NULLs.    *)
(*                                                                         *)
(* A text is the sequence of the values joined.  No value contains the     *)
(* separator and none is the empty string, so equal texts are equal        *)
(* sequences; but a text does not say which columns its values are from.   *)
(***************************************************************************)
EXTENDS Naturals, FiniteSets

CONSTANTS
    FeatureCount,   \* number of the columns V1, V2, ...: 28
    Null            \* a value that is missing

ASSUME FeatureAssumption == FeatureCount \in Nat

\* The columns by number: Time, the features, Amount, Class.
Time == 1
Amount == FeatureCount + 2
Class == FeatureCount + 3

Columns == 1 .. Class

\* The columns that dropna looks at; a feature may be NULL.
Mandatory == {Time, Amount, Class}

\* Mutant of ContentCols: the label is not covered by the hash.
ContentColsButClass == 1 .. Amount

ContentCols == Columns

\* The columns of cols that concat_ws does not pass over.
NonNull(content, cols) == {i \in cols : content[i] # Null}

\* The j-th of a set of columns.
Nth(cols, j) == CHOOSE i \in cols : Cardinality({h \in cols : h <= i}) = j

ConcatWs(content, cols) ==
    LET present == NonNull(content, cols)
    IN  [j \in 1 .. Cardinality(present) |-> content[Nth(present, j)]]

RowText(content) == ConcatWs(content, ContentCols)
KeyText(content) == ConcatWs(content, {Time, Amount})

HasNull(content) == NonNull(content, ContentCols) # ContentCols
=============================================================================
