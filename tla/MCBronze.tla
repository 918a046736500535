------------------------------ MODULE MCBronze ------------------------------
(***************************************************************************)
(* Lines and files for BronzeAudit, with two features instead of 28.       *)
(*                                                                         *)
(*   line  Time V1   V2   Amount Class                                     *)
(*   1     0    1    0    1      1                                         *)
(*   2     0    1    0    1      0      line 1 with another label          *)
(*   3     1    0    NULL 1      0                                         *)
(*   4     1    NULL 0    1      0      line 3 with its NULL moved         *)
(*   5     NULL 0    0    1      0      dropped: Time is NULL              *)
(*   6     2    1    1    0      0                                         *)
(*   7     0    1    0    1      1      line 1 again                       *)
(*                                                                         *)
(* Lines 1, 2 and 7 share a row_key; lines 3 and 4 a row_key and a         *)
(* row_hash.  The hash of lines 1 and 7 is the greatest of all.            *)
(***************************************************************************)
EXTENDS BronzeAudit, TLC

Line == <<<<0, 1, 0, 1, 1>>, <<0, 1, 0, 1, 0>>, <<1, 0, Null, 1, 0>>,
          <<1, Null, 0, 1, 0>>, <<Null, 0, 0, 1, 0>>, <<2, 1, 1, 0, 0>>,
          <<0, 1, 0, 1, 1>>>>

\* The lines of the runs over one file, and of those with deliveries.
AuditRecord == {1, 2, 3, 4, 5, 7}
AuditContentOf == [r \in AuditRecord |-> Line[r]]
AuditContent == {Line[r] : r \in AuditRecord}

MCRecord == 1 .. 6
MCContentOf == [r \in MCRecord |-> Line[r]]
MCContent == {Line[r] : r \in MCRecord}

\* The text as a number, last digit first.
MCDigest(text) ==
    LET value[i \in 0 .. Len(text)] ==
            IF i = 0 THEN 0 ELSE 4 * value[i - 1] + text[Len(text) + 1 - i] + 1
    IN  value[Len(text)]

WholeFile == 1 .. 5
OneFile == {WholeFile}

\* A file in which the line with the greatest hash is there twice.
RepeatedLine == {{1, 2, 3, 7}}
EitherFile == OneFile \cup RepeatedLine

\* Runs are alike but for their name.
RunSymmetry == Permutations(Run)

NoDelivery == {}

\* The file grows: every delivery repeats the old lines and adds new keys.
StartOfFile == {{1, 2}}
GrowingFile == {<<{1, 2}, {1, 2, 5, 6}>>, <<{1, 2, 5, 6}, 1 .. 6>>}

\* A file with the lines of another day, and a corrected file: same Time and
\* Amount, another label.
OtherFile == {<<{1, 3}, {2, 6}>>, <<{2, 6}, {1, 3, 4}>>}
FirstDay == {{1, 3}}
=============================================================================
