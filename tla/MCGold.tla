------------------------------- MODULE MCGold -------------------------------
(***************************************************************************)
(* Keys for Gold.  The first hour has two buckets of one row each; the     *)
(* third key is in another hour of the same day.  The first key stands for *)
(* two transactions with different labels.                                 *)
(***************************************************************************)
EXTENDS Gold

MCKey == {"k1", "k2", "k3"}
MCTimeOf == [k \in MCKey |-> CASE k = "k1" -> 0 [] k = "k2" -> 3599 [] OTHER -> 3600]
MCAmountOf == [k \in MCKey |-> CASE k = "k1" -> 999 [] k = "k2" -> 1000 [] OTHER -> 100000]
MCLabelsOf == [k \in MCKey |-> IF k = "k1" THEN BOOLEAN ELSE {FALSE}]

\* Two keys on both sides of the end of an hour.
TwoHours == {"k1", "k3"}
TwoHoursTimeOf == [k \in TwoHours |-> IF k = "k1" THEN 3599 ELSE 3600]
TwoHoursAmountOf == [k \in TwoHours |-> 999]
TwoHoursLabelsOf == [k \in TwoHours |-> IF k = "k1" THEN BOOLEAN ELSE {TRUE}]
=============================================================================
