------------------------------ MODULE MCSilver ------------------------------
(***************************************************************************)
(* Items for Silver: "a" and "b" share a key, as two transactions with the *)
(* same Time and Amount do; "c" and "d" have keys of their own.            *)
(***************************************************************************)
EXTENDS Silver

MCKey == {"k1", "k2", "k3"}
MCItem == {"a", "b", "c", "d"}
MCKeyOf == [x \in MCItem |-> CASE x = "c" -> "k2" [] x = "d" -> "k3" [] OTHER -> "k1"]
\* Files that overlap; in either order the second brings a key of its own.
TwoBatches == {{"a", "b", "d"}, {"a", "c"}}
=============================================================================
