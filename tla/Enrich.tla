------------------------------- MODULE Enrich -------------------------------
(***************************************************************************)
(* The columns that enrich() of src/transformations/silver.py derives from *)
(* Time and Amount and that the Gold layer groups by.  Time is in whole    *)
(* seconds, as after cast("long"), from the epoch origin, a midnight of    *)
(* the session's time zone, which has no change of clock; Amount is in     *)
(* cents.  A transaction_date is the number of days since the origin.      *)
(***************************************************************************)
EXTENDS Naturals

Day == 24 * 60 * 60

TransactionDate(time) == time \div Day

TransactionHour(time) == (time \div 3600) % 24

\* The first when() that holds.
AmountBucket(cents) ==
    CASE cents < 1000 -> "0-10"
      [] 1000 <= cents /\ cents < 5000 -> "10-50"
      [] 5000 <= cents /\ cents < 20000 -> "50-200"
      [] 20000 <= cents /\ cents < 100000 -> "200-1000"
      [] OTHER -> "1000+"

Buckets == {"0-10", "10-50", "50-200", "200-1000", "1000+"}
=============================================================================
