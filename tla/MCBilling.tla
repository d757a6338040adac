----------------------------- MODULE MCBilling -----------------------------
(* Small instances of Billing. *)
EXTENDS Billing, TLC

CONSTANTS s1, s2, i1, i2, r1, r2, c1, c2

ForTheFirst == [i \in Invoices |-> s1]

\* The first store is on trial; others pay, and their trials are past.
OnTrialAndPaying == [s \in Stores |-> IF s = s1 THEN "TRIAL" ELSE "ACTIVE"]
AllPaying == [s \in Stores |-> "ACTIVE"]
FirstDay == [s \in Stores |-> 1]

Interchangeable == Permutations(Requests) \cup Permutations(Invoices) \cup Permutations(Runs)
=============================================================================
