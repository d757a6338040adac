------------------------------- MODULE Limits -------------------------------
(***************************************************************************)
(* Limits that are counted and then inserted under: the quotas of a plan   *)
(* (enforce_quota), one open shift per cashier, ten favourites per store,  *)
(* three assistant profiles, and what a customer may owe on posted         *)
(* invoices (enforce_credit_policy).  The count takes no lock, so between  *)
(* it and the insert other requests count too.                             *)
(*                                                                         *)
(* A resource is a kind of row; how many of them are in use is all that    *)
(* matters here, or for credit, how much is owed.  A change of a plan or   *)
(* of a customer moves a limit and is left out.                            *)
(***************************************************************************)
EXTENDS Workers, Functions

CONSTANTS
  Resources,    \* kinds of rows that are limited
  Quotas,       \* those limited by the plan, as far as quota_mode says
  Monthly,      \* those counted anew each month
  Returning,    \* those brought back (restored, reactivated) without a count
  Uncounted,    \* those that sudo or the assistant's tools also make, without a count
  Limit,        \* how many of each there may be
  Sizes,        \* how much of it one request may take
  Unlimited     \* a NULL limit

ASSUME LimitsAssumption ==
  /\ Quotas \subseteq Resources /\ Monthly \subseteq Resources
  /\ Returning \subseteq Resources /\ Uncounted \subseteq Resources
  /\ Unlimited \notin Nat
  /\ Limit \in [Resources -> Nat \cup {Unlimited}]
  /\ Sizes \in [Resources -> SUBSET Nat]

VARIABLES
  used,    \* rows in use, as _usage_for counts them
  out,     \* rows deleted, deactivated or closed
  mode,    \* BillingSettings.quota_mode
  crowd,   \* history: most requests ever between count and insert when another one counted
  extra    \* history: rows made or brought back without a count

limitVars == <<used, out, mode, crowd, extra>>

Modes == {"BLOCK", "WARN", "OFF"}

LimitsInit ==
  /\ used = [r \in Resources |-> 0]
  /\ out = [r \in Resources |-> 0]
  /\ mode = "BLOCK"
  /\ crowd = [r \in Resources |-> 0]
  /\ extra = [r \in Resources |-> 0]

\* What requests that have counted and not yet inserted are going to insert.
Pending(r) ==
  SumFunction([w \in Workers |-> IF req[w].at = "insert" /\ req[w].res = r THEN req[w].size ELSE 0])

\* Mutant: a store at its limit may add one more.
RoomForOneMore(r, n) == used[r] + n <= Limit[r] + 1

HasRoom(r, n) == used[r] + n <= Limit[r]

\* A NULL limit, and any mode but BLOCK, let every request pass.
Counts(r) == Limit[r] # Unlimited /\ (r \in Quotas => mode = "BLOCK")

Larger(a, b) == IF a < b THEN b ELSE a

CountUsage(w, r, n) ==
  /\ Counts(r) /\ HasRoom(r, n)
  /\ Begin(w, [at |-> "insert", res |-> r, size |-> n])
  /\ crowd' = [crowd EXCEPT ![r] = Larger(@, Pending(r))]
  /\ UNCHANGED <<used, out, mode, extra>>

SkipCount(w, r, n) ==
  /\ ~Counts(r)
  /\ Begin(w, [at |-> "insert", res |-> r, size |-> n])
  /\ extra' = [extra EXCEPT ![r] = @ + n]
  /\ UNCHANGED <<used, out, mode, crowd>>

Insert(w) ==
  /\ At(w, "insert")
  /\ used' = [used EXCEPT ![req[w].res] = @ + req[w].size]
  /\ Answer(w)
  /\ UNCHANGED <<out, mode, crowd, extra>>

\* A row is deleted, a user deactivated, a shift closed, a debt paid.
Leave(w, r) ==
  /\ AtOnce(w)
  /\ used[r] > 0
  /\ used' = [used EXCEPT ![r] = @ - 1]
  /\ out' = [out EXCEPT ![r] = @ + 1]
  /\ UNCHANGED <<mode, crowd, extra>>

Return(w, r) ==
  /\ AtOnce(w)
  /\ r \in Returning /\ out[r] > 0
  /\ used' = [used EXCEPT ![r] = @ + 1]
  /\ out' = [out EXCEPT ![r] = @ - 1]
  /\ extra' = [extra EXCEPT ![r] = @ + 1]
  /\ UNCHANGED <<mode, crowd>>

\* Sudo and the assistant make rows without a count; a store may let customers exceed their limit,
\* and an invoice that is created as posted is committed before its customer's limit is looked at.
InsertUncounted(w, r) ==
  /\ AtOnce(w)
  /\ r \in Uncounted
  /\ used' = [used EXCEPT ![r] = @ + 1]
  /\ extra' = [extra EXCEPT ![r] = @ + 1]
  /\ UNCHANGED <<out, mode, crowd>>

SetMode(w, m) ==
  /\ AtOnce(w)
  /\ mode' = m
  /\ UNCHANGED <<used, out, crowd, extra>>

\* Rows of the month before are not counted, nor those brought back from it.
NewMonth ==
  /\ used' = [r \in Resources |-> IF r \in Monthly THEN 0 ELSE used[r]]
  /\ out' = [r \in Resources |-> IF r \in Monthly THEN 0 ELSE out[r]]
  /\ UNCHANGED <<slots, mode, crowd, extra>>

DieCounting(w) == Crash(w) /\ UNCHANGED limitVars

LimitsNext ==
  \/ \E w \in Workers, r \in Resources :
       \/ \E n \in Sizes[r] : CountUsage(w, r, n) \/ SkipCount(w, r, n)
       \/ Leave(w, r) \/ Return(w, r) \/ InsertUncounted(w, r)
  \/ \E w \in Workers : Insert(w) \/ DieCounting(w) \/ \E m \in Modes : SetMode(w, m)
  \/ NewMonth

LimitsSpec == SlotsInit /\ LimitsInit /\ [][LimitsNext]_<<slots, limitVars>>

LimitsTypeOK ==
  /\ used \in [Resources -> Nat] /\ out \in [Resources -> Nat]
  /\ mode \in Modes
  /\ crowd \in [Resources -> Nat] /\ extra \in [Resources -> Nat]

\* A store, or a customer, is over a limit by no more than the requests that counted at the same time, and the
\* rows that came in without a count: enforce_quota, enforce_credit_policy, the opening of a shift
\* and the two serializers that count never let one more through.
OvershootIsRaced ==
  \A r \in Resources : Limit[r] # Unlimited =>
    used[r] + Pending(r) <= Limit[r] + crowd[r] + extra[r]
=============================================================================
