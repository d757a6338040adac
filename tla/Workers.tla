------------------------------ MODULE Workers ------------------------------
(***************************************************************************)
(* The worker slots that serve requests, shared by the modules of the      *)
(* back office and of the platform.  A request is a record whose field     *)
(* `at` names the statement it is about to run; everything else in it is   *)
(* local to the request: copies of rows it read and choices it was sent.   *)
(***************************************************************************)
EXTENDS Integers, FiniteSets

CONSTANTS
  Workers,   \* slots
  MaxBegun   \* bound: requests begun

ASSUME WorkersAssumption == IsFiniteSet(Workers) /\ MaxBegun \in Nat

VARIABLES
  req,     \* the request in progress in each slot
  begun    \* requests begun so far

slots == <<req, begun>>

Idle == [at |-> "idle"]

SlotsInit == req = [w \in Workers |-> Idle] /\ begun = 0

At(w, here) == req[w].at = here

Begin(w, job) ==
  /\ req[w] = Idle
  /\ begun < MaxBegun
  /\ begun' = begun + 1
  /\ req' = [req EXCEPT ![w] = job]

Proceed(w, job) == req' = [req EXCEPT ![w] = job] /\ UNCHANGED begun

Answer(w) == Proceed(w, Idle)

\* A worker may die, and an exception may end a request, at any statement.
Crash(w) == req[w] # Idle /\ Answer(w)

\* A request served at once, with nothing of others between its statements that matters.
AtOnce(w) ==
  /\ req[w] = Idle
  /\ begun < MaxBegun
  /\ begun' = begun + 1
  /\ UNCHANGED req

Others(w) == Workers \ {w}
=============================================================================
