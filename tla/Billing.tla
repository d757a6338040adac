------------------------------ MODULE Billing ------------------------------
(***************************************************************************)
(* The platform's own billing of its tenants (billing/): subscriptions,    *)
(* the invoices issued to stores, the cycle that flags and suspends        *)
(* delinquent stores.                                                      *)
(*                                                                         *)
(* None of it runs in a transaction: every query and every save commits by *)
(* itself, so the administrator's requests and the runs of the cycle       *)
(* interleave statement by statement.  A request reads a row and later     *)
(* saves all its columns; the cycle reads lists, walks them in an order of *)
(* names that is arbitrary here, and saves the status column alone.        *)
(*                                                                         *)
(* A date is a day number, and 0 is NULL.  A number is the sequence part   *)
(* of INV-YYYY-NNNNNN within one year, and 0 is the blank of a draft.      *)
(* Left out: amounts, periods, activity logs, payment receipts and the     *)
(* stamp of the last run, which nothing reads back.                        *)
(***************************************************************************)
EXTENDS Integers, FiniteSets

CONSTANTS
  Stores,       \* each has one subscription
  Invoices,     \* rows of BillingInvoice
  StoreOf,      \* the store an invoice is made out for, whose subscription it keeps
  Requests,     \* worker slots
  Runs,         \* processes that may run the cycle
  StartStatus,  \* Subscription.status at the start
  StartTrial,   \* trial_ends_at at the start
  TrialDates,   \* what sudo may set trial_ends_at to
  DueDates,     \* what sudo may set due_at to
  DueDays,      \* BillingSettings.invoice_due_days
  GraceDays,    \* BillingSettings.grace_days
  LastDay,      \* bound: days
  MaxBegun      \* bound: requests and runs begun

SubStatus == {"TRIAL", "ACTIVE", "PAST_DUE", "CANCELLED"}
Date      == Nat

ASSUME BillingConstants ==
  /\ IsFiniteSet(Requests)
  /\ IsFiniteSet(Invoices)
  /\ StoreOf \in [Invoices -> Stores]
  /\ StartStatus \in [Stores -> SubStatus]
  /\ StartTrial \in [Stores -> Date]
  /\ TrialDates \subseteq Date
  /\ DueDates \subseteq Date
  /\ DueDays \in Nat
  /\ GraceDays \in Nat
  /\ LastDay \in Nat \ {0}
  /\ MaxBegun \in Nat

VARIABLES
  today,
  sub,      \* status and trial_ends_at of each store's subscription
  active,   \* Store.is_active
  inv,      \* status, number, due_at and store of each invoice
  notices,  \* BILLING_INVOICE notifications of each invoice in each store's inbox
  req,      \* the request in progress in each slot
  run,      \* where each run of the cycle is
  begun,    \* requests and runs begun so far
  anchors,  \* history: dates a store's delinquency was ever counted from
  patched,  \* history: subscriptions saved by sudo since a run began
  overtaken,\* history: requests that hold what another has changed since they read it
  quiet,    \* history: runs since whose beginning nobody else changed anything
  settled   \* history: a run was quiet to its end and nothing changed since

tables   == <<sub, active, inv, notices>>
history  == <<anchors, patched, overtaken, quiet, settled>>
vars     == <<today, tables, req, run, begun, history>>

InvStatus == {"NONE", "DRAFT", "ISSUED", "PAID", "VOID"}
Sub       == [status : SubStatus, trial : Date]
Inv       == [status : InvStatus, number : Nat, due : Date, store : Stores]

Draft(i, due) == [status |-> "DRAFT", number |-> 0, due |-> due, store |-> StoreOf[i]]
NoInv(i)      == [Draft(i, 0) EXCEPT !.status = "NONE"]

Idle == [at |-> "idle"]
Off  == [at |-> "off", day |-> 0, list |-> {}, doomed |-> {},
         trial |-> [s \in Stores |-> 0]]

Init ==
  /\ today = 1
  /\ sub = [s \in Stores |-> [status |-> StartStatus[s], trial |-> StartTrial[s]]]
  /\ active = [s \in Stores |-> TRUE]
  /\ inv = [i \in Invoices |-> NoInv(i)]
  /\ notices = [i \in Invoices |-> [s \in Stores |-> 0]]
  /\ req = [r \in Requests |-> Idle]
  /\ run = [c \in Runs |-> Off]
  /\ begun = 0
  /\ anchors = [s \in Stores |-> {StartTrial[s]} \ {0}]
  /\ patched = [c \in Runs |-> {}]
  /\ overtaken = {}
  /\ quiet = {}
  /\ settled = FALSE

\* Somebody other than a run has changed what the runs read.
Disturbed == quiet' = {} /\ settled' = FALSE

----------------------------------------------------------------------------
(* Requests: each reads its row, and saves it in a later step *)

Begin(r, job) ==
  /\ req[r] = Idle
  /\ begun < MaxBegun
  /\ begun' = begun + 1
  /\ req' = [req EXCEPT ![r] = job]

Answered(r) == req' = [req EXCEPT ![r] = Idle]

\* Requests that hold a copy of an invoice, and those that found no announcement of it.
Holding(i)  == {r \in Requests : req[r].at \in {"number", "save"} /\ req[r].inv = i}
Asked(i, s) == {r \in Requests : req[r].at = "tell" /\ req[r].inv = i /\ req[r].store = s}

\* Request r writes what the others of S hold, or it reads anew.
Overtakes(r, S) == overtaken' = (overtaken \cup S) \ {r}
ReadsAnew(r) == overtaken' = overtaken \ {r}

\* A worker may die at any point; what it saved stays.
Fail(r) ==
  /\ req[r] # Idle
  /\ Answered(r)
  /\ ReadsAnew(r)
  /\ UNCHANGED <<today, tables, run, begun, anchors, patched, quiet, settled>>

\* sent: a PATCH sends the status, and it is not checked.
ReadInvoice(r, i, copy, at, sent) ==
  /\ Begin(r, [at |-> at, inv |-> i, copy |-> copy, sent |-> sent])
  /\ UNCHANGED <<today, tables, run, history>>

\* Mutant: the column is not unique.
UniqueOrNot(i, number) == TRUE

\* invoice_number is UNIQUE, and the blank of a draft is a value like any other.
Unique(i, number) ==
  \A j \in Invoices \ {i} : inv[j].status # "NONE" => inv[j].number # number

\* The draft is inserted, and the same request may go on to issue it.
Insert(i, draft) ==
  /\ inv[i].status = "NONE"
  /\ Unique(i, 0)
  /\ inv' = [inv EXCEPT ![i] = draft]
  /\ Disturbed
  /\ UNCHANGED <<today, sub, active, notices, run, anchors, patched, overtaken>>

CreateDraft(i, due) == Insert(i, Draft(i, due)) /\ UNCHANGED <<req, begun>>

Create(r, i, due) ==
  /\ Insert(i, Draft(i, due))
  /\ Begin(r, [at |-> "number", inv |-> i, copy |-> Draft(i, due), sent |-> FALSE])

Issue(r, i)    == inv[i].status = "DRAFT" /\ ReadInvoice(r, i, inv[i], "number", FALSE)
MarkPaid(r, i) == inv[i].status = "ISSUED" /\ ReadInvoice(r, i, [inv[i] EXCEPT !.status = "PAID"], "save", FALSE)

\* Mutant: a paid invoice can be voided.
VoidAny(r, i) ==
  /\ inv[i].status # "NONE"
  /\ ReadInvoice(r, i, [inv[i] EXCEPT !.status = "VOID"], "save", FALSE)

Void(r, i) ==
  /\ inv[i].status \in InvStatus \ {"NONE", "PAID"}
  /\ ReadInvoice(r, i, [inv[i] EXCEPT !.status = "VOID"], "save", FALSE)

\* The serializer leaves status, due_at and store writable; the subscription is read-only.
Patch(r, i) ==
  /\ inv[i].status # "NONE"
  /\ \/ \E s \in InvStatus \ {"NONE"} : ReadInvoice(r, i, [inv[i] EXCEPT !.status = s], "save", TRUE)
     \/ \E d \in DueDates : ReadInvoice(r, i, [inv[i] EXCEPT !.due = d], "save", FALSE)
     \/ \E s \in Stores : ReadInvoice(r, i, [inv[i] EXCEPT !.store = s], "save", FALSE)

Largest(S) == CHOOSE n \in S : \A m \in S : m <= n

\* _next_number gives up the lock on the last row before the number is saved.
Number(r) ==
  LET i == req[r].inv
      copy == req[r].copy
  IN
  /\ req[r].at = "number"
  /\ req' = [req EXCEPT ![r] =
       [at |-> "save", inv |-> i, sent |-> FALSE,
        copy |-> [status |-> "ISSUED", number |-> Largest({inv[j].number : j \in Invoices}) + 1,
                  due |-> IF copy.due = 0 THEN today + DueDays ELSE copy.due,
                  store |-> copy.store]]]
  /\ UNCHANGED <<today, tables, run, begun, history>>

\* Model.save writes every column, and post_save then runs.
Save(r) ==
  LET i == req[r].inv
      copy == req[r].copy
  IN
  /\ req[r].at = "save"
  /\ Unique(i, copy.number)
  /\ inv' = [inv EXCEPT ![i] = copy]
  /\ anchors' = [anchors EXCEPT ![StoreOf[i]] =
       IF copy.status = "ISSUED" THEN @ \cup ({copy.due} \ {0}) ELSE @]
  /\ req' = [req EXCEPT ![r] = IF copy.status = "ISSUED"
                                  THEN [at |-> "ask", inv |-> i, store |-> copy.store] ELSE Idle]
  /\ Overtakes(r, Holding(i))
  /\ Disturbed
  /\ UNCHANGED <<today, sub, active, notices, run, begun, patched>>

\* IntegrityError: the number was saved by another request meanwhile.
NumberTaken(r) ==
  /\ req[r].at = "save"
  /\ ~Unique(req[r].inv, req[r].copy.number)
  /\ Answered(r)
  /\ ReadsAnew(r)
  /\ UNCHANGED <<today, tables, run, begun, anchors, patched, quiet, settled>>

\* Mutant: notify_on_issue does not look for an earlier notification.
AskNobody(r) ==
  /\ req[r].at = "ask"
  /\ req' = [req EXCEPT ![r].at = "tell"]
  /\ ReadsAnew(r)
  /\ UNCHANGED <<today, tables, run, begun, anchors, patched, quiet, settled>>

\* notify_on_issue, after any save of an ISSUED invoice: is it in the inbox of its store?
Ask(r) ==
  /\ req[r].at = "ask"
  /\ req' = [req EXCEPT ![r] = IF notices[@.inv][@.store] = 0
                             THEN [at |-> "tell", inv |-> @.inv, store |-> @.store] ELSE Idle]
  /\ ReadsAnew(r)
  /\ UNCHANGED <<today, tables, run, begun, anchors, patched, quiet, settled>>

Tell(r) ==
  /\ req[r].at = "tell"
  /\ notices' = [notices EXCEPT ![req[r].inv][req[r].store] = @ + 1]
  /\ Answered(r)
  /\ Overtakes(r, Asked(req[r].inv, req[r].store))
  /\ UNCHANGED <<today, sub, active, inv, run, begun, anchors, patched, quiet, settled>>

\* Sudo edits the subscription: status or trial_ends_at.
ReadSub(r, s) ==
  /\ \/ \E st \in SubStatus : Begin(r, [at |-> "subscription", store |-> s, copy |-> [sub[s] EXCEPT !.status = st]])
     \/ \E d \in TrialDates : Begin(r, [at |-> "subscription", store |-> s, copy |-> [sub[s] EXCEPT !.trial = d]])
  /\ UNCHANGED <<today, tables, run, history>>

SaveSub(r) ==
  LET s == req[r].store IN
  /\ req[r].at = "subscription"
  /\ sub' = [sub EXCEPT ![s] = req[r].copy]
  /\ anchors' = [anchors EXCEPT ![s] = @ \cup ({req[r].copy.trial} \ {0})]
  /\ patched' = [c \in Runs |-> IF run[c].at = "off" THEN {} ELSE patched[c] \cup {s}]
  /\ Disturbed
  /\ Answered(r)
  /\ UNCHANGED <<today, active, inv, notices, run, begun, overtaken>>

\* Sudo suspends or reactivates the store, or edits something else of it.
ReadStore(r, s) ==
  /\ \E a \in BOOLEAN : Begin(r, [at |-> "store", store |-> s, active |-> a])
  /\ UNCHANGED <<today, tables, run, history>>

SaveStore(r) ==
  /\ req[r].at = "store"
  /\ active' = [active EXCEPT ![req[r].store] = req[r].active]
  /\ Disturbed
  /\ Answered(r)
  /\ UNCHANGED <<today, sub, inv, notices, run, begun, anchors, patched, overtaken>>

----------------------------------------------------------------------------
(* run_billing_cycle *)

Start(c) ==
  /\ run[c].at = "off"
  /\ begun < MaxBegun
  /\ begun' = begun + 1
  /\ run' = [run EXCEPT ![c].at = "trials", ![c].day = today]
  /\ quiet' = quiet \cup {c}
  /\ UNCHANGED <<today, tables, req, anchors, patched, overtaken, settled>>

\* A query of run c: it is at `here`, goes on to `there`, and finds the stores of list.
Query(c, here, there, list) ==
  /\ run[c].at = here
  /\ run' = [run EXCEPT ![c].at = there, ![c].list = list]
  /\ UNCHANGED <<today, tables, req, begun, history>>

\* 1. Expired trials.
Trials(c) ==
  Query(c, "trials", "expire",
        {s \in Stores : sub[s].status = "TRIAL" /\ sub[s].trial # 0 /\ sub[s].trial < run[c].day})

Overdue(i, day) == inv[i].status = "ISSUED" /\ inv[i].due # 0 /\ inv[i].due < day

\* 2. Stores with an overdue invoice, and which of them are not flagged.
Owing(c) ==
  /\ run[c].list = {}
  /\ Query(c, "expire", "owing", {StoreOf[i] : i \in {j \in Invoices : Overdue(j, run[c].day)}})

\* Mutant: cancelled subscriptions are not excluded.
UnflaggedOrCancelled(c) ==
  Query(c, "owing", "flag", {s \in run[c].list : sub[s].status # "PAST_DUE"})

Unflagged(c) ==
  Query(c, "owing", "flag", {s \in run[c].list : sub[s].status \notin {"PAST_DUE", "CANCELLED"}})

\* Mutant: a status that is not one of the choices, which save does not check.
MarkOverdue(c, s) ==
  /\ run[c].at \in {"expire", "flag"}
  /\ s \in run[c].list
  /\ run' = [run EXCEPT ![c].list = @ \ {s}]
  /\ sub' = [sub EXCEPT ![s].status = "OVERDUE"]
  /\ quiet' = quiet \cap {c}
  /\ settled' = FALSE
  /\ UNCHANGED <<today, active, inv, notices, req, begun, anchors, patched, overtaken>>

\* sub.save(update_fields=['status', ...]) for the next of the list.
Mark(c, s) ==
  /\ run[c].at \in {"expire", "flag"}
  /\ s \in run[c].list
  /\ run' = [run EXCEPT ![c].list = @ \ {s}]
  /\ sub' = [sub EXCEPT ![s].status = "PAST_DUE"]
  /\ quiet' = quiet \cap {c}
  /\ settled' = FALSE
  /\ UNCHANGED <<today, active, inv, notices, req, begun, anchors, patched, overtaken>>

\* Mutant: stores that are suspended already are found again.
PastDueEver == {s \in Stores : sub[s].status = "PAST_DUE"}

PastDueStores == {s \in Stores : sub[s].status = "PAST_DUE" /\ active[s]}

\* 3. Past-due stores that are still active; the subscription rows are kept.
PastDue(c) ==
  /\ run[c].at = "flag" /\ run[c].list = {}
  /\ run' = [run EXCEPT ![c].at = "judge",
                        ![c].list = PastDueStores,
                        ![c].trial = [s \in Stores |-> sub[s].trial]]
  /\ UNCHANGED <<today, tables, req, begun, history>>

\* _delinquent_since: the dates it takes the earliest of.
Candidates(c, s) ==
  {inv[i].due : i \in {j \in Invoices : StoreOf[j] = s /\ Overdue(j, run[c].day)}}
    \cup {d \in {run[c].trial[s]} : d # 0 /\ d < run[c].day}

\* Mutant: the last day of grace is not granted.
BeyondGraceEarly(c, s) == \E d \in Candidates(c, s) : run[c].day >= d + GraceDays

\* The earliest candidate is past the grace window just when some candidate is.
BeyondGrace(c, s) == \E d \in Candidates(c, s) : run[c].day > d + GraceDays

Spare(c, s) ==
  /\ run[c].at = "judge" /\ run[c].doomed = {}
  /\ s \in run[c].list
  /\ ~BeyondGrace(c, s)
  /\ run' = [run EXCEPT ![c].list = @ \ {s}]
  /\ UNCHANGED <<today, tables, req, begun, history>>

Condemn(c, s) ==
  /\ run[c].at = "judge" /\ run[c].doomed = {}
  /\ s \in run[c].list
  /\ BeyondGrace(c, s)
  /\ run' = [run EXCEPT ![c].list = @ \ {s}, ![c].doomed = {s}]
  /\ UNCHANGED <<today, tables, req, begun, history>>

Suspend(c, s) ==
  /\ run[c].doomed = {s}
  /\ run' = [run EXCEPT ![c].doomed = {}]
  /\ active' = [active EXCEPT ![s] = FALSE]
  /\ quiet' = quiet \cap {c}
  /\ settled' = FALSE
  /\ UNCHANGED <<today, sub, inv, notices, req, begun, anchors, patched, overtaken>>

Finish(c) ==
  /\ run[c].at = "judge" /\ run[c].list = {} /\ run[c].doomed = {}
  /\ run' = [run EXCEPT ![c] = Off]
  /\ settled' = (settled \/ c \in quiet)
  /\ quiet' = quiet \ {c}
  /\ patched' = [patched EXCEPT ![c] = {}]
  /\ UNCHANGED <<today, tables, req, begun, anchors, overtaken>>

\* The process is killed; what it saved stays.
Kill(c) ==
  /\ run[c].at # "off"
  /\ run' = [run EXCEPT ![c] = Off]
  /\ quiet' = quiet \ {c}
  /\ patched' = [patched EXCEPT ![c] = {}]
  /\ UNCHANGED <<today, tables, req, begun, anchors, overtaken, settled>>

----------------------------------------------------------------------------

Tick ==
  /\ today < LastDay
  /\ today' = today + 1
  /\ Disturbed
  /\ UNCHANGED <<tables, req, run, begun, anchors, patched, overtaken>>

Begins(r) ==
  \/ \E i \in Invoices :
       \/ \E d \in DueDates : Create(r, i, d)
       \/ Issue(r, i) \/ MarkPaid(r, i) \/ Void(r, i) \/ Patch(r, i)
  \/ \E s \in Stores : ReadSub(r, s) \/ ReadStore(r, s)

Step(r) ==
  \/ Number(r) \/ Save(r) \/ NumberTaken(r) \/ Ask(r) \/ Tell(r)
  \/ SaveSub(r) \/ SaveStore(r)

Cycle(c) ==
  \/ Trials(c) \/ Owing(c) \/ Unflagged(c) \/ PastDue(c) \/ Finish(c)
  \/ \E s \in Stores : Mark(c, s) \/ Spare(c, s) \/ Condemn(c, s) \/ Suspend(c, s)

Next ==
  \/ \E r \in Requests : Begins(r) \/ Step(r) \/ Fail(r)
  \/ \E c \in Runs : Start(c) \/ Cycle(c) \/ Kill(c)
  \/ \E i \in Invoices, d \in DueDates : CreateDraft(i, d)
  \/ Tick

Spec == Init /\ [][Next]_vars

----------------------------------------------------------------------------

TypeOK ==
  /\ today \in 1..LastDay
  /\ sub \in [Stores -> Sub]
  /\ active \in [Stores -> BOOLEAN]
  /\ inv \in [Invoices -> Inv]
  /\ notices \in [Invoices -> [Stores -> Nat]]
  /\ \A r \in Requests :
       \/ req[r] = Idle
       \/ req[r] \in [at : {"number", "save"}, inv : Invoices, copy : Inv, sent : BOOLEAN]
       \/ req[r] \in [at : {"ask", "tell"}, inv : Invoices, store : Stores]
       \/ req[r] \in [at : {"subscription"}, store : Stores, copy : Sub]
       \/ req[r] \in [at : {"store"}, store : Stores, active : BOOLEAN]
  /\ run \in [Runs -> [at : {"off", "trials", "expire", "owing", "flag", "judge"}, day : Date,
                       list : SUBSET Stores, doomed : SUBSET Stores, trial : [Stores -> Date]]]
  /\ begun \in 0..MaxBegun
  /\ anchors \in [Stores -> SUBSET Date]
  /\ patched \in [Runs -> SUBSET Stores]
  /\ overtaken \subseteq Requests
  /\ quiet \subseteq Runs
  /\ settled \in BOOLEAN

\* However requests race for the next number, no two invoices carry the same one; and one
\* invoice at most is without, since the blank is a value of the unique column too.
NumbersAreUnique ==
  \A i, j \in Invoices :
    inv[i].status # "NONE" /\ inv[j].status # "NONE" /\ inv[i].number = inv[j].number => i = j

\* An invoice is announced a second time to one store only by a request that looked for an
\* announcement there before another made it: saving an issued invoice again, taking it to
\* another store and back, or voiding and reissuing it does not repeat it.
AnnouncedAgainByRacers ==
  [][\A i \in Invoices, s \in Stores :
       notices[i][s] # 0 /\ notices'[i][s] # notices[i][s] =>
         \E r \in overtaken : req[r].at = "tell" /\ req[r].inv = i /\ req[r].store = s]_vars

\* A paid invoice stays paid until a PATCH sends another status: issuing, paying, voiding and
\* re-dating it undo a payment only with a copy that was read before the payment was saved.
PaidStaysPaid ==
  [][\A i \in Invoices :
       inv[i].status = "PAID" /\ inv'[i].status # "PAID" =>
         \E r \in Requests :
           req[r].at = "save" /\ req[r].inv = i /\ (req[r].sent \/ r \in overtaken)]_vars

\* A run started when an undisturbed one has ended and nothing has changed since finds
\* nothing to write: the order of the three passes leaves nothing for the next run.
RunsAreIdempotent ==
  \A c \in quiet : settled =>
    /\ run[c].at \in {"expire", "flag"} => run[c].list = {}
    /\ run[c].doomed = {}

\* A cancelled subscription is neither flagged nor its store suspended, unless it was
\* edited while the run was on its way.
CancelledLeftAlone ==
  \A c \in Runs, s \in Stores :
    run'[c] # run[c] /\ sub[s].status = "CANCELLED" /\ s \notin patched[c] =>
      sub'[s] = sub[s] /\ active'[s] = active[s]
CancelledStays == [][CancelledLeftAlone]_vars

\* A run suspends a store only when the whole grace period has passed since some date its
\* delinquency was counted from, whatever dates and statuses sudo edits meanwhile.
GraceGranted ==
  \A c \in Runs, s \in Stores :
    run[c].doomed = {s} /\ run'[c].doomed = {} /\ active'[s] # active[s] =>
      \E d \in anchors[s] : today > d + GraceDays
SuspendedAfterGrace == [][GraceGranted]_vars

\* What the docstring of _delinquent_since says: the date of the trial counts only when
\* there is no unpaid invoice.
TrialIsAFallback == [][\A c \in Runs, s \in Stores :
    run[c].doomed = {} /\ run'[c].doomed = {s} =>
      LET dues == {inv[i].due : i \in {j \in Invoices : StoreOf[j] = s /\ Overdue(j, run[c].day)}}
      IN  dues # {} => \E d \in dues : run[c].day > d + GraceDays]_vars

=============================================================================
