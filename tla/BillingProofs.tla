---------------------------- MODULE BillingProofs ----------------------------
(***************************************************************************)
(* Proofs about the billing of the tenants: what requests that race for an *)
(* invoice, and runs of the cycle that overlap with them, cannot do.       *)
(*                                                                         *)
(* The invariant has one part per property: what a request still knows of  *)
(* its invoice while nobody overtook it; whom a run may still touch; where *)
(* the dates that a run counts from came from; and how far an undisturbed  *)
(* run has cleaned up behind itself.  The last section proves that every   *)
(* variable keeps its type.                                                *)
(***************************************************************************)
EXTENDS Billing, Sums

IsInv(x) ==
  /\ x = [status |-> x.status, number |-> x.number, due |-> x.due, store |-> x.store]
  /\ x.status \in InvStatus /\ x.due \in Date /\ x.store \in Stores

JobOK(j) ==
  /\ j.at \in {"number", "save"} => j.inv \in Invoices /\ IsInv(j.copy)
  /\ j.at \in {"ask", "tell"} => j.inv \in Invoices /\ j.store \in Stores
  /\ j.at = "subscription" => j.store \in Stores /\ j.copy \in Sub
  /\ j.at = "store" => j.store \in Stores /\ j.active \in BOOLEAN

Run == [at : {"off", "trials", "expire", "owing", "flag", "judge"}, day : Date,
        list : SUBSET Stores, doomed : SUBSET Stores, trial : [Stores -> Date]]

Typed ==
  /\ today \in Nat
  /\ sub \in [Stores -> Sub] /\ active \in [Stores -> BOOLEAN]
  /\ inv = [i \in Invoices |-> inv[i]] /\ \A i \in Invoices : IsInv(inv[i])
  /\ notices \in [Invoices -> [Stores -> Nat]]
  /\ req = [r \in Requests |-> req[r]] /\ \A r \in Requests : JobOK(req[r])
  /\ run \in [Runs -> Run]
  /\ anchors \in [Stores -> SUBSET Date] /\ patched \in [Runs -> SUBSET Stores]

\* A request that nobody overtook announces what was not announced, and does not take PAID back,
\* unless it sends a status.
Fresh(j) ==
  /\ j.at = "tell" => notices[j.inv][j.store] = 0
  /\ j.at = "number" => inv[j.inv].status # "PAID"
  /\ j.at = "save" /\ ~j.sent /\ inv[j.inv].status = "PAID" => j.copy.status = "PAID"

FreshUnlessOvertaken == \A r \in Requests \ overtaken : Fresh(req[r])

\* Whom a run is about to mark or suspend is not cancelled, unless sudo edited it since.
RunUncancelled(c, j) ==
  /\ j.doomed # {} => j.at = "judge"
  /\ \A s \in Stores \ patched[c] :
       s \in j.doomed \/ (j.at \in {"expire", "flag", "judge"} /\ s \in j.list) => sub[s].status # "CANCELLED"

ListsUncancelled == \A c \in Runs : RunUncancelled(c, run[c])

\* The dates in use are dates that were counted from.
RunDated(j) ==
  /\ j.at = "judge" => \A s \in Stores : j.trial[s] # 0 => j.trial[s] \in anchors[s]
  /\ j.at # "off" => j.day <= today
  /\ \A s \in j.doomed : \E d \in anchors[s] : j.day > d + GraceDays

DatesAnchored ==
  /\ \A s \in Stores : sub[s].trial # 0 => sub[s].trial \in anchors[s]
  /\ \A i \in Invoices : inv[i].status = "ISSUED" /\ inv[i].due # 0 => inv[i].due \in anchors[StoreOf[i]]
  /\ \A c \in Runs : RunDated(run[c])

Expired == {s \in Stores : sub[s].status = "TRIAL" /\ sub[s].trial # 0 /\ sub[s].trial < today}
Owed == {StoreOf[i] : i \in {j \in Invoices : Overdue(j, today)}}
Unmarked == {s \in Owed : sub[s].status \notin {"PAST_DUE", "CANCELLED"}}
Overripe(s) ==
  \E d \in {inv[i].due : i \in {j \in Invoices : StoreOf[j] = s /\ Overdue(j, today)}}
             \cup {d \in {sub[s].trial} : d # 0 /\ d < today} : today > d + GraceDays

\* What an undisturbed run has done so far.
RunClean(j) ==
  /\ j.at # "off" /\ j.day = today
  /\ j.at = "expire" => j.list = Expired
  /\ j.at \in {"owing", "flag", "judge"} => Expired = {}
  /\ j.at = "owing" => j.list = Owed
  /\ j.at = "flag" => j.list = Unmarked
  /\ j.at = "judge" =>
       /\ Unmarked = {}
       /\ \A s \in Stores : j.trial[s] = sub[s].trial
       /\ \A s \in PastDueStores : Overripe(s) => s \in j.list \cup j.doomed
       /\ \A s \in j.doomed : s \in PastDueStores /\ Overripe(s)
       /\ j.list \subseteq PastDueStores /\ j.list \cap j.doomed = {}

RunsCleanUp == \A c \in quiet : c \in Runs /\ RunClean(run[c])

\* And when it has ended, until something changes.
StaysClean == settled => Expired = {} /\ Unmarked = {} /\ \A s \in PastDueStores : ~Overripe(s)

IInv == /\ Typed /\ NumbersAreUnique /\ FreshUnlessOvertaken /\ ListsUncancelled /\ DatesAnchored
        /\ RunsCleanUp /\ StaysClean
----------------------------------------------------------------------------

LEMMA InitOK == Init => IInv
<1> SUFFICES ASSUME Init PROVE IInv
  OBVIOUS
<1>1. Typed
  BY BillingConstants DEF Init, Typed, Sub, SubStatus, Date, NoInv, Draft, IsInv, InvStatus, JobOK, Idle, Run, Off
<1>2. FreshUnlessOvertaken
  BY DEF Init, FreshUnlessOvertaken, Fresh, Idle
<1>3. NumbersAreUnique
  BY DEF Init, NumbersAreUnique, NoInv, Draft
<1>4. ListsUncancelled /\ DatesAnchored
  BY DEF Init, ListsUncancelled, RunUncancelled, DatesAnchored, RunDated, Off, NoInv, Draft
<1> QED BY <1>1, <1>2, <1>3, <1>4 DEF Init, IInv, RunsCleanUp, RunClean, StaysClean

----------------------------------------------------------------------------
(* Requests. *)

\* What a request changes in its copy.
LEMMA Copies ==
  ASSUME NEW x, IsInv(x)
  PROVE  /\ \A status \in InvStatus :
              IsInv([x EXCEPT !.status = status]) /\ [x EXCEPT !.status = status].status = status
         /\ \A due \in Date :
              IsInv([x EXCEPT !.due = due]) /\ [x EXCEPT !.due = due].status = x.status
         /\ \A store \in Stores :
              IsInv([x EXCEPT !.store = store]) /\ [x EXCEPT !.store = store].status = x.status
  BY DEF IsInv

\* A step that changes one request and what it was overtaken by, and nothing it works on.
LEMMA RequestStep ==
  ASSUME IInv, NEW r \in Requests, NEW job, req' = [req EXCEPT ![r] = job], JobOK(job),
         UNCHANGED <<today, tables, run, anchors, patched, quiet, settled>>,
         \A x \in Requests \ {r} : x \in overtaken => x \in overtaken',
         r \notin overtaken' => Fresh(job)
  PROVE  IInv'
<1>1. /\ req' = [x \in Requests |-> req'[x]] /\ req'[r] = job
      /\ \A x \in Requests \ {r} : req'[x] = req[x]
  BY DEF IInv, Typed
<1>2. Typed'
  BY <1>1 DEF IInv, Typed, tables, JobOK
<1>3. FreshUnlessOvertaken'
  BY <1>1 DEF IInv, FreshUnlessOvertaken, Fresh, tables
<1>4. (NumbersAreUnique /\ ListsUncancelled /\ DatesAnchored)'
  BY DEF IInv, NumbersAreUnique, ListsUncancelled, RunUncancelled, DatesAnchored, RunDated, tables
<1>5. Expired' = Expired /\ Unmarked' = Unmarked /\ PastDueStores' = PastDueStores /\ Owed' = Owed
  BY DEF tables, Expired, Unmarked, Owed, Overdue, PastDueStores
<1>6. \A s : Overripe(s)' = Overripe(s)
  BY DEF tables, Overripe, Overdue
<1>7. (RunsCleanUp /\ StaysClean)'
  BY <1>5, <1>6 DEF IInv, RunsCleanUp, RunClean, StaysClean, tables
<1> QED BY <1>2, <1>3, <1>4, <1>7 DEF IInv

LEMMA NothingBegun ==
  ASSUME NEW r \in Requests, IInv, req' = [req EXCEPT ![r] = Idle],
         UNCHANGED <<today, tables, run, anchors, patched, quiet, settled>>, ReadsAnew(r)
  PROVE  IInv'
<1>1. JobOK(Idle) /\ Fresh(Idle)
  BY DEF JobOK, Fresh, Idle
<1> QED BY <1>1, RequestStep DEF ReadsAnew

LEMMA ReadsOK ==
  ASSUME IInv, NEW r \in Requests,
         \/ \E i \in Invoices : Issue(r, i) \/ MarkPaid(r, i) \/ Void(r, i) \/ Patch(r, i)
         \/ \E s \in Stores : ReadSub(r, s) \/ ReadStore(r, s)
  PROVE  IInv'
<1>1. ASSUME NEW i \in Invoices, NEW copy, NEW at \in {"number", "save"}, NEW sent,
             ReadInvoice(r, i, copy, at, sent), IsInv(copy),
             Fresh([at |-> at, inv |-> i, copy |-> copy, sent |-> sent])
      PROVE IInv'
  <2> DEFINE job == [at |-> at, inv |-> i, copy |-> copy, sent |-> sent]
  <2>1. JobOK(job) /\ req' = [req EXCEPT ![r] = job]
    BY <1>1 DEF JobOK, ReadInvoice, Begin
  <2> HIDE DEF job
  <2>2. Fresh(job)
    BY <1>1 DEF job
  <2>3. UNCHANGED <<today, tables, run, anchors, patched, quiet, settled, overtaken>>
    BY <1>1 DEF ReadInvoice, history
  <2> QED BY <2>1, <2>2, <2>3, RequestStep
<1>2. \A i \in Invoices : IsInv(inv[i])
  BY DEF IInv, Typed
<1>3. ASSUME NEW i \in Invoices, Issue(r, i) PROVE IInv'
  BY <1>1, <1>2, <1>3 DEF Issue, Fresh
<1>4. ASSUME NEW i \in Invoices, MarkPaid(r, i) PROVE IInv'
  <2>1. IsInv([inv[i] EXCEPT !.status = "PAID"]) /\ [inv[i] EXCEPT !.status = "PAID"].status = "PAID"
    BY <1>2, Copies DEF InvStatus, Date
  <2> QED BY <1>1, <1>4, <2>1 DEF MarkPaid, Fresh
<1>5. ASSUME NEW i \in Invoices, Void(r, i) PROVE IInv'
  <2>1. IsInv([inv[i] EXCEPT !.status = "VOID"])
    BY <1>2, Copies DEF InvStatus, Date
  <2> QED BY <1>1, <1>5, <2>1 DEF Void, Fresh
<1>6. ASSUME NEW i \in Invoices, Patch(r, i) PROVE IInv'
  <2>1. ASSUME NEW s \in InvStatus, ReadInvoice(r, i, [inv[i] EXCEPT !.status = s], "save", TRUE) PROVE IInv'
    <3>1. IsInv([inv[i] EXCEPT !.status = s])
      BY <1>2, Copies DEF Date
    <3> QED BY <1>1, <2>1, <3>1 DEF Fresh
  <2>2. ASSUME NEW d \in DueDates, ReadInvoice(r, i, [inv[i] EXCEPT !.due = d], "save", FALSE) PROVE IInv'
    <3>1. d \in Date
      BY BillingConstants
    <3>2. IsInv([inv[i] EXCEPT !.due = d]) /\ [inv[i] EXCEPT !.due = d].status = inv[i].status
      BY <1>2, <3>1, Copies DEF InvStatus
    <3> QED BY <1>1, <2>2, <3>2 DEF Fresh
  <2>3. ASSUME NEW s \in Stores, ReadInvoice(r, i, [inv[i] EXCEPT !.store = s], "save", FALSE) PROVE IInv'
    <3>1. IsInv([inv[i] EXCEPT !.store = s]) /\ [inv[i] EXCEPT !.store = s].status = inv[i].status
      BY <1>2, Copies DEF InvStatus, Date
    <3> QED BY <1>1, <2>3, <3>1 DEF Fresh
  <2> QED BY <1>6, <2>1, <2>2, <2>3 DEF Patch
<1>7. ASSUME NEW s \in Stores, NEW copy \in Sub, ReadSub(r, s),
             req' = [req EXCEPT ![r] = [at |-> "subscription", store |-> s, copy |-> copy]] PROVE IInv'
  <2>1. /\ JobOK([at |-> "subscription", store |-> s, copy |-> copy])
        /\ Fresh([at |-> "subscription", store |-> s, copy |-> copy])
    BY DEF JobOK, Fresh
  <2>2. UNCHANGED <<today, tables, run, anchors, patched, quiet, settled, overtaken>>
    BY <1>7 DEF ReadSub, history
  <2> QED BY <1>7, <2>1, <2>2, RequestStep
<1>8. ASSUME NEW s \in Stores, ReadSub(r, s) PROVE IInv'
  <2>1. \A st \in SubStatus : [sub[s] EXCEPT !.status = st] \in Sub
    BY DEF IInv, Typed, Sub
  <2>2. \A d \in TrialDates : [sub[s] EXCEPT !.trial = d] \in Sub
    BY BillingConstants DEF IInv, Typed, Sub
  <2> QED BY <1>7, <1>8, <2>1, <2>2 DEF ReadSub, Begin
<1>9. ASSUME NEW s \in Stores, ReadStore(r, s) PROVE IInv'
  <2>1. PICK a \in BOOLEAN : req' = [req EXCEPT ![r] = [at |-> "store", store |-> s, active |-> a]]
    BY <1>9 DEF ReadStore, Begin
  <2>2. JobOK([at |-> "store", store |-> s, active |-> a]) /\ Fresh([at |-> "store", store |-> s, active |-> a])
    BY DEF JobOK, Fresh
  <2>3. UNCHANGED <<today, tables, run, anchors, patched, quiet, settled, overtaken>>
    BY <1>9 DEF ReadStore, history
  <2> QED BY <2>1, <2>2, <2>3, RequestStep
<1> QED BY <1>3, <1>4, <1>5, <1>6, <1>8, <1>9

LEMMA AnswersOK ==
  ASSUME IInv, NEW r \in Requests, Number(r) \/ NumberTaken(r) \/ Ask(r) \/ Fail(r)
  PROVE  IInv'
<1>1. CASE Number(r)
  <2> DEFINE due == IF req[r].copy.due = 0 THEN today + DueDays ELSE req[r].copy.due
             copy == [status |-> "ISSUED", number |-> Largest({inv[j].number : j \in Invoices}) + 1,
                      due |-> due, store |-> req[r].copy.store]
             job == [at |-> "save", inv |-> req[r].inv, sent |-> FALSE, copy |-> copy]
  <2>1. req[r].inv \in Invoices /\ IsInv(req[r].copy) /\ today \in Nat /\ req[r].at = "number"
    BY <1>1 DEF Number, IInv, Typed, JobOK
  <2>2. due \in Date
    BY <2>1, BillingConstants DEF IsInv, Date
  <2>3. req' = [req EXCEPT ![r] = job]
    BY <1>1 DEF Number
  <2>4. IsInv(copy)
    BY <2>1, <2>2 DEF IsInv, InvStatus
  <2>5. r \notin overtaken => inv[req[r].inv].status # "PAID"
    BY <2>1 DEF IInv, FreshUnlessOvertaken, Fresh
  <2> HIDE DEF copy
  <2>6. JobOK(job) /\ (r \notin overtaken => Fresh(job))
    BY <2>1, <2>4, <2>5 DEF JobOK, Fresh
  <2>7. UNCHANGED <<today, tables, run, anchors, patched, quiet, settled, overtaken>>
    BY <1>1 DEF Number, history
  <2> HIDE DEF job
  <2> QED BY <2>3, <2>6, <2>7, RequestStep
<1>2. CASE NumberTaken(r)
  BY <1>2, NothingBegun DEF NumberTaken, Answered
<1>3. CASE Fail(r)
  BY <1>3, NothingBegun DEF Fail, Answered
<1>4. CASE Ask(r)
  <2>1. CASE notices[req[r].inv][req[r].store] # 0
    BY <1>4, <2>1, NothingBegun DEF Ask, IInv, Typed
  <2>2. CASE notices[req[r].inv][req[r].store] = 0
    <3> DEFINE job == [at |-> "tell", inv |-> req[r].inv, store |-> req[r].store]
    <3>1. req[r].inv \in Invoices /\ req[r].store \in Stores /\ req' = [req EXCEPT ![r] = job]
      BY <1>4, <2>2 DEF Ask, IInv, Typed, JobOK
    <3>2. JobOK(job) /\ Fresh(job)
      BY <3>1, <2>2 DEF JobOK, Fresh
    <3>3. UNCHANGED <<today, tables, run, anchors, patched, quiet, settled>> /\ ReadsAnew(r)
      BY <1>4 DEF Ask
    <3> HIDE DEF job
    <3> QED BY <3>1, <3>2, <3>3, RequestStep DEF ReadsAnew
  <2> QED BY <2>1, <2>2
<1> QED BY <1>1, <1>2, <1>3, <1>4

\* What disturbs the runs leaves nothing to keep of what they cleaned up.
LEMMA AfterDisturbance == Disturbed => (RunsCleanUp /\ StaysClean)'
  BY DEF Disturbed, RunsCleanUp, RunClean, StaysClean

LEMMA InsertStep ==
  ASSUME IInv, NEW i \in Invoices, NEW due \in DueDates, CreateDraft(i, due) \/ \E r \in Requests : Create(r, i, due)
  PROVE  IInv'
<1>1. /\ inv[i].status = "NONE" /\ Unique(i, 0)
      /\ inv' = [inv EXCEPT ![i] = Draft(i, due)]
      /\ Disturbed
      /\ UNCHANGED <<today, sub, active, notices, run, anchors, patched, overtaken>>
  BY DEF CreateDraft, Create, Insert
<1>2. due \in Date /\ IsInv(Draft(i, due)) /\ Draft(i, due).status = "DRAFT" /\ Draft(i, due).number = 0
  BY BillingConstants DEF Draft, IsInv, InvStatus
<1>3. /\ inv' = [j \in Invoices |-> inv'[j]]
      /\ \A j \in Invoices : inv'[j] = inv[j] \/ (j = i /\ inv'[j] = Draft(i, due))
  BY <1>1 DEF IInv, Typed
<1> DEFINE job == [at |-> "number", inv |-> i, copy |-> Draft(i, due), sent |-> FALSE]
<1> HIDE DEF job
<1>4. /\ req' = [r \in Requests |-> req'[r]]
      /\ \A r \in Requests : req'[r] = req[r] \/ req'[r] = job
  <2>1. req' = req \/ \E r \in Requests : req' = [req EXCEPT ![r] = job]
    BY DEF CreateDraft, Create, Begin, job
  <2> QED BY <2>1 DEF IInv, Typed
<1>5. job.at = "number" /\ job.inv = i /\ JobOK(job)
  BY <1>2 DEF job, JobOK
<1>6. Typed'
  <2>1. \A r \in Requests : JobOK(req'[r])
    BY <1>4, <1>5 DEF IInv, Typed
  <2>2. \A j \in Invoices : IsInv(inv'[j])
    BY <1>2, <1>3 DEF IInv, Typed
  <2> QED BY <1>1, <1>3, <1>4, <2>1, <2>2 DEF IInv, Typed
<1>7. NumbersAreUnique'
  BY <1>1, <1>2, <1>3 DEF IInv, NumbersAreUnique, Unique, Typed
<1>8. FreshUnlessOvertaken'
  <2>1. \A j \in Invoices : inv'[j].status = "PAID" => inv[j].status = "PAID" /\ j # i
    BY <1>1, <1>2, <1>3 DEF IInv, Typed
  <2>2. inv'[i].status # "PAID"
    BY <2>1
  <2> QED BY <1>1, <1>4, <1>5, <2>1, <2>2 DEF IInv, FreshUnlessOvertaken, Fresh, Typed, JobOK
<1>9. (ListsUncancelled /\ DatesAnchored)'
  BY <1>1, <1>2, <1>3 DEF IInv, ListsUncancelled, RunUncancelled, DatesAnchored, RunDated
<1> QED BY <1>1, <1>6, <1>7, <1>8, <1>9, AfterDisturbance DEF IInv

LEMMA SaveStep ==
  ASSUME IInv, NEW r \in Requests, Save(r)
  PROVE  IInv'
<1> DEFINE i == req[r].inv
           copy == req[r].copy
<1>1. /\ req[r].at = "save" /\ i \in Invoices /\ IsInv(copy) /\ Unique(i, copy.number)
      /\ inv' = [inv EXCEPT ![i] = copy]
      /\ anchors' = [anchors EXCEPT ![StoreOf[i]] = IF copy.status = "ISSUED" THEN @ \cup ({copy.due} \ {0}) ELSE @]
      /\ req' = [req EXCEPT ![r] = IF copy.status = "ISSUED"
                                    THEN [at |-> "ask", inv |-> i, store |-> copy.store] ELSE Idle]
      /\ overtaken' = (overtaken \cup Holding(i)) \ {r}
      /\ Disturbed
      /\ UNCHANGED <<today, sub, active, notices, run, patched>>
  BY DEF Save, Overtakes, IInv, Typed, JobOK
<1> HIDE DEF i, copy
<1>2. /\ inv' = [j \in Invoices |-> inv'[j]] /\ inv'[i] = copy
      /\ \A j \in Invoices \ {i} : inv'[j] = inv[j]
  BY <1>1 DEF IInv, Typed
<1>3. /\ req' = [x \in Requests |-> req'[x]] /\ (req'[r] = [at |-> "ask", inv |-> i, store |-> copy.store] \/ req'[r] = Idle)
      /\ \A x \in Requests \ {r} : req'[x] = req[x]
  BY <1>1 DEF IInv, Typed
<1>4. /\ anchors' \in [Stores -> SUBSET Date]
      /\ \A s \in Stores : anchors[s] \subseteq anchors'[s]
      /\ copy.status = "ISSUED" /\ copy.due # 0 => copy.due \in anchors'[StoreOf[i]]
  <2>1. StoreOf[i] \in Stores /\ copy.due \in Date
    BY <1>1, BillingConstants DEF IsInv
  <2> DEFINE more == IF copy.status = "ISSUED" THEN anchors[StoreOf[i]] \cup ({copy.due} \ {0})
                     ELSE anchors[StoreOf[i]]
  <2>2. anchors' = [anchors EXCEPT ![StoreOf[i]] = more]
    BY <1>1
  <2>3. more \in SUBSET Date /\ anchors[StoreOf[i]] \subseteq more
    BY <2>1 DEF IInv, Typed
  <2>4. copy.status = "ISSUED" /\ copy.due # 0 => copy.due \in more
    OBVIOUS
  <2> HIDE DEF more
  <2> QED BY <2>1, <2>2, <2>3, <2>4 DEF IInv, Typed
<1>5. Typed'
  <2>1. JobOK([at |-> "ask", inv |-> i, store |-> copy.store]) /\ JobOK(Idle)
    BY <1>1 DEF JobOK, Idle, IsInv
  <2> QED BY <1>1, <1>2, <1>3, <1>4, <2>1 DEF IInv, Typed
<1>6. NumbersAreUnique'
  BY <1>1, <1>2 DEF IInv, NumbersAreUnique, Unique
<1>7. FreshUnlessOvertaken'
  <2>1. Fresh(req[r])'
    BY <1>3 DEF Fresh, Idle
  <2>2. ASSUME NEW x \in Requests \ overtaken', x # r PROVE Fresh(req[x])'
    <3>1. x \notin overtaken /\ x \notin Holding(i) /\ req'[x] = req[x]
      BY <1>1, <1>3, <2>2
    <3>2. req[x].at \in {"number", "save"} => req[x].inv \in Invoices \ {i}
      BY <3>1 DEF Holding, IInv, Typed, JobOK
    <3> QED BY <1>1, <1>2, <3>1, <3>2 DEF Fresh, IInv, FreshUnlessOvertaken
  <2> QED BY <2>1, <2>2 DEF FreshUnlessOvertaken
<1>8. ListsUncancelled'
  BY <1>1 DEF IInv, ListsUncancelled, RunUncancelled
<1>9. DatesAnchored'
  <2>1. \A j \in Invoices : StoreOf[j] \in Stores
    BY BillingConstants
  <2> QED BY <1>1, <1>2, <1>4, <2>1 DEF IInv, DatesAnchored, RunDated
<1> QED BY <1>1, <1>5, <1>6, <1>7, <1>8, <1>9, AfterDisturbance DEF IInv

LEMMA TellStep ==
  ASSUME IInv, NEW r \in Requests, Tell(r)
  PROVE  IInv'
<1> DEFINE i == req[r].inv
           s == req[r].store
<1>1. /\ req[r].at = "tell" /\ i \in Invoices
      /\ s \in Stores
      /\ notices' = [notices EXCEPT ![i][s] = @ + 1]
      /\ req' = [req EXCEPT ![r] = Idle]
      /\ overtaken' = (overtaken \cup Asked(i, s)) \ {r}
      /\ UNCHANGED <<today, sub, active, inv, run, anchors, patched, quiet, settled>>
  BY DEF Tell, Answered, Overtakes, IInv, Typed, JobOK
<1> HIDE DEF i, s
<1>2. /\ req' = [x \in Requests |-> req'[x]] /\ req'[r] = Idle
      /\ \A x \in Requests \ {r} : req'[x] = req[x]
  BY <1>1 DEF IInv, Typed
<1>3. /\ notices' \in [Invoices -> [Stores -> Nat]]
      /\ \A j \in Invoices, x \in Stores : j # i \/ x # s => notices'[j][x] = notices[j][x]
  BY <1>1 DEF IInv, Typed
<1>4. Typed'
  BY <1>1, <1>2, <1>3 DEF IInv, Typed, JobOK, Idle
<1>5. FreshUnlessOvertaken'
  <2>1. Fresh(req[r])'
    BY <1>2 DEF Fresh, Idle
  <2>2. ASSUME NEW x \in Requests \ overtaken', x # r PROVE Fresh(req[x])'
    <3>1. x \notin overtaken /\ x \notin Asked(i, s) /\ req'[x] = req[x]
      BY <1>1, <1>2, <2>2
    <3>2. req[x].at = "tell" => /\ req[x].inv \in Invoices /\ req[x].store \in Stores
                                /\ req[x].inv # i \/ req[x].store # s
      BY <3>1 DEF Asked, IInv, Typed, JobOK
    <3> QED BY <1>1, <1>3, <3>1, <3>2 DEF Fresh, IInv, FreshUnlessOvertaken
  <2> QED BY <2>1, <2>2 DEF FreshUnlessOvertaken
<1>6. (NumbersAreUnique /\ ListsUncancelled /\ DatesAnchored)'
  BY <1>1 DEF IInv, NumbersAreUnique, ListsUncancelled, RunUncancelled, DatesAnchored, RunDated
<1>7. Expired' = Expired /\ Unmarked' = Unmarked /\ PastDueStores' = PastDueStores /\ Owed' = Owed
  BY <1>1 DEF Expired, Unmarked, Owed, Overdue, PastDueStores
<1>8. \A x : Overripe(x)' = Overripe(x)
  BY <1>1 DEF Overripe, Overdue
<1>9. (RunsCleanUp /\ StaysClean)'
  BY <1>1, <1>7, <1>8 DEF IInv, RunsCleanUp, RunClean, StaysClean
<1> QED BY <1>4, <1>5, <1>6, <1>9 DEF IInv

LEMMA SaveSubStep ==
  ASSUME IInv, NEW r \in Requests, SaveSub(r)
  PROVE  IInv'
<1> DEFINE s == req[r].store
           copy == req[r].copy
           more == anchors[s] \cup ({copy.trial} \ {0})
<1>1. /\ s \in Stores /\ copy \in Sub
      /\ sub' = [sub EXCEPT ![s] = copy]
      /\ anchors' = [anchors EXCEPT ![s] = more]
      /\ patched' = [c \in Runs |-> IF run[c].at = "off" THEN {} ELSE patched[c] \cup {s}]
      /\ req' = [req EXCEPT ![r] = Idle]
      /\ Disturbed
      /\ UNCHANGED <<today, active, inv, notices, run, overtaken>>
  BY DEF SaveSub, Answered, IInv, Typed, JobOK
<1>2. more \in SUBSET Date /\ anchors[s] \subseteq more /\ (copy.trial # 0 => copy.trial \in more)
  BY <1>1 DEF IInv, Typed, Sub
<1> HIDE DEF s, copy, more
<1>3. /\ sub' \in [Stores -> Sub] /\ sub'[s] = copy
      /\ \A x \in Stores \ {s} : sub'[x] = sub[x]
  BY <1>1 DEF IInv, Typed
<1>4. /\ anchors' \in [Stores -> SUBSET Date] /\ anchors'[s] = more
      /\ \A x \in Stores : anchors[x] \subseteq anchors'[x]
  BY <1>1, <1>2 DEF IInv, Typed
<1>5. /\ patched' \in [Runs -> SUBSET Stores]
      /\ \A c \in Runs : run[c].at # "off" => patched'[c] = patched[c] \cup {s}
  BY <1>1 DEF IInv, Typed
<1>6. /\ req' = [x \in Requests |-> req'[x]]
      /\ \A x \in Requests : req'[x] = req[x] \/ req'[x] = Idle
  BY <1>1 DEF IInv, Typed
<1>7. Typed'
  BY <1>1, <1>3, <1>4, <1>5, <1>6 DEF IInv, Typed, JobOK, Idle
<1>8. (NumbersAreUnique /\ FreshUnlessOvertaken)'
  BY <1>1, <1>6 DEF IInv, NumbersAreUnique, FreshUnlessOvertaken, Fresh, Idle
<1>9. ListsUncancelled'
  BY <1>1, <1>3, <1>5 DEF IInv, ListsUncancelled, RunUncancelled
<1>10. DatesAnchored'
  <2>1. \A j \in Invoices : StoreOf[j] \in Stores
    BY BillingConstants
  <2>2. \A x \in Stores : sub'[x].trial # 0 => sub'[x].trial \in anchors'[x]
    BY <1>2, <1>3, <1>4 DEF IInv, DatesAnchored, RunDated
  <2>3. \A c \in Runs : run[c].doomed \subseteq Stores
    BY DEF IInv, Typed, Run
  <2> QED BY <1>1, <1>4, <2>1, <2>2, <2>3 DEF IInv, DatesAnchored, RunDated
<1> QED BY <1>1, <1>7, <1>8, <1>9, <1>10, AfterDisturbance DEF IInv

LEMMA SaveStoreStep ==
  ASSUME IInv, NEW r \in Requests, SaveStore(r)
  PROVE  IInv'
<1>1. /\ active' \in [Stores -> BOOLEAN]
      /\ req' = [req EXCEPT ![r] = Idle]
      /\ Disturbed
      /\ UNCHANGED <<today, sub, inv, notices, run, anchors, patched, overtaken>>
  BY DEF SaveStore, Answered, IInv, Typed, JobOK
<1>2. /\ req' = [x \in Requests |-> req'[x]]
      /\ \A x \in Requests : req'[x] = req[x] \/ req'[x] = Idle
  BY <1>1 DEF IInv, Typed
<1>3. Typed'
  BY <1>1, <1>2 DEF IInv, Typed, JobOK, Idle
<1>4. (NumbersAreUnique /\ FreshUnlessOvertaken /\ ListsUncancelled /\ DatesAnchored)'
  BY <1>1, <1>2 DEF IInv, NumbersAreUnique, FreshUnlessOvertaken, Fresh, Idle, ListsUncancelled, RunUncancelled, DatesAnchored, RunDated
<1> QED BY <1>1, <1>3, <1>4, AfterDisturbance DEF IInv

LEMMA TickStep ==
  ASSUME IInv, Tick
  PROVE  IInv'
<1>1. today' = today + 1 /\ Disturbed /\ UNCHANGED <<tables, req, run, anchors, patched, overtaken>>
  BY DEF Tick
<1>2. Typed'
  BY <1>1 DEF IInv, Typed, tables
<1>3. DatesAnchored'
  BY <1>1 DEF IInv, DatesAnchored, RunDated, tables, Typed, Run, Date
<1>4. (NumbersAreUnique /\ FreshUnlessOvertaken /\ ListsUncancelled)'
  BY <1>1 DEF IInv, NumbersAreUnique, FreshUnlessOvertaken, Fresh, ListsUncancelled, RunUncancelled, tables
<1> QED BY <1>1, <1>2, <1>3, <1>4, AfterDisturbance DEF IInv

----------------------------------------------------------------------------
(* Runs of the cycle. *)

LEMMA RunShape ==
  ASSUME IInv, NEW c \in Runs
  PROVE  /\ run[c].list \subseteq Stores /\ run[c].doomed \subseteq Stores /\ run[c].trial \in [Stores -> Date]
         /\ run[c].day \in Date
  BY DEF IInv, Typed, Run

\* A step of a run that writes nothing.
LEMMA LookStep ==
  ASSUME IInv, NEW c \in Runs, run' \in [Runs -> Run], \A x \in Runs \ {c} : run'[x] = run[x],
         UNCHANGED <<today, tables, req, anchors, patched, overtaken, settled>>,
         quiet' = quiet \/ (quiet' = quiet \cup {c} /\ RunClean(run'[c])),
         RunUncancelled(c, run'[c]), RunDated(run'[c]),
         c \in quiet => RunClean(run'[c])
  PROVE  IInv'
<1>1. Typed'
  BY DEF IInv, Typed, tables
<1>2. (NumbersAreUnique /\ FreshUnlessOvertaken)'
  BY DEF IInv, NumbersAreUnique, FreshUnlessOvertaken, Fresh, tables
<1>3. ListsUncancelled'
  <2>1. \A x \in Runs : RunUncancelled(x, run'[x])
    BY DEF IInv, ListsUncancelled
  <2> QED BY <2>1 DEF ListsUncancelled, RunUncancelled, tables
<1>4. DatesAnchored'
  <2>1. \A x \in Runs : RunDated(run'[x])
    BY DEF IInv, DatesAnchored
  <2> QED BY <2>1 DEF IInv, DatesAnchored, RunDated, tables
<1>5. Expired' = Expired /\ Unmarked' = Unmarked /\ PastDueStores' = PastDueStores /\ Owed' = Owed
  BY DEF tables, Expired, Unmarked, Owed, Overdue, PastDueStores
<1>6. \A s : Overripe(s)' = Overripe(s)
  BY DEF tables, Overripe, Overdue
<1>7. RunsCleanUp'
  <2>1. \A x \in quiet' : x \in Runs /\ RunClean(run'[x])
    BY DEF IInv, RunsCleanUp
  <2> QED BY <2>1, <1>5, <1>6 DEF RunsCleanUp, RunClean, tables
<1>8. StaysClean'
  BY <1>5, <1>6 DEF IInv, StaysClean
<1> QED BY <1>1, <1>2, <1>3, <1>4, <1>7, <1>8 DEF IInv

LEMMA StartStep ==
  ASSUME IInv, NEW c \in Runs, Start(c)
  PROVE  IInv'
<1>1. /\ run[c].at = "off" /\ quiet' = quiet \cup {c}
      /\ run' = [run EXCEPT ![c].at = "trials", ![c].day = today]
      /\ UNCHANGED <<today, tables, req, anchors, patched, overtaken, settled>>
  BY DEF Start
<1>2. /\ run' \in [Runs -> Run] /\ (\A x \in Runs \ {c} : run'[x] = run[x])
      /\ run'[c].at = "trials" /\ run'[c].day = today /\ run'[c].doomed = run[c].doomed
  <2> DEFINE first == [run EXCEPT ![c].at = "trials"]
  <2>1. /\ first \in [Runs -> Run] /\ (\A x \in Runs \ {c} : first[x] = run[x])
        /\ first[c].at = "trials" /\ first[c].doomed = run[c].doomed
    BY DEF IInv, Typed, Run
  <2>2. today \in Date /\ run' = [first EXCEPT ![c].day = today]
    BY <1>1 DEF IInv, Typed, Date
  <2> HIDE DEF first
  <2> QED BY <2>1, <2>2 DEF Run
<1>3. run[c].doomed = {}
  BY <1>1 DEF IInv, ListsUncancelled, RunUncancelled
<1>4. RunUncancelled(c, run'[c])
  BY <1>2, <1>3 DEF RunUncancelled
<1>5. RunDated(run'[c])
  BY <1>2, <1>3 DEF RunDated, IInv, Typed
<1>6. RunClean(run'[c])
  BY <1>2 DEF RunClean
<1> QED BY <1>1, <1>2, <1>4, <1>5, <1>6, LookStep

LEMMA QuerySteps ==
  ASSUME IInv, NEW c \in Runs, Trials(c) \/ Owing(c) \/ Unflagged(c)
  PROVE  IInv'
<1>1. UNCHANGED <<today, tables, req, anchors, patched, overtaken, settled, quiet>>
  BY DEF Trials, Owing, Unflagged, Query, history
<1>2. run[c].doomed = {}
  BY DEF Trials, Owing, Unflagged, Query, IInv, ListsUncancelled, RunUncancelled
<1>3. ASSUME NEW here, NEW there \in {"expire", "owing", "flag"}, NEW list \in SUBSET Stores,
             Query(c, here, there, list), here # "off",
             there # "owing" => \A s \in list : sub[s].status # "CANCELLED",
             c \in quiet /\ there = "expire" => list = Expired,
             c \in quiet /\ there \in {"owing", "flag"} => Expired = {},
             c \in quiet /\ there = "owing" => list = Owed,
             c \in quiet /\ there = "flag" => list = Unmarked
      PROVE  IInv'
  <2>1. /\ run[c].at = here /\ run' = [run EXCEPT ![c].at = there, ![c].list = list]
    BY <1>3 DEF Query
  <2>2. /\ run' \in [Runs -> Run] /\ (\A x \in Runs \ {c} : run'[x] = run[x])
        /\ run'[c].at = there /\ run'[c].list = list /\ run'[c].day = run[c].day /\ run'[c].doomed = run[c].doomed
    <3> DEFINE first == [run EXCEPT ![c].at = there]
    <3>1. /\ first \in [Runs -> Run] /\ (\A x \in Runs \ {c} : first[x] = run[x])
          /\ first[c].at = there /\ first[c].day = run[c].day /\ first[c].doomed = run[c].doomed
      BY DEF IInv, Typed, Run
    <3>2. run' = [first EXCEPT ![c].list = list]
      BY <2>1
    <3> HIDE DEF first
    <3> QED BY <3>1, <3>2 DEF Run
  <2>3. RunUncancelled(c, run'[c])
    BY <1>2, <1>3, <2>2 DEF RunUncancelled
  <2>4. RunDated(run'[c])
    BY <1>2, <1>3, <2>1, <2>2 DEF RunDated, IInv, DatesAnchored
  <2>5. c \in quiet => RunClean(run'[c])
    BY <1>3, <2>2 DEF RunClean, IInv, RunsCleanUp
  <2> QED BY <1>1, <2>2, <2>3, <2>4, <2>5, LookStep
<1>4. CASE Trials(c)
  <2> DEFINE list == {s \in Stores : sub[s].status = "TRIAL" /\ sub[s].trial # 0 /\ sub[s].trial < run[c].day}
  <2>1. Query(c, "trials", "expire", list)
    BY <1>4 DEF Trials
  <2>2. c \in quiet => list = Expired
    BY DEF Expired, IInv, RunsCleanUp, RunClean
  <2>3. list \subseteq Stores /\ \A s \in list : sub[s].status # "CANCELLED"
    OBVIOUS
  <2> HIDE DEF list
  <2> QED BY <1>3, <2>1, <2>2, <2>3
<1>5. CASE Owing(c)
  <2> DEFINE list == {StoreOf[i] : i \in {j \in Invoices : Overdue(j, run[c].day)}}
  <2>1. Query(c, "expire", "owing", list) /\ run[c].list = {} /\ run[c].at = "expire"
    BY <1>5 DEF Owing, Query
  <2>2. c \in quiet => list = Owed /\ Expired = {}
    BY <2>1 DEF Owed, IInv, RunsCleanUp, RunClean
  <2>3. list \subseteq Stores
    BY BillingConstants
  <2> HIDE DEF list
  <2> QED BY <1>3, <2>1, <2>2, <2>3
<1>6. CASE Unflagged(c)
  <2> DEFINE list == {s \in run[c].list : sub[s].status \notin {"PAST_DUE", "CANCELLED"}}
  <2>1. Query(c, "owing", "flag", list) /\ run[c].at = "owing"
    BY <1>6 DEF Unflagged, Query
  <2>2. c \in quiet => list = Unmarked /\ Expired = {}
    BY <2>1 DEF Unmarked, IInv, RunsCleanUp, RunClean
  <2>3. list \subseteq Stores /\ \A s \in list : sub[s].status # "CANCELLED"
    BY RunShape
  <2> HIDE DEF list
  <2> QED BY <1>3, <2>1, <2>2, <2>3
<1> QED BY <1>4, <1>5, <1>6

\* Whom a run condemns has been delinquent for longer than the grace period.
LEMMA BeyondIsAnchored ==
  ASSUME IInv, NEW c \in Runs, run[c].at = "judge", NEW s \in Stores, BeyondGrace(c, s)
  PROVE  \E d \in anchors[s] : run[c].day > d + GraceDays
<1>1. PICK d \in Candidates(c, s) : run[c].day > d + GraceDays
  BY DEF BeyondGrace
<1>2. CASE d \in {inv[i].due : i \in {j \in Invoices : StoreOf[j] = s /\ Overdue(j, run[c].day)}}
  BY <1>1, <1>2 DEF Overdue, IInv, DatesAnchored
<1>3. CASE d \in {x \in {run[c].trial[s]} : x # 0 /\ x < run[c].day}
  BY <1>1, <1>3 DEF IInv, DatesAnchored, RunDated
<1> QED BY <1>1, <1>2, <1>3 DEF Candidates

\* To an undisturbed run delinquency looks as it is.
LEMMA BeyondIsOverripe ==
  ASSUME IInv, NEW c \in quiet, run[c].at = "judge", NEW s \in Stores
  PROVE  BeyondGrace(c, s) <=> Overripe(s)
<1>1. run[c].day = today /\ run[c].trial[s] = sub[s].trial
  BY DEF IInv, RunsCleanUp, RunClean
<1> QED BY <1>1 DEF BeyondGrace, Candidates, Overripe

LEMMA PastDueStep ==
  ASSUME IInv, NEW c \in Runs, PastDue(c)
  PROVE  IInv'
<1> DEFINE trial == [s \in Stores |-> sub[s].trial]
<1>1. /\ run[c].at = "flag" /\ run[c].list = {}
      /\ run' = [run EXCEPT ![c].at = "judge", ![c].list = PastDueStores, ![c].trial = trial]
      /\ UNCHANGED <<today, tables, req, anchors, patched, overtaken, settled, quiet>>
  BY DEF PastDue, history
<1>2. trial \in [Stores -> Date] /\ PastDueStores \subseteq Stores /\ \A s \in Stores : trial[s] = sub[s].trial
  BY DEF IInv, Typed, Sub, PastDueStores
<1> HIDE DEF trial
<1>3. /\ run' \in [Runs -> Run] /\ (\A x \in Runs \ {c} : run'[x] = run[x])
      /\ run'[c].at = "judge" /\ run'[c].list = PastDueStores /\ run'[c].trial = trial
      /\ run'[c].day = run[c].day /\ run'[c].doomed = run[c].doomed
  BY <1>1, <1>2 DEF IInv, Typed, Run
<1>4. run[c].doomed = {}
  BY <1>1 DEF IInv, ListsUncancelled, RunUncancelled
<1>5. RunUncancelled(c, run'[c])
  BY <1>3, <1>4 DEF RunUncancelled, PastDueStores
<1>6. RunDated(run'[c])
  BY <1>1, <1>2, <1>3, <1>4 DEF RunDated, IInv, DatesAnchored
<1>7. c \in quiet => RunClean(run'[c])
  BY <1>1, <1>2, <1>3, <1>4 DEF RunClean, IInv, RunsCleanUp
<1> QED BY <1>1, <1>3, <1>5, <1>6, <1>7, LookStep

LEMMA JudgeStep ==
  ASSUME IInv, NEW c \in Runs, NEW s \in Stores, Spare(c, s) \/ Condemn(c, s)
  PROVE  IInv'
<1> DEFINE doomed == IF Spare(c, s) THEN {} ELSE {s}
<1>1. /\ run[c].at = "judge" /\ run[c].doomed = {} /\ s \in run[c].list
      /\ UNCHANGED <<today, tables, req, anchors, patched, overtaken, settled, quiet>>
  BY DEF Spare, Condemn, history
<1>2. IF Spare(c, s) THEN ~BeyondGrace(c, s) ELSE BeyondGrace(c, s)
  BY DEF Spare, Condemn
<1>3. /\ run' \in [Runs -> Run] /\ (\A x \in Runs \ {c} : run'[x] = run[x])
      /\ run'[c].at = "judge" /\ run'[c].list = run[c].list \ {s} /\ run'[c].trial = run[c].trial
      /\ run'[c].day = run[c].day /\ run'[c].doomed = doomed
  <2>1. CASE Spare(c, s)
    <3>1. run' = [run EXCEPT ![c].list = @ \ {s}] /\ doomed = run[c].doomed
      BY <1>1, <2>1 DEF Spare
    <3> HIDE DEF doomed
    <3> QED BY <1>1, <3>1 DEF IInv, Typed, Run
  <2>2. CASE ~Spare(c, s)
    <3>1. run' = [run EXCEPT ![c].list = @ \ {s}, ![c].doomed = {s}] /\ doomed = {s}
      BY <2>2 DEF Condemn
    <3> HIDE DEF doomed
    <3> QED BY <1>1, <3>1 DEF IInv, Typed, Run
  <2> QED BY <2>1, <2>2
<1>4. doomed \subseteq {s} /\ (doomed = {s} <=> BeyondGrace(c, s))
  BY <1>2
<1> HIDE DEF doomed
<1>5. RunUncancelled(c, run'[c])
  BY <1>1, <1>3, <1>4 DEF RunUncancelled, IInv, ListsUncancelled
<1>6. RunDated(run'[c])
  <2>1. \A x \in doomed : \E d \in anchors[x] : run[c].day > d + GraceDays
    BY <1>1, <1>4, BeyondIsAnchored
  <2> QED BY <1>1, <1>3, <2>1 DEF RunDated, IInv, DatesAnchored
<1>7. ASSUME c \in quiet PROVE RunClean(run'[c])
  <2>1. /\ RunClean(run[c]) /\ (BeyondGrace(c, s) <=> Overripe(s))
    BY <1>1, <1>7, BeyondIsOverripe DEF IInv, RunsCleanUp
  <2>2. \A x \in PastDueStores : Overripe(x) => x \in run'[c].list \cup run'[c].doomed
    BY <1>1, <1>3, <1>4, <2>1 DEF RunClean, PastDueStores
  <2>3. \A x \in run'[c].doomed : x \in PastDueStores /\ Overripe(x)
    BY <1>1, <1>3, <1>4, <2>1 DEF RunClean
  <2>4. run'[c].list \subseteq PastDueStores /\ run'[c].list \cap run'[c].doomed = {}
    BY <1>1, <1>3, <1>4, <2>1 DEF RunClean
  <2> QED BY <1>1, <1>3, <2>1, <2>2, <2>3, <2>4 DEF RunClean
<1> QED BY <1>1, <1>3, <1>5, <1>6, <1>7, LookStep

LEMMA MarkStep ==
  ASSUME IInv, NEW c \in Runs, NEW s \in Stores, Mark(c, s)
  PROVE  IInv'
<1>1. /\ run[c].at \in {"expire", "flag"} /\ s \in run[c].list
      /\ run' = [run EXCEPT ![c].list = @ \ {s}]
      /\ sub' = [sub EXCEPT ![s].status = "PAST_DUE"]
      /\ quiet' = quiet \cap {c} /\ settled' = FALSE
      /\ UNCHANGED <<today, active, inv, notices, req, anchors, patched, overtaken>>
  BY DEF Mark
<1>2. /\ run' \in [Runs -> Run] /\ (\A x \in Runs \ {c} : run'[x] = run[x])
      /\ run'[c].at = run[c].at /\ run'[c].list = run[c].list \ {s} /\ run'[c].trial = run[c].trial
      /\ run'[c].day = run[c].day /\ run'[c].doomed = run[c].doomed
  BY <1>1 DEF IInv, Typed, Run
<1>3. /\ sub' \in [Stores -> Sub] /\ (\A x \in Stores \ {s} : sub'[x] = sub[x])
      /\ sub'[s].status = "PAST_DUE" /\ sub'[s].trial = sub[s].trial
  BY <1>1 DEF IInv, Typed, Sub, SubStatus
<1>4. Typed'
  BY <1>1, <1>2, <1>3 DEF IInv, Typed
<1>5. (NumbersAreUnique /\ FreshUnlessOvertaken)'
  BY <1>1 DEF IInv, NumbersAreUnique, FreshUnlessOvertaken, Fresh
<1>6. ListsUncancelled'
  BY <1>1, <1>2, <1>3 DEF IInv, ListsUncancelled, RunUncancelled
<1>7. DatesAnchored'
  BY <1>1, <1>2, <1>3 DEF IInv, DatesAnchored, RunDated
<1>8. ASSUME c \in quiet PROVE RunClean(run[c])'
  <2>1. RunClean(run[c])
    BY <1>8 DEF IInv, RunsCleanUp
  <2>2. Expired' = Expired \ {s}
    BY <1>1, <1>3 DEF Expired
  <2>3. Unmarked' = Unmarked \ {s}
    BY <1>1, <1>3, BillingConstants DEF Unmarked, Owed, Overdue
  <2> QED BY <1>1, <1>2, <2>1, <2>2, <2>3 DEF RunClean
<1>9. (RunsCleanUp /\ StaysClean)'
  BY <1>1, <1>8 DEF RunsCleanUp, StaysClean
<1> QED BY <1>4, <1>5, <1>6, <1>7, <1>9 DEF IInv

LEMMA SuspendStep ==
  ASSUME IInv, NEW c \in Runs, NEW s \in Stores, Suspend(c, s)
  PROVE  IInv'
<1>1. /\ run[c].doomed = {s}
      /\ run' = [run EXCEPT ![c].doomed = {}]
      /\ active' = [active EXCEPT ![s] = FALSE]
      /\ quiet' = quiet \cap {c} /\ settled' = FALSE
      /\ UNCHANGED <<today, sub, inv, notices, req, anchors, patched, overtaken>>
  BY DEF Suspend
<1>2. /\ run' \in [Runs -> Run] /\ (\A x \in Runs \ {c} : run'[x] = run[x])
      /\ run'[c].at = run[c].at /\ run'[c].list = run[c].list /\ run'[c].trial = run[c].trial
      /\ run'[c].day = run[c].day /\ run'[c].doomed = {}
  BY <1>1 DEF IInv, Typed, Run
<1>3. /\ active' \in [Stores -> BOOLEAN] /\ (\A x \in Stores \ {s} : active'[x] = active[x])
      /\ active'[s] = FALSE
  BY <1>1 DEF IInv, Typed
<1>4. Typed'
  BY <1>1, <1>2, <1>3 DEF IInv, Typed
<1>5. (NumbersAreUnique /\ FreshUnlessOvertaken)'
  BY <1>1 DEF IInv, NumbersAreUnique, FreshUnlessOvertaken, Fresh
<1>6. (ListsUncancelled /\ DatesAnchored)'
  BY <1>1, <1>2 DEF IInv, ListsUncancelled, RunUncancelled, DatesAnchored, RunDated
<1>7. ASSUME c \in quiet PROVE RunClean(run[c])'
  <2>1. RunClean(run[c]) /\ run[c].at = "judge"
    BY <1>1, <1>7 DEF IInv, RunsCleanUp, ListsUncancelled, RunUncancelled
  <2>2. Expired' = Expired /\ Unmarked' = Unmarked
    BY <1>1 DEF Expired, Unmarked, Owed, Overdue
  <2>3. PastDueStores' = PastDueStores \ {s}
    BY <1>1, <1>3 DEF PastDueStores
  <2>4. \A x : Overripe(x)' = Overripe(x)
    BY <1>1 DEF Overripe, Overdue
  <2>5. \A x \in PastDueStores' : Overripe(x)' => x \in run'[c].list \cup run'[c].doomed
    BY <1>1, <1>2, <2>1, <2>3, <2>4 DEF RunClean
  <2>6. run'[c].list \subseteq PastDueStores'
    BY <1>1, <1>2, <2>1, <2>3 DEF RunClean
  <2> QED BY <1>1, <1>2, <2>1, <2>2, <2>5, <2>6 DEF RunClean
<1>8. (RunsCleanUp /\ StaysClean)'
  BY <1>1, <1>7 DEF RunsCleanUp, StaysClean
<1> QED BY <1>4, <1>5, <1>6, <1>8 DEF IInv

\* What an undisturbed run leaves when it has ended, its successor finds clean.
LEMMA EndStep ==
  ASSUME IInv, NEW c \in Runs, Finish(c) \/ Kill(c)
  PROVE  IInv'
<1>1. /\ run' = [run EXCEPT ![c] = Off] /\ quiet' = quiet \ {c}
      /\ patched' = [patched EXCEPT ![c] = {}]
      /\ UNCHANGED <<today, tables, req, anchors, overtaken>>
  BY DEF Finish, Kill
<1>2. Off \in Run /\ Off.at = "off" /\ Off.list = {} /\ Off.doomed = {}
  BY DEF Off, Run, Date
<1>3. /\ run' \in [Runs -> Run] /\ (\A x \in Runs \ {c} : run'[x] = run[x]) /\ run'[c] = Off
      /\ patched' \in [Runs -> SUBSET Stores] /\ (\A x \in Runs \ {c} : patched'[x] = patched[x])
  BY <1>1, <1>2 DEF IInv, Typed
<1>4. Typed'
  BY <1>1, <1>3 DEF IInv, Typed, tables
<1>5. (NumbersAreUnique /\ FreshUnlessOvertaken)'
  BY <1>1 DEF IInv, NumbersAreUnique, FreshUnlessOvertaken, Fresh, tables
<1>6. (ListsUncancelled /\ DatesAnchored)'
  BY <1>1, <1>2, <1>3 DEF IInv, ListsUncancelled, RunUncancelled, DatesAnchored, RunDated, tables
<1>7. Expired' = Expired /\ Unmarked' = Unmarked /\ PastDueStores' = PastDueStores /\ Owed' = Owed
  BY <1>1 DEF tables, Expired, Unmarked, Owed, Overdue, PastDueStores
<1>8. \A s : Overripe(s)' = Overripe(s)
  BY <1>1 DEF tables, Overripe, Overdue
<1>9. RunsCleanUp'
  BY <1>1, <1>3, <1>7, <1>8 DEF IInv, RunsCleanUp, RunClean, tables
<1>10. ASSUME settled' PROVE Expired = {} /\ Unmarked = {} /\ \A s \in PastDueStores : ~Overripe(s)
  <2>1. CASE settled
    BY <2>1 DEF IInv, StaysClean
  <2>2. CASE ~settled
    <3>1. /\ c \in quiet /\ run[c].at = "judge" /\ run[c].list = {} /\ run[c].doomed = {}
      BY <1>10, <2>2 DEF Finish, Kill
    <3> QED BY <3>1 DEF IInv, RunsCleanUp, RunClean
  <2> QED BY <2>1, <2>2
<1>11. StaysClean'
  BY <1>7, <1>8, <1>10 DEF StaysClean
<1> QED BY <1>4, <1>5, <1>6, <1>9, <1>11 DEF IInv

LEMMA StepOK == IInv /\ [Next]_vars => IInv'
<1> SUFFICES ASSUME IInv, [Next]_vars PROVE IInv'
  OBVIOUS
<1>1. ASSUME NEW r \in Requests, Begins(r) PROVE IInv'
  BY <1>1, ReadsOK, InsertStep DEF Begins
<1>2. ASSUME NEW r \in Requests, Step(r) \/ Fail(r) PROVE IInv'
  BY <1>2, AnswersOK, SaveStep, TellStep, SaveSubStep, SaveStoreStep DEF Step
<1>3. ASSUME NEW c \in Runs, Start(c) \/ Kill(c) PROVE IInv'
  BY <1>3, StartStep, EndStep
<1>4. ASSUME NEW c \in Runs, Cycle(c) PROVE IInv'
  BY <1>4, QuerySteps, PastDueStep, JudgeStep, MarkStep, SuspendStep, EndStep DEF Cycle
<1>5. ASSUME NEW i \in Invoices, NEW d \in DueDates, CreateDraft(i, d) PROVE IInv'
  BY <1>5, InsertStep
<1>6. CASE UNCHANGED vars
  <2>1. Expired' = Expired /\ Unmarked' = Unmarked /\ PastDueStores' = PastDueStores /\ Owed' = Owed
    BY <1>6 DEF vars, tables, Expired, Unmarked, Owed, Overdue, PastDueStores
  <2>2. \A s : Overripe(s)' = Overripe(s)
    BY <1>6 DEF vars, tables, Overripe, Overdue
  <2>3. (RunsCleanUp /\ StaysClean)'
    BY <1>6, <2>1, <2>2 DEF IInv, RunsCleanUp, RunClean, StaysClean, vars, tables, history
  <2>4. (Typed /\ NumbersAreUnique /\ FreshUnlessOvertaken)'
    BY <1>6 DEF IInv, Typed, NumbersAreUnique, FreshUnlessOvertaken, Fresh, vars, tables, history
  <2>5. (ListsUncancelled /\ DatesAnchored)'
    BY <1>6 DEF IInv, ListsUncancelled, RunUncancelled, DatesAnchored, RunDated, vars, tables, history
  <2> QED BY <2>3, <2>4, <2>5 DEF IInv
<1> QED BY <1>1, <1>2, <1>3, <1>4, <1>5, <1>6, TickStep DEF Next

\* Only two kinds of step write an invoice, and only one announces it.
LEMMA WhoWrites ==
  ASSUME Next
  PROVE  /\ UNCHANGED notices \/ \E r \in Requests : Tell(r)
         /\ \/ UNCHANGED inv
            \/ \E r \in Requests : Save(r)
            \/ \E i \in Invoices, d \in DueDates : Insert(i, Draft(i, d))
<1>1. ASSUME NEW r \in Requests, Begins(r)
      PROVE  UNCHANGED notices /\ (UNCHANGED inv \/ \E i \in Invoices, d \in DueDates : Insert(i, Draft(i, d)))
  BY <1>1 DEF Begins, Create, Insert, Issue, MarkPaid, Void, Patch, ReadInvoice, ReadSub, ReadStore, tables
<1>2. ASSUME NEW r \in Requests, Step(r)
      PROVE  (UNCHANGED notices \/ Tell(r)) /\ (UNCHANGED inv \/ Save(r))
  BY <1>2 DEF Step, Number, Save, NumberTaken, Ask, Tell, SaveSub, SaveStore, tables
<1>3. ASSUME NEW r \in Requests, Fail(r) PROVE UNCHANGED <<notices, inv>>
  BY <1>3 DEF Fail, tables
<1>4. ASSUME NEW c \in Runs, Start(c) \/ Cycle(c) \/ Kill(c) PROVE UNCHANGED <<notices, inv>>
  BY <1>4 DEF Start, Cycle, Kill, Trials, Owing, Unflagged, PastDue, Query, Mark, Spare, Condemn, Suspend, Finish, tables
<1>5. ASSUME NEW i \in Invoices, NEW d \in DueDates, CreateDraft(i, d) PROVE UNCHANGED notices /\ Insert(i, Draft(i, d))
  BY <1>5 DEF CreateDraft, Insert
<1> QED BY <1>1, <1>2, <1>3, <1>4, <1>5 DEF Next, Tick, tables

THEOREM Inductive == Spec => []IInv
  BY InitOK, StepOK, PTL DEF Spec

----------------------------------------------------------------------------

\* No two invoices carry the same number, however requests race for the next one.
THEOREM NumbersStayUnique == Spec => []NumbersAreUnique
  BY Inductive, PTL DEF IInv

\* A run that begins when an undisturbed one has ended finds nothing to write.
THEOREM RunsRepeatNothing == Spec => []RunsAreIdempotent
<1>1. IInv => RunsAreIdempotent
  <2> SUFFICES ASSUME IInv, NEW c \in quiet, settled
               PROVE  (run[c].at \in {"expire", "flag"} => run[c].list = {}) /\ run[c].doomed = {}
    BY DEF RunsAreIdempotent
  <2>1. RunClean(run[c]) /\ Expired = {} /\ Unmarked = {} /\ (\A s \in PastDueStores : ~Overripe(s)) /\ c \in Runs
    BY DEF IInv, RunsCleanUp, StaysClean
  <2>2. run[c].doomed = {}
    BY <2>1 DEF RunClean, IInv, ListsUncancelled, RunUncancelled
  <2> QED BY <2>1, <2>2 DEF RunClean
<1> QED BY <1>1, Inductive, PTL

\* An invoice is announced to one store again only by a request that was overtaken after it
\* had looked there, also when the invoice is taken to another store and back.
THEOREM OnlyRacersAnnounceAgain == Spec => AnnouncedAgainByRacers
<1> DEFINE Announced == \A i \in Invoices, s \in Stores :
             notices[i][s] # 0 /\ notices'[i][s] # notices[i][s] =>
               \E r \in overtaken : req[r].at = "tell" /\ req[r].inv = i /\ req[r].store = s
<1>1. ASSUME IInv, Next, NEW i \in Invoices, NEW s \in Stores,
             notices[i][s] # 0, notices'[i][s] # notices[i][s]
      PROVE  \E r \in overtaken : req[r].at = "tell" /\ req[r].inv = i /\ req[r].store = s
  <2>1. PICK r \in Requests : Tell(r)
    BY <1>1, WhoWrites
  <2>2. req[r].at = "tell" /\ req[r].inv = i /\ req[r].store = s /\ ~Fresh(req[r])
    BY <1>1, <2>1 DEF Tell, IInv, Typed, Fresh
  <2> QED BY <1>1, <2>2 DEF IInv, FreshUnlessOvertaken
<1>2. IInv /\ [Next]_vars => [Announced]_vars
  BY <1>1 DEF vars, tables
<1> QED BY <1>2, Inductive, PTL DEF Spec, AnnouncedAgainByRacers

\* A payment is undone only by a PATCH of the status or by a copy that was read before it was saved.
THEOREM PaymentsStand == Spec => PaidStaysPaid
<1> DEFINE Stands == \A i \in Invoices :
             inv[i].status = "PAID" /\ inv'[i].status # "PAID" =>
               \E r \in Requests : req[r].at = "save" /\ req[r].inv = i /\ (req[r].sent \/ r \in overtaken)
<1>1. ASSUME IInv, Next, NEW i \in Invoices, inv[i].status = "PAID", inv'[i].status # "PAID"
      PROVE  \E r \in Requests : req[r].at = "save" /\ req[r].inv = i /\ (req[r].sent \/ r \in overtaken)
  <2>1. \A j \in Invoices : \A draft : Insert(j, draft) => inv'[i] = inv[i]
    BY <1>1 DEF Insert, IInv, Typed
  <2>2. PICK r \in Requests : Save(r)
    BY <1>1, <2>1, WhoWrites
  <2>3. req[r].at = "save" /\ req[r].inv = i /\ req[r].copy.status # "PAID"
    BY <1>1, <2>2 DEF Save, IInv, Typed
  <2> QED BY <1>1, <2>3 DEF IInv, FreshUnlessOvertaken, Fresh
<1>2. IInv /\ [Next]_vars => [Stands]_vars
  BY <1>1 DEF vars, tables
<1> QED BY <1>2, Inductive, PTL DEF Spec, PaidStaysPaid

\* Cancelled subscriptions stay as they are, and their stores open, unless sudo edits them meanwhile.
THEOREM CancelledAreLeft == Spec => CancelledStays
<1>1. ASSUME IInv, Next, NEW c \in Runs, NEW s \in Stores,
             run'[c] # run[c], sub[s].status = "CANCELLED", s \notin patched[c]
      PROVE  sub'[s] = sub[s] /\ active'[s] = active[s]
  <2>1. CASE \E r \in Requests : Begins(r) \/ Step(r) \/ Fail(r)
    BY <1>1, <2>1 DEF Begins, Step, Create, Insert, Issue, MarkPaid, Void, Patch, ReadInvoice,
                Number, Save, Tell, NumberTaken, Ask, ReadSub, ReadStore, SaveSub, SaveStore, Fail, tables
  <2>2. CASE Tick \/ \E i \in Invoices, d \in DueDates : CreateDraft(i, d)
    BY <1>1, <2>2 DEF Tick, CreateDraft, Insert
  <2>3. CASE \E x \in Runs : Start(x) \/ Cycle(x) \/ Kill(x)
    <3>1. PICK x \in Runs : Start(x) \/ Cycle(x) \/ Kill(x)
      BY <2>3
    <3>2. x = c
      BY <1>1, <3>1 DEF Start, Cycle, Kill, Trials, Owing, Unflagged, PastDue, Query, Mark, Spare, Condemn, Suspend,
                        Finish, IInv, Typed
    <3>3. CASE \E y \in Stores : Mark(c, y)
      BY <1>1, <3>3 DEF Mark, IInv, Typed, ListsUncancelled, RunUncancelled
    <3>4. CASE \E y \in Stores : Suspend(c, y)
      BY <1>1, <3>4 DEF Suspend, IInv, Typed, ListsUncancelled, RunUncancelled
    <3> QED BY <3>1, <3>2, <3>3, <3>4 DEF Start, Cycle, Kill, Trials, Owing, Unflagged, PastDue, Query, Spare, Condemn,
                                       Finish, tables
  <2> QED BY <1>1, <2>1, <2>2, <2>3 DEF Next
<1>2. IInv /\ [Next]_vars => [CancelledLeftAlone]_vars
  BY <1>1 DEF vars, CancelledLeftAlone
<1> QED BY <1>2, Inductive, PTL DEF Spec, CancelledStays

\* A run suspends a store only when the grace period has passed since a date it was delinquent from.
THEOREM GraceIsGranted == Spec => SuspendedAfterGrace
<1>1. ASSUME IInv, Next, NEW c \in Runs, NEW s \in Stores,
             run[c].doomed = {s}, run'[c].doomed = {}, active'[s] # active[s]
      PROVE  \E d \in anchors[s] : today > d + GraceDays
  <2>1. /\ run[c].at = "judge" /\ run[c].day \in Nat /\ today \in Nat /\ anchors[s] \subseteq Nat
    BY <1>1 DEF IInv, Typed, Run, Date, ListsUncancelled, RunUncancelled
  <2>2. RunDated(run[c])
    BY <1>1 DEF IInv, DatesAnchored
  <2>3. run[c].day <= today
    BY <2>1, <2>2 DEF RunDated
  <2>4. PICK d \in anchors[s] : run[c].day > d + GraceDays
    BY <1>1, <2>2 DEF RunDated
  <2>5. today > d + GraceDays
    BY <2>1, <2>3, <2>4, BillingConstants
  <2> QED BY <2>5
<1>2. IInv /\ [Next]_vars => [GraceGranted]_vars
  BY <1>1 DEF vars, tables, GraceGranted
<1> QED BY <1>2, Inductive, PTL DEF Spec, SuspendedAfterGrace

----------------------------------------------------------------------------
(* TypeOK *)

InvoiceJob == [at : {"number", "save"}, inv : Invoices, copy : Inv, sent : BOOLEAN]
NoticeJob  == [at : {"ask", "tell"}, inv : Invoices, store : Stores]
SubJob     == [at : {"subscription"}, store : Stores, copy : Sub]
StoreJob   == [at : {"store"}, store : Stores, active : BOOLEAN]
Requested  == {Idle} \cup InvoiceJob \cup NoticeJob \cup SubJob \cup StoreJob

\* TypeOK by its parts, and that the requests are a function of their slots.
TypesHold ==
  /\ today \in 1..LastDay /\ begun \in 0..MaxBegun
  /\ sub \in [Stores -> Sub] /\ active \in [Stores -> BOOLEAN]
  /\ inv \in [Invoices -> Inv] /\ notices \in [Invoices -> [Stores -> Nat]]
  /\ req \in [Requests -> Requested]
  /\ run \in [Runs -> Run]
  /\ anchors \in [Stores -> SUBSET Date] /\ patched \in [Runs -> SUBSET Stores]
  /\ overtaken \subseteq Requests /\ quiet \subseteq Runs /\ settled \in BOOLEAN

LEMMA TypesAreTypes == TypesHold => TypeOK
<1> SUFFICES ASSUME TypesHold PROVE TypeOK
  OBVIOUS
<1>1. \A r \in Requests :
        \/ req[r] = Idle
        \/ req[r] \in InvoiceJob
        \/ req[r] \in NoticeJob
        \/ req[r] \in SubJob
        \/ req[r] \in StoreJob
  BY DEF TypesHold, Requested
<1> QED BY <1>1 DEF TypesHold, TypeOK, InvoiceJob, NoticeJob, SubJob, StoreJob, Run

LEMMA TypesInit == Init => TypesHold
<1> SUFFICES ASSUME Init PROVE TypesHold
  OBVIOUS
<1>1. /\ today \in 1..LastDay /\ begun \in 0..MaxBegun
      /\ overtaken \subseteq Requests /\ quiet \subseteq Runs /\ settled \in BOOLEAN
  <2>1. LastDay \in Nat \ {0} /\ MaxBegun \in Nat
    BY BillingConstants
  <2>2. today = 1 /\ begun = 0
    BY DEF Init
  <2>3. overtaken \subseteq Requests /\ quiet \subseteq Runs
    BY DEF Init
  <2>4. settled \in BOOLEAN
    BY DEF Init
  <2> QED BY <2>1, <2>2, <2>3, <2>4
<1>2. sub \in [Stores -> Sub] /\ active \in [Stores -> BOOLEAN]
  BY BillingConstants DEF Init, Sub, Date
<1>3. inv \in [Invoices -> Inv] /\ notices \in [Invoices -> [Stores -> Nat]]
  <2>1. \A i \in Invoices : NoInv(i) \in Inv
    BY BillingConstants DEF NoInv, Draft, Inv, InvStatus, Date
  <2> QED BY <2>1 DEF Init
<1>4. req \in [Requests -> Requested]
  BY DEF Init, Requested
<1>5. run \in [Runs -> Run]
  <2>1. Off \in Run
    BY DEF Off, Run, Date
  <2> QED BY <2>1 DEF Init
<1>6. anchors \in [Stores -> SUBSET Date] /\ patched \in [Runs -> SUBSET Stores]
  BY BillingConstants DEF Init, Date
<1> QED BY <1>1, <1>2, <1>3, <1>4, <1>5, <1>6 DEF TypesHold

\* Of finitely many numbers one is the largest.
LEMMA LargestNumber ==
  ASSUME NEW number \in [Invoices -> Nat], NEW any \in Invoices
  PROVE  Largest({number[i] : i \in Invoices}) \in Nat
<1> DEFINE G == {A \in SUBSET Invoices : A # {} => \E m \in A : \A i \in A : number[i] <= number[m]}
<1>1. IsFiniteSet(Invoices)
  BY BillingConstants
<1>2. {} \in G
  OBVIOUS
<1>3. \A A \in SUBSET Invoices : A \in G => \A x \in Invoices \ A : A \cup {x} \in G
  <2> SUFFICES ASSUME NEW A \in SUBSET Invoices, A \in G, NEW x \in Invoices \ A
               PROVE  \E m \in A \cup {x} : \A i \in A \cup {x} : number[i] <= number[m]
    OBVIOUS
  <2>1. CASE A = {}
    BY <2>1
  <2>2. CASE A # {}
    <3>1. PICK m \in A : \A i \in A : number[i] <= number[m]
      BY <2>2
    <3>2. CASE number[x] <= number[m]
      BY <3>1, <3>2
    <3>3. CASE number[m] < number[x]
      BY <3>1, <3>3
    <3> QED BY <3>2, <3>3
  <2> QED BY <2>1, <2>2
<1>4. Invoices \in G
  <2> HIDE DEF G
  <2> QED BY <1>1, <1>2, <1>3, FiniteInductionOnSet
<1>5. PICK m \in Invoices : \A i \in Invoices : number[i] <= number[m]
  BY <1>4
<1> DEFINE S == {number[i] : i \in Invoices}
<1>6. \E n \in S : \A k \in S : k <= n
  BY <1>5
<1>7. Largest(S) \in S
  BY <1>6 DEF Largest
<1> QED BY <1>7

\* The next statement of a request is one of those that requests consist of.
LEMMA RequestTypes ==
  ASSUME TypesHold, NEW r \in Requests, NEW job \in Requested
  PROVE  [req EXCEPT ![r] = job] \in [Requests -> Requested]
BY DEF TypesHold

LEMMA JobTypes ==
  ASSUME TypesHold, NEW r \in Requests
  PROVE  /\ req[r] \in Requested
         /\ req[r].at \in {"number", "save"} => req[r] \in InvoiceJob
         /\ req[r].at \in {"ask", "tell"} => req[r] \in NoticeJob
         /\ req[r].at = "subscription" => req[r] \in SubJob
         /\ req[r].at = "store" => req[r] \in StoreJob
<1>1. req[r] \in Requested
  BY DEF TypesHold
<1> QED BY <1>1 DEF Requested, Idle, InvoiceJob, NoticeJob, SubJob, StoreJob

LEMMA BeginTypes ==
  ASSUME TypesHold, NEW r \in Requests, NEW job \in Requested, Begin(r, job)
  PROVE  req' \in [Requests -> Requested] /\ begun' \in 0..MaxBegun
<1>1. req' \in [Requests -> Requested]
  BY RequestTypes DEF Begin
<1>2. begun' \in 0..MaxBegun
  BY BillingConstants DEF Begin, TypesHold
<1> QED BY <1>1, <1>2

LEMMA ReadTypes ==
  ASSUME TypesHold, NEW r \in Requests, NEW i \in Invoices, NEW copy \in Inv, NEW at \in {"number", "save"},
         NEW sent \in BOOLEAN, ReadInvoice(r, i, copy, at, sent)
  PROVE  TypesHold'
<1>1. PICK job : job = [at |-> at, inv |-> i, copy |-> copy, sent |-> sent]
  OBVIOUS
<1>2. job \in Requested
  BY <1>1 DEF Requested, InvoiceJob
<1>3. Begin(r, job) /\ UNCHANGED <<today, tables, run, history>>
  BY <1>1 DEF ReadInvoice
<1>4. req' \in [Requests -> Requested] /\ begun' \in 0..MaxBegun
  BY <1>2, <1>3, BeginTypes
<1> QED BY <1>3, <1>4 DEF TypesHold, tables, history

LEMMA BeginsTypes ==
  ASSUME TypesHold, NEW r \in Requests, Begins(r)
  PROVE  TypesHold'
<1>1. ASSUME NEW i \in Invoices, Issue(r, i) \/ MarkPaid(r, i) \/ Void(r, i) \/ Patch(r, i) PROVE TypesHold'
  <2>1. /\ inv[i] \in Inv
        /\ \A s \in InvStatus : [inv[i] EXCEPT !.status = s] \in Inv
        /\ \A d \in Nat : [inv[i] EXCEPT !.due = d] \in Inv
        /\ \A s \in Stores : [inv[i] EXCEPT !.store = s] \in Inv
    BY DEF TypesHold, Inv, Date
  <2>2. "PAID" \in InvStatus /\ "VOID" \in InvStatus /\ \A d \in DueDates : d \in Nat
    BY BillingConstants DEF InvStatus, Date
  <2>3. PICK copy \in Inv, at \in {"number", "save"}, sent \in BOOLEAN : ReadInvoice(r, i, copy, at, sent)
    BY <1>1, <2>1, <2>2 DEF Issue, MarkPaid, Void, Patch
  <2> QED BY <2>3, ReadTypes
<1>2. ASSUME NEW i \in Invoices, NEW due \in DueDates, Create(r, i, due) PROVE TypesHold'
  <2>1. Draft(i, due) \in Inv
    BY BillingConstants DEF Draft, Inv, InvStatus, Date
  <2>2. PICK job : job = [at |-> "number", inv |-> i, copy |-> Draft(i, due), sent |-> FALSE]
    OBVIOUS
  <2>3. job \in Requested /\ Begin(r, job)
    BY <1>2, <2>1, <2>2 DEF Create, Requested, InvoiceJob
  <2>4. req' \in [Requests -> Requested] /\ begun' \in 0..MaxBegun
    BY <2>3, BeginTypes
  <2>5. inv' = [inv EXCEPT ![i] = Draft(i, due)]
    BY <1>2 DEF Create, Insert
  <2>6. inv' \in [Invoices -> Inv]
    BY <2>1, <2>5 DEF TypesHold
  <2> QED BY <1>2, <2>4, <2>6 DEF Create, Insert, Disturbed, TypesHold
<1>3. ASSUME NEW s \in Stores, ReadSub(r, s) \/ ReadStore(r, s) PROVE TypesHold'
  <2>1. /\ \A st \in SubStatus : [sub[s] EXCEPT !.status = st] \in Sub
        /\ \A d \in Nat : [sub[s] EXCEPT !.trial = d] \in Sub
    BY DEF TypesHold, Sub, Date
  <2>2. \A d \in TrialDates : d \in Nat
    BY BillingConstants DEF Date
  <2>4. PICK job \in Requested : Begin(r, job)
    <3>1. CASE ReadSub(r, s)
      <4>1. ASSUME NEW copy \in Sub, Begin(r, [at |-> "subscription", store |-> s, copy |-> copy])
            PROVE  \E job \in Requested : Begin(r, job)
        <5>1. [at |-> "subscription", store |-> s, copy |-> copy] \in Requested
          BY DEF Requested, SubJob
        <5> QED BY <4>1, <5>1
      <4>2. CASE \E st \in SubStatus : Begin(r, [at |-> "subscription", store |-> s, copy |-> [sub[s] EXCEPT !.status = st]])
        BY <2>1, <4>1, <4>2
      <4>3. CASE \E d \in TrialDates : Begin(r, [at |-> "subscription", store |-> s, copy |-> [sub[s] EXCEPT !.trial = d]])
        <5>1. PICK d \in TrialDates : Begin(r, [at |-> "subscription", store |-> s, copy |-> [sub[s] EXCEPT !.trial = d]])
          BY <4>3
        <5>2. [sub[s] EXCEPT !.trial = d] \in Sub
          BY <2>1, <2>2
        <5> QED BY <4>1, <5>1, <5>2
      <4> QED BY <3>1, <4>2, <4>3 DEF ReadSub
    <3>2. CASE ReadStore(r, s)
      <4>1. PICK a \in BOOLEAN : Begin(r, [at |-> "store", store |-> s, active |-> a])
        BY <3>2 DEF ReadStore
      <4> QED BY <4>1 DEF Requested, StoreJob
    <3> QED BY <1>3, <3>1, <3>2
  <2>5. req' \in [Requests -> Requested] /\ begun' \in 0..MaxBegun
    BY <2>4, BeginTypes
  <2> QED BY <1>3, <2>5 DEF ReadSub, ReadStore, TypesHold, tables, history
<1> QED BY <1>1, <1>2, <1>3 DEF Begins

LEMMA StepTypes ==
  ASSUME TypesHold, NEW r \in Requests, Step(r) \/ Fail(r)
  PROVE  TypesHold'
<1>0. Idle \in Requested /\ \A i \in Invoices, s \in Stores, at \in {"ask", "tell"} :
        [at |-> at, inv |-> i, store |-> s] \in Requested
  BY DEF Requested, NoticeJob
<1>1. CASE Number(r)
  <2>1. req[r] \in InvoiceJob
    BY <1>1, JobTypes DEF Number
  <2>2. PICK i \in Invoices : i = req[r].inv
    BY <2>1 DEF InvoiceJob
  <2>3. PICK due \in Nat, s \in Stores : due = req[r].copy.due /\ s = req[r].copy.store
    BY <2>1 DEF InvoiceJob, Inv, Date
  <2>4. PICK top \in Nat : top = Largest({inv[j].number : j \in Invoices})
    <3>1. PICK number \in [Invoices -> Nat] : number = [j \in Invoices |-> inv[j].number]
      <4>1. [j \in Invoices |-> inv[j].number] \in [Invoices -> Nat]
        BY DEF TypesHold, Inv
      <4> QED BY <4>1
    <3>2. {number[j] : j \in Invoices} = {inv[j].number : j \in Invoices}
      BY <3>1
    <3>3. Largest({number[j] : j \in Invoices}) \in Nat
      BY LargestNumber
    <3> QED BY <3>2, <3>3
  <2>5. PICK copy : copy = [status |-> "ISSUED", number |-> top + 1,
                           due |-> IF due = 0 THEN today + DueDays ELSE due, store |-> s]
    OBVIOUS
  <2>6. copy \in Inv
    BY <2>5, BillingConstants DEF Inv, InvStatus, Date, TypesHold
  <2>7. PICK job : job = [at |-> "save", inv |-> i, sent |-> FALSE, copy |-> copy]
    OBVIOUS
  <2>8. job \in Requested
    BY <2>6, <2>7 DEF Requested, InvoiceJob
  <2>9. req' = [req EXCEPT ![r] = job]
    BY <1>1, <2>2, <2>3, <2>4, <2>5, <2>7 DEF Number
  <2>10. req' \in [Requests -> Requested]
    BY <2>8, <2>9, RequestTypes
  <2> QED BY <1>1, <2>10 DEF Number, TypesHold, tables, history
<1>2. CASE Save(r)
  <2>1. req[r] \in InvoiceJob
    BY <1>2, JobTypes DEF Save
  <2>2. PICK i \in Invoices, copy \in Inv : i = req[r].inv /\ copy = req[r].copy
    BY <2>1 DEF InvoiceJob
  <2>3. /\ inv' = [inv EXCEPT ![i] = copy]
        /\ anchors' = [anchors EXCEPT ![StoreOf[i]] = IF copy.status = "ISSUED" THEN @ \cup ({copy.due} \ {0}) ELSE @]
        /\ req' = [req EXCEPT ![r] = IF copy.status = "ISSUED"
                                      THEN [at |-> "ask", inv |-> i, store |-> copy.store] ELSE Idle]
    BY <1>2, <2>2 DEF Save
  <2>4. req' \in [Requests -> Requested]
    <3>1. PICK job \in Requested :
            job = IF copy.status = "ISSUED" THEN [at |-> "ask", inv |-> i, store |-> copy.store] ELSE Idle
      BY <1>0 DEF Inv
    <3> QED BY <2>3, <3>1, RequestTypes
  <2>5. inv' \in [Invoices -> Inv]
    BY <2>3 DEF TypesHold
  <2>6. anchors' \in [Stores -> SUBSET Date]
    BY <2>3, BillingConstants DEF TypesHold, Inv
  <2>7. overtaken' \subseteq Requests
    BY <1>2 DEF Save, Overtakes, Holding, TypesHold
  <2> QED BY <1>2, <2>4, <2>5, <2>6, <2>7 DEF Save, Disturbed, TypesHold
<1>3. CASE NumberTaken(r) \/ Ask(r) \/ Fail(r)
  <2>1. PICK job \in Requested : req' = [req EXCEPT ![r] = job]
    <3>1. CASE Ask(r)
      <4>1. req[r] \in NoticeJob
        BY <3>1, JobTypes DEF Ask
      <4>2. req[r].inv \in Invoices /\ req[r].store \in Stores
        BY <4>1 DEF NoticeJob
      <4>3. PICK job \in Requested :
              job = IF notices[req[r].inv][req[r].store] = 0
                    THEN [at |-> "tell", inv |-> req[r].inv, store |-> req[r].store] ELSE Idle
        BY <1>0, <4>2
      <4>4. req' = [req EXCEPT ![r] = job]
        BY <3>1, <4>3 DEF Ask, TypesHold
      <4> QED BY <4>4
    <3>2. CASE NumberTaken(r) \/ Fail(r)
      BY <1>0, <3>2 DEF NumberTaken, Fail, Answered
    <3> QED BY <1>3, <3>1, <3>2
  <2>2. req' \in [Requests -> Requested]
    BY <2>1, RequestTypes
  <2> QED BY <1>3, <2>2 DEF NumberTaken, Ask, Fail, ReadsAnew, TypesHold, tables
<1>4. CASE Tell(r)
  <2>1. req[r] \in NoticeJob
    BY <1>4, JobTypes DEF Tell
  <2>2. PICK i \in Invoices, s \in Stores : i = req[r].inv /\ s = req[r].store
    BY <2>1 DEF NoticeJob
  <2>3. notices' \in [Invoices -> [Stores -> Nat]] /\ overtaken' \subseteq Requests
    BY <1>4, <2>2 DEF Tell, Overtakes, Asked, TypesHold
  <2>4. req' \in [Requests -> Requested]
    BY <1>0, <1>4, RequestTypes DEF Tell, Answered
  <2> QED BY <1>4, <2>3, <2>4 DEF Tell, TypesHold
<1>5. CASE SaveSub(r)
  <2>1. req[r] \in SubJob
    BY <1>5, JobTypes DEF SaveSub
  <2>2. PICK s \in Stores, copy \in Sub : s = req[r].store /\ copy = req[r].copy
    BY <2>1 DEF SubJob
  <2>3. sub' = [sub EXCEPT ![s] = copy] /\ anchors' = [anchors EXCEPT ![s] = @ \cup ({copy.trial} \ {0})]
    BY <1>5, <2>2 DEF SaveSub
  <2>4. sub' \in [Stores -> Sub] /\ anchors' \in [Stores -> SUBSET Date]
    BY <2>3 DEF TypesHold, Sub
  <2>5. patched' \in [Runs -> SUBSET Stores]
    BY <1>5, <2>2 DEF SaveSub, TypesHold
  <2>6. req' \in [Requests -> Requested]
    BY <1>0, <1>5, RequestTypes DEF SaveSub, Answered
  <2> QED BY <1>5, <2>4, <2>5, <2>6 DEF SaveSub, Disturbed, TypesHold
<1>6. CASE SaveStore(r)
  <2>1. req[r] \in StoreJob
    BY <1>6, JobTypes DEF SaveStore
  <2>2. PICK s \in Stores, a \in BOOLEAN : s = req[r].store /\ a = req[r].active
    BY <2>1 DEF StoreJob
  <2>3. active' \in [Stores -> BOOLEAN]
    BY <1>6, <2>2 DEF SaveStore, TypesHold
  <2>4. req' \in [Requests -> Requested]
    BY <1>0, <1>6, RequestTypes DEF SaveStore, Answered
  <2> QED BY <1>6, <2>3, <2>4 DEF SaveStore, Disturbed, TypesHold
<1> QED BY <1>1, <1>2, <1>3, <1>4, <1>5, <1>6 DEF Step

LEMMA CycleTypes ==
  ASSUME TypesHold, NEW c \in Runs, Start(c) \/ Cycle(c) \/ Kill(c)
  PROVE  TypesHold'
<1>1. PICK job \in Run : job = run[c]
  BY DEF TypesHold
<1>4. job.list \in SUBSET Stores
  BY DEF Run
<1>5. CASE Start(c)
  <2>1. run' = [run EXCEPT ![c] = [job EXCEPT !.at = "trials", !.day = today]]
    BY <1>1, <1>5 DEF Start, TypesHold
  <2>2. PICK now \in Date : now = today
    BY BillingConstants DEF TypesHold, Date
  <2>5. [job EXCEPT !.at = "trials", !.day = now] \in Run
    BY DEF Run
  <2>3. run' \in [Runs -> Run]
    BY <2>1, <2>2, <2>5 DEF TypesHold
  <2>4. begun' \in 0..MaxBegun
    BY <1>5, BillingConstants DEF Start, TypesHold
  <2> QED BY <1>5, <2>3, <2>4 DEF Start, TypesHold, tables
<1>6. ASSUME NEW here, NEW there \in {"expire", "owing", "flag"}, NEW list \in SUBSET Stores, Query(c, here, there, list)
      PROVE  TypesHold'
  <2>1. run' = [run EXCEPT ![c] = [job EXCEPT !.at = there, !.list = list]]
    BY <1>1, <1>6 DEF Query, TypesHold
  <2>2. [job EXCEPT !.at = there, !.list = list] \in Run
    BY DEF Run
  <2>3. run' \in [Runs -> Run]
    BY <2>1, <2>2 DEF TypesHold
  <2> QED BY <1>6, <2>3 DEF Query, TypesHold, tables, history
<1>7. CASE Trials(c) \/ Owing(c) \/ Unflagged(c)
  <2>1. \A i \in Invoices : StoreOf[i] \in Stores
    BY BillingConstants
  <2>2. /\ {s \in Stores : sub[s].status = "TRIAL" /\ sub[s].trial # 0 /\ sub[s].trial < run[c].day} \in SUBSET Stores
        /\ {StoreOf[i] : i \in {j \in Invoices : Overdue(j, run[c].day)}} \in SUBSET Stores
        /\ {s \in run[c].list : sub[s].status \notin {"PAST_DUE", "CANCELLED"}} \in SUBSET Stores
    BY <1>1, <1>4, <2>1
  <2> QED BY <1>6, <1>7, <2>2 DEF Trials, Owing, Unflagged
<1>8. CASE PastDue(c)
  <2>1. PICK trial \in [Stores -> Date] : trial = [s \in Stores |-> sub[s].trial]
    <3>1. [s \in Stores |-> sub[s].trial] \in [Stores -> Date]
      BY DEF TypesHold, Sub
    <3> QED BY <3>1
  <2>2. PICK list \in SUBSET Stores : list = PastDueStores
    BY DEF PastDueStores
  <2>3. run' = [run EXCEPT ![c] = [job EXCEPT !.at = "judge", !.list = list, !.trial = trial]]
    BY <1>1, <1>8, <2>1, <2>2 DEF PastDue, TypesHold
  <2>4. [job EXCEPT !.at = "judge", !.list = list, !.trial = trial] \in Run
    BY DEF Run
  <2>5. run' \in [Runs -> Run]
    BY <2>3, <2>4 DEF TypesHold
  <2> QED BY <1>8, <2>5 DEF PastDue, TypesHold, tables, history
<1>9. ASSUME NEW s \in Stores, Mark(c, s) \/ Spare(c, s) \/ Condemn(c, s) \/ Suspend(c, s) PROVE TypesHold'
  <2>1. /\ [job EXCEPT !.list = @ \ {s}] \in Run
        /\ [job EXCEPT !.list = @ \ {s}, !.doomed = {s}] \in Run
        /\ [job EXCEPT !.doomed = {}] \in Run
    BY DEF Run
  <2>2. PICK next \in Run : run' = [run EXCEPT ![c] = next]
    <3>1. \/ run' = [run EXCEPT ![c] = [job EXCEPT !.list = @ \ {s}]]
          \/ run' = [run EXCEPT ![c] = [job EXCEPT !.list = @ \ {s}, !.doomed = {s}]]
          \/ run' = [run EXCEPT ![c] = [job EXCEPT !.doomed = {}]]
      BY <1>1, <1>9 DEF Mark, Spare, Condemn, Suspend, TypesHold
    <3> QED BY <2>1, <3>1
  <2>3. run' \in [Runs -> Run]
    BY <2>2 DEF TypesHold
  <2>4. sub' \in [Stores -> Sub]
    <3>1. "PAST_DUE" \in SubStatus
      BY DEF SubStatus
    <3>2. UNCHANGED sub \/ sub' = [sub EXCEPT ![s].status = "PAST_DUE"]
      BY <1>9 DEF Mark, Spare, Condemn, Suspend, tables
    <3> QED BY <3>1, <3>2 DEF TypesHold, Sub
  <2>5. active' \in [Stores -> BOOLEAN]
    BY <1>9 DEF Mark, Spare, Condemn, Suspend, TypesHold, tables
  <2>6. quiet' \subseteq Runs
    BY <1>9 DEF Mark, Spare, Condemn, Suspend, TypesHold, tables, history
  <2>7. settled' \in BOOLEAN
    BY <1>9 DEF Mark, Spare, Condemn, Suspend, TypesHold, tables, history
  <2>8. UNCHANGED <<today, inv, notices, req, begun, anchors, patched, overtaken>>
    BY <1>9 DEF Mark, Spare, Condemn, Suspend, tables, history
  <2> QED BY <2>3, <2>4, <2>5, <2>6, <2>7, <2>8 DEF TypesHold
<1>10. CASE Finish(c) \/ Kill(c)
  <2>1. Off \in Run
    BY DEF Off, Run, Date
  <2>2. run' \in [Runs -> Run]
    BY <1>10, <2>1 DEF Finish, Kill, TypesHold
  <2>3. patched' \in [Runs -> SUBSET Stores] /\ quiet' \subseteq Runs
    BY <1>10 DEF Finish, Kill, TypesHold
  <2>4. settled' \in BOOLEAN
    BY <1>10 DEF Finish, Kill, TypesHold
  <2>5. UNCHANGED <<today, tables, req, begun, anchors, overtaken>>
    BY <1>10 DEF Finish, Kill
  <2> QED BY <2>2, <2>3, <2>4, <2>5 DEF TypesHold, tables
<1> QED BY <1>5, <1>7, <1>8, <1>9, <1>10 DEF Cycle

LEMMA TypesStep == TypesHold /\ [Next]_vars => TypesHold'
<1> SUFFICES ASSUME TypesHold, [Next]_vars PROVE TypesHold'
  OBVIOUS
<1>1. ASSUME NEW i \in Invoices, NEW due \in DueDates, CreateDraft(i, due) PROVE TypesHold'
  <2>1. Draft(i, due) \in Inv
    BY BillingConstants DEF Draft, Inv, InvStatus, Date
  <2>2. inv' \in [Invoices -> Inv]
    BY <1>1, <2>1 DEF CreateDraft, Insert, TypesHold
  <2> QED BY <1>1, <2>2 DEF CreateDraft, Insert, Disturbed, TypesHold
<1>2. CASE Tick
  <2>1. today' \in 1..LastDay
    BY <1>2, BillingConstants DEF Tick, TypesHold
  <2> QED BY <1>2, <2>1 DEF Tick, Disturbed, TypesHold, tables
<1>3. CASE UNCHANGED vars
  BY <1>3 DEF vars, tables, history, TypesHold
<1> QED BY <1>1, <1>2, <1>3, BeginsTypes, StepTypes, CycleTypes DEF Next

\* Every variable keeps its type: a number counts on from the largest of finitely many.
THEOREM Typing == Spec => []TypeOK
  BY TypesInit, TypesStep, TypesAreTypes, PTL DEF Spec
=============================================================================
