------------------------------ MODULE Services ------------------------------
(***************************************************************************)
(* Service orders (Service): a repair taken in, done, billed by a sales    *)
(* invoice, and announced by the bell when its time comes near.            *)
(*                                                                         *)
(* Requests read a row and later save it, most of them with all its        *)
(* columns; the notifier (check_service_notifications) walks a list of     *)
(* rows read at its start, and is run by cron and by managers.             *)
(*                                                                         *)
(* Time is counted in hours.  Left out: clients, text, and the update      *)
(* notification of an edit: Notification has no column for the recipient   *)
(* it names, so building it fails, after the row was saved.                *)
(***************************************************************************)
EXTENDS Workers

CONSTANTS
  ServiceIds,    \* rows of Service
  Etas,          \* eta_datetime of a service that has one
  NoEta,         \* no_eta is set
  NotifyHours,   \* StoreSettings.service_notify_hours
  LastHour       \* bound: hours

ASSUME ServicesAssumption ==
  /\ IsFiniteSet(ServiceIds)
  /\ Etas \subseteq Nat /\ NoEta \notin Nat
  /\ NotifyHours \in Nat
  /\ LastHour \in Nat

VARIABLES
  now,
  services,    \* the table
  issued,      \* ServiceSequence.last_number
  invoices,    \* sales invoices made for each service
  bells,       \* notifications sent for each service
  byhand,      \* history: services whose DONE was written by hand, which bills nothing
  undone,      \* history: services with overlapping edits, or whose DONE was taken back
  unsteady     \* history: services the notifier left half-way, or saved by others from a copy

serviceTables  == <<services, issued, invoices, bells>>
serviceHistory == <<byhand, undone, unsteady>>
serviceVars    == <<now, serviceTables, serviceHistory>>

ServiceStatus == {"OPEN", "DONE", "CANCELLED", "ARCHIVED", "RETURNED"}
Service == [state : {"none", "live", "deleted"}, status : ServiceStatus, serial : Nat,
            bell : BOOLEAN, notified : BOOLEAN, eta : Etas \cup {NoEta}]

NoService == [state |-> "none", status |-> "OPEN", serial |-> 0, bell |-> FALSE,
              notified |-> FALSE, eta |-> NoEta]

ServicesInit ==
  /\ now = 0
  /\ services = [s \in ServiceIds |-> NoService]
  /\ issued = 0
  /\ invoices = [s \in ServiceIds |-> 0]
  /\ bells = [s \in ServiceIds |-> 0]
  /\ byhand = {}
  /\ undone = {}
  /\ unsteady = {}

\* The next serial number is taken under a lock, in a transaction that may commit for nothing.  The
\* status is whatever was sent.
CreateService(w, s) ==
  /\ services[s].state = "none"
  /\ AtOnce(w)
  /\ issued' = issued + 1
  /\ \E status \in ServiceStatus, eta \in Etas \cup {NoEta}, bell \in BOOLEAN :
       /\ services' = [services EXCEPT ![s] = [NoService EXCEPT !.state = "live", !.status = status, !.eta = eta,
                                                                !.serial = issued + 1, !.bell = bell]]
       /\ byhand' = IF status = "DONE" THEN byhand \cup {s} ELSE byhand
  /\ UNCHANGED <<now, invoices, bells, undone, unsteady>>

Editing == {"service.save", "service.bill", "service.bell", "service.return"}
OnService(s) == {w \in Workers : req[w].at \in Editing /\ req[w].row = s}

ReadService(w, s, at, copy) ==
  /\ services[s].state = "live"
  /\ Begin(w, [at |-> at, row |-> s, copy |-> copy])
  /\ undone' = IF OnService(s) = {} THEN undone ELSE undone \cup {s}
  /\ UNCHANGED <<now, serviceTables, byhand, unsteady>>

With(s, status) == [services[s] EXCEPT !.status = status]

\* Mutant: done refuses cancelled services only.
DoneAgain(w, s) == services[s].status # "CANCELLED" /\ ReadService(w, s, "service.bill", With(s, "DONE"))

\* done refuses DONE and CANCELLED; archived and returned services pass.
Done(w, s) ==
  services[s].status \notin {"DONE", "CANCELLED"} /\ ReadService(w, s, "service.bill", With(s, "DONE"))

Cancel(w, s) ==
  /\ services[s].status \notin {"DONE", "CANCELLED", "ARCHIVED"}
  /\ ReadService(w, s, "service.save", With(s, "CANCELLED"))

Archive(w, s) ==
  services[s].status \in {"DONE", "CANCELLED"} /\ ReadService(w, s, "service.save", With(s, "ARCHIVED"))

Return(w, s) == services[s].status = "DONE" /\ ReadService(w, s, "service.return", services[s])

ToggleBell(w, s) ==
  ReadService(w, s, "service.bell", [services[s] EXCEPT !.bell = ~services[s].bell])

\* The serializer lets a manager write the status, the bell and the ETA.
EditService(w, s) ==
  \/ \E status \in ServiceStatus : ReadService(w, s, "service.save", With(s, status))
  \/ \E eta \in Etas \cup {NoEta} : ReadService(w, s, "service.save", [services[s] EXCEPT !.eta = eta])

DeleteService(w, s) == ReadService(w, s, "service.save", [services[s] EXCEPT !.state = "deleted"])

Billed == {"DONE", "ARCHIVED", "RETURNED"}

\* History: writing `copy` over the row takes a DONE back, or an announcement.
Overwrite(s, copy) ==
  /\ services' = [services EXCEPT ![s] = copy]
  /\ undone' = IF services[s].status \in Billed /\ copy.status # services[s].status
               THEN undone \cup {s} ELSE undone
  /\ unsteady' = IF services[s].notified # copy.notified THEN unsteady \cup {s} ELSE unsteady

SaveService(w) ==
  /\ At(w, "service.save")
  /\ Overwrite(req[w].row, req[w].copy)
  /\ byhand' = IF req[w].copy.status = "DONE" /\ services[req[w].row].status # "DONE"
               THEN byhand \cup {req[w].row} ELSE byhand
  /\ Answer(w)
  /\ UNCHANGED <<now, issued, invoices, bells>>

\* One transaction: the invoice, posted at once and without lines, and the row.
Bill(w) ==
  /\ At(w, "service.bill")
  /\ Overwrite(req[w].row, req[w].copy)
  /\ invoices' = [invoices EXCEPT ![req[w].row] = @ + 1]
  /\ Answer(w)
  /\ UNCHANGED <<now, issued, bells, byhand>>

\* update_fields: the bell and the return write one column.
SaveBell(w) ==
  /\ At(w, "service.bell")
  /\ services' = [services EXCEPT ![req[w].row].bell = req[w].copy.bell]
  /\ Answer(w)
  /\ UNCHANGED <<now, issued, invoices, bells, serviceHistory>>

SaveReturn(w) ==
  /\ At(w, "service.return")
  /\ services' = [services EXCEPT ![req[w].row].status = "RETURNED"]
  /\ undone' = undone \cup {req[w].row}
  /\ Answer(w)
  /\ UNCHANGED <<now, issued, invoices, bells, byhand, unsteady>>

----------------------------------------------------------------------------
(* check_service_notifications *)

Due(eta, at) == eta # NoEta /\ eta - at \in 0..NotifyHours

Candidates == {s \in ServiceIds : services[s].state = "live" /\ services[s].bell /\ ~services[s].notified
                                    /\ services[s].status = "OPEN" /\ services[s].eta # NoEta}

\* Services that two runs may be about to announce.
Announcing(W) == UNION {req[w].list : w \in {u \in W : At(u, "notify")}}

\* A run reads its candidates and the time; those not due, and all when the setting is 0, are skipped.
ListDue(w) ==
  LET list == IF NotifyHours = 0 THEN {} ELSE {s \in Candidates : Due(services[s].eta, now)} IN
  /\ Begin(w, [at |-> "notify", list |-> list, told |-> {}])
  /\ unsteady' = unsteady \cup (list \cap Announcing(Workers))
  /\ UNCHANGED <<now, serviceTables, byhand, undone>>

\* send_notification commits before the flag is saved.
TellService(w, s) ==
  /\ At(w, "notify")
  /\ req[w].told = {} /\ s \in req[w].list
  /\ bells' = [bells EXCEPT ![s] = @ + 1]
  /\ Proceed(w, [req[w] EXCEPT !.told = {s}])
  /\ UNCHANGED <<now, services, issued, invoices, serviceHistory>>

\* Mutant: the flag is not saved.
ForgetFlag(w, s) ==
  /\ At(w, "notify")
  /\ req[w].told = {s}
  /\ Proceed(w, [req[w] EXCEPT !.told = {}, !.list = @ \ {s}])
  /\ UNCHANGED serviceVars

FlagService(w, s) ==
  /\ At(w, "notify")
  /\ req[w].told = {s}
  /\ services' = [services EXCEPT ![s].notified = TRUE]
  /\ Proceed(w, [req[w] EXCEPT !.told = {}, !.list = @ \ {s}])
  /\ UNCHANGED <<now, issued, invoices, bells, serviceHistory>>

RunEnds(w) ==
  /\ At(w, "notify")
  /\ req[w].list = {}
  /\ Answer(w)
  /\ UNCHANGED serviceVars

\* A run that dies leaves a service told and not flagged.
DieServing(w) ==
  /\ Crash(w)
  /\ unsteady' = IF At(w, "notify") THEN unsteady \cup req[w].told ELSE unsteady
  /\ UNCHANGED <<now, serviceTables, byhand, undone>>

Hour ==
  /\ now < LastHour
  /\ now' = now + 1
  /\ UNCHANGED <<slots, serviceTables, serviceHistory>>

ServiceSteps(w) ==
  \/ \E s \in ServiceIds :
       \/ CreateService(w, s) \/ Done(w, s) \/ Cancel(w, s) \/ Archive(w, s) \/ Return(w, s)
       \/ ToggleBell(w, s) \/ EditService(w, s) \/ DeleteService(w, s)
       \/ TellService(w, s) \/ FlagService(w, s)
  \/ SaveService(w) \/ Bill(w) \/ SaveBell(w) \/ SaveReturn(w) \/ ListDue(w) \/ RunEnds(w)

ServicesTypeOK ==
  /\ now \in 0..LastHour
  /\ services \in [ServiceIds -> Service]
  /\ issued \in Nat
  /\ invoices \in [ServiceIds -> Nat] /\ bells \in [ServiceIds -> Nat]
  /\ byhand \subseteq ServiceIds /\ undone \subseteq ServiceIds /\ unsteady \subseteq ServiceIds

\* A service has one invoice at most, and one with an invoice is DONE, ARCHIVED or RETURNED; one that
\* became DONE has its invoice, unless that DONE was sent to create or to edit it.  It takes
\* overlapping requests, or a status taken back, for there to be two, or one and no DONE.
BilledOnce ==
  \A s \in ServiceIds \ undone :
    /\ invoices[s] <= 1
    /\ invoices[s] = 1 => services[s].status \in Billed
    /\ services[s].status = "DONE" /\ s \notin byhand => invoices[s] = 1

\* The bell rings at most once for a service, whoever runs the notifier and however often, unless
\* two runs overlap, one dies between telling and flagging, or a save writes an old flag back.
ToldOnce == \A s \in ServiceIds \ unsteady : bells[s] <= 1
=============================================================================
