-------------------------------- MODULE Audit --------------------------------
(***************************************************************************)
(* The isolation audit of the platform.  Sudo asks for it in a request     *)
(* like any other; it fabricates an empty store and a populated one in a   *)
(* transaction, asks the queryset of every door it discovers as the owner  *)
(* of the empty store, and rolls back.  Or it asks about real stores.      *)
(*                                                                         *)
(* A door is an endpoint with its model; of its rows only the stores that  *)
(* own some matter.  The managers scope the audit's own queries too, by    *)
(* the tenant of the request that asked for it.                            *)
(***************************************************************************)
EXTENDS Tenancy

CONSTANTS
  Doors,
  Prober, Seeded   \* the two fabricated stores

ASSUME AuditAssumption == Prober # Seeded /\ {Prober, Seeded} \cap AnyStore = {}

VARIABLES
  door,    \* what each door is
  data     \* the stores that own rows of its model

auditVars == <<door, data>>

\* area: a sudo endpoint, a model without a store, a view without a queryset, or a tenant's.
\* filters: get_queryset asks for the store of the user.  scoped: the model's manager is a tenant
\* manager.  raises: get_queryset fails when it is called on its own.
Door == [area : {"admin", "global", "manual"}, filters : {FALSE}, scoped : {FALSE}, raises : {FALSE}]
          \cup [area : {"tenant"}, filters : BOOLEAN, scoped : BOOLEAN, raises : BOOLEAN]

AuditInit ==
  /\ door \in [Doors -> Door]
  /\ data \in [Doors -> SUBSET Stores]

NoDoors ==
  /\ door = [d \in Doors |-> [area |-> "admin", filters |-> FALSE, scoped |-> FALSE, raises |-> FALSE]]
  /\ data = [d \in Doors |-> {}]

----------------------------------------------------------------------------
(* discover_endpoints, _check_endpoint, _summarize *)

Probed == {d \in Doors : door[d].area = "tenant"}

\* What a manager of the door's model returns on this thread, of stores that own rows.
Visible(w, d, owners) ==
  IF door[d].scoped /\ CurrentStore(w) # NoStore THEN owners \cap {CurrentStore(w)} ELSE owners

Returned(w, d, owners, store) ==
  IF door[d].filters THEN Visible(w, d, owners) \cap {store} ELSE Visible(w, d, owners)

Status(w, d, owners, store) ==
  IF door[d].raises THEN "error"
  ELSE IF Returned(w, d, owners, store) \ {store} # {} THEN "leak"
  ELSE IF Visible(w, d, owners) \ {store} # {} THEN "isolated"
  ELSE "no_foreign_data"

\* Mutant: the number of isolated doors is looked at first.
SummarizeIsolated(statuses) ==
  IF "isolated" \in statuses THEN "PASS" ELSE IF "leak" \in statuses THEN "FAIL" ELSE "INCONCLUSIVE"

Summarize(statuses) ==
  IF "leak" \in statuses THEN "FAIL" ELSE IF "isolated" \in statuses THEN "PASS" ELSE "INCONCLUSIVE"

----------------------------------------------------------------------------
(* The request *)

Reporting(w, mode, seeds, status) ==
  Proceed(w, [at |-> "report", acting |-> req[w].acting, mode |-> mode, seeds |-> seeds, status |-> status])

\* Each seeded row has a savepoint: those that fail are left out, with a warning.
AuditFabricated(w) ==
  /\ At(w, "view") /\ req[w].super
  /\ \E seeds \in SUBSET Doors :
       LET owners == [d \in Doors |-> data[d] \cup (IF d \in seeds THEN {Seeded} ELSE {})] IN
       Reporting(w, "self_contained", seeds, Summarize({Status(w, d, owners[d], Prober) : d \in Probed}))
  /\ UNCHANGED <<thread, auditVars>>

\* The store of the oldest tenant user; without one there is nothing to report.
AuditLive(w) ==
  /\ At(w, "view") /\ req[w].super
  /\ \/ \E store \in Stores :
          Reporting(w, "live", {}, Summarize({Status(w, d, data[d], store) : d \in Probed}))
     \/ Reporting(w, "live", {}, "INCONCLUSIVE")
  /\ UNCHANGED <<thread, auditVars>>

RespondReport(w) ==
  /\ At(w, "report")
  /\ thread' = Forgotten(w)
  /\ Answer(w)
  /\ UNCHANGED auditVars

\* Requests share nothing here but rows that they only read, so one at a time is enough.
AuditNext ==
  \E w \in Workers :
    /\ \A x \in Others(w) : req[x] = Idle
    /\ \/ TenancySteps(w) /\ UNCHANGED auditVars
       \/ AuditFabricated(w) \/ AuditLive(w) \/ RespondReport(w)

AuditSpec == SlotsInit /\ TenancyInit /\ AuditInit /\ [][AuditNext]_<<slots, tenancyVars, auditVars>>

AuditTypeOK == TenancyTypeOK /\ door \in [Doors -> Door] /\ data \in [Doors -> SUBSET Stores]

\* A door that forgot to filter is never passed by an audit of fabricated stores whose rows were
\* seeded, when sudo acts in no store: what real stores own, and what other doors answer, cannot
\* hide it.  Acting in a store hides it: the managers keep the seeded rows from the audit itself.
AuditHonest ==
  \A w \in Workers :
    At(w, "report") /\ req[w].mode = "self_contained" /\ req[w].acting = NoStore =>
      \A d \in Probed \cap req[w].seeds :
        ~door[d].filters /\ ~door[d].raises => req[w].status = "FAIL"
=============================================================================
