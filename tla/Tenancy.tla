------------------------------ MODULE Tenancy ------------------------------
(***************************************************************************)
(* The tenant of a request.  The middleware notes the request in a         *)
(* thread-local, the authentication notes its store there, the managers    *)
(* of the models scope every query to it, and the middleware forgets both  *)
(* when the response is made.                                              *)
(*                                                                         *)
(* A query is represented by the set of stores whose rows it may return.   *)
(***************************************************************************)
EXTENDS Workers

CONSTANTS
  Stores,
  NoStore,
  Suspended,  \* stores that are suspended or deleted
  Roles       \* ROLE_RANK of the roles

ASSUME TenancyAssumption == NoStore \notin Stores /\ Suspended \subseteq Stores /\ Roles \subseteq Nat

VARIABLES
  thread    \* per slot: the thread-local of the worker

tenancyVars == <<thread>>

AnyStore == Stores \cup {NoStore}

Blank == [request |-> FALSE, store |-> NoStore]

TenancyInit == thread = [w \in Workers |-> Blank]

\* set_current_request: the store is not known yet.
Noted(w) == [thread EXCEPT ![w].request = TRUE]

Forgotten(w) == [thread EXCEPT ![w] = Blank]

\* Mutant: the request is forgotten and its store is not.
ForgottenRequest(w) == [thread EXCEPT ![w].request = FALSE]

----------------------------------------------------------------------------
(* Users, roles and keys. *)

User == [super : BOOLEAN, home : AnyStore, active : BOOLEAN, role : Roles]

\* The platform's own users rank above every role.
AtLeast(user, required) == user.super \/ user.role >= required

\* RoleScopedPermission: an action without an entry in role_map is the owner's.
Permitted(user, required) == user.active /\ AtLeast(user, required)

Levels == {"read", "write"}

APIKey == [store : Stores, scopes : SUBSET Levels, active : BOOLEAN, expired : BOOLEAN]

\* A key that was revoked or has expired authenticates nobody.
Resolves(key) == key.active /\ ~key.expired

\* HasAPIScope: no scope, no access; the right to write is the right to read.
Grants(scopes, level) == level \in scopes \/ (level = "read" /\ "write" \in scopes)

\* For sudo a header names the store to act in; one that is not open means none.
ActingStore(user, header) ==
  IF user.super /\ header # "absent"
  THEN IF header \in Stores \ Suspended THEN header ELSE NoStore
  ELSE user.home

\* get_current_store: the thread's store, else that of the user of the live request.
CurrentStore(w) ==
  IF thread[w].store # NoStore THEN thread[w].store
  ELSE IF thread[w].request THEN req[w].acting ELSE NoStore

\* What a tenant-scoped manager returns, on this thread and at this moment.
Scoped(w) == IF CurrentStore(w) = NoStore THEN Stores ELSE {CurrentStore(w)}

----------------------------------------------------------------------------
(* A request. *)

Arrive(w) ==
  /\ Begin(w, [at |-> "auth", acting |-> NoStore, super |-> FALSE, seen |-> {}, named |-> {}])
  /\ thread' = Noted(w)

Arm(w, store, super) ==
  /\ thread' = [thread EXCEPT ![w].store = store]
  /\ Proceed(w, [req[w] EXCEPT !.at = "view", !.acting = store, !.super = super])

\* A request that its user's role does not permit is answered before the view reads anything.
ByToken(w) ==
  /\ At(w, "auth")
  /\ \E user \in User, header \in AnyStore \cup {"absent"}, required \in Roles :
       /\ user.super \/ user.home # NoStore
       /\ Permitted(user, required)
       /\ Arm(w, ActingStore(user, header), user.super)

\* A key binds the request to its store, and the user who made it to that store, whose role counts.
ByKey(w) ==
  /\ At(w, "auth")
  /\ \E key \in APIKey, user \in User, required \in Roles, level \in Levels :
       /\ Resolves(key) /\ user.home = key.store
       /\ Permitted(user, required) /\ Grants(key.scopes, level)
       /\ Arm(w, key.store, user.super)

\* The endpoints open to anyone (login, refresh, logout) authenticate nobody.
ByNobody(w) ==
  /\ At(w, "auth")
  /\ Proceed(w, [req[w] EXCEPT !.at = "view"])
  /\ UNCHANGED thread

Query(w) ==
  /\ At(w, "view")
  /\ Proceed(w, [req[w] EXCEPT !.seen = @ \cup Scoped(w)])
  /\ UNCHANGED thread

\* sudo's own views ask all_objects, for one store or for all, whatever store is acted in.
QueryAcross(w) ==
  /\ At(w, "view") /\ req[w].super
  /\ \E stores \in {Stores} \cup {{s} : s \in Stores} :
       Proceed(w, [req[w] EXCEPT !.seen = @ \cup stores, !.named = @ \cup stores])
  /\ UNCHANGED thread

\* The response is made, the request refused, or an exception raised: the finally clause runs.
Respond(w) ==
  /\ req[w].at \in {"auth", "view"}
  /\ thread' = Forgotten(w)
  /\ Answer(w)

TenancySteps(w) == Arrive(w) \/ ByToken(w) \/ ByKey(w) \/ ByNobody(w) \/ Query(w) \/ QueryAcross(w) \/ Respond(w)

TenancyTypeOK == thread \in [Workers -> [request : BOOLEAN, store : AnyStore]]

\* A tenant's request sees the rows of its store and no other.  One of sudo that acts for a store
\* sees others only where it asks for them, through a view or a tool of the platform or by naming the
\* store to a reading tool: never through a tenant manager or a tool bound to the acting store.  One
\* that acts for no store is restricted by nothing, least of all by the store that an earlier request
\* of its thread acted for.
EachSeesItsStore ==
  \A w \in Workers :
    /\ At(w, "view") /\ ~req[w].super /\ req[w].acting # NoStore => req[w].seen \subseteq {req[w].acting}
    /\ At(w, "view") /\ req[w].acting = NoStore => req[w].seen \in {req[w].named, Stores}
    /\ req[w].at \in {"view", "hop", "tools", "rest", "store"} /\ req[w].acting # NoStore =>
         req[w].seen \subseteq {req[w].acting} \cup req[w].named
=============================================================================
