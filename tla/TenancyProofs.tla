---------------------------- MODULE TenancyProofs ----------------------------
(***************************************************************************)
(* Proofs that requests are kept to their store, EachSeesItsStore, with    *)
(* the assistant whose turns outlive their request, that a transcript      *)
(* tells of every tool call, TurnsRecorded, and that the audit of          *)
(* fabricated stores does not pass a door without a filter, AuditHonest.   *)
(*                                                                         *)
(* All rest on what the thread of a request knows: nothing while it is    *)
(* idle or streams, the store the request acts for while it serves.        *)
(***************************************************************************)
EXTENDS Assistant, Audit, Sums

Served(w, store) == thread[w].request /\ thread[w].store = store
Forgot(w) == ~thread[w].request /\ thread[w].store = NoStore

\* What a request in its view has seen: what its store's managers return, and what sudo asked for.
Kept(acting, super, seen, named) ==
  /\ ~super => named = {}
  /\ IF acting = NoStore THEN seen \in {named, Stores} ELSE seen \subseteq {acting} \cup named

\* A slot that is idle, or serves a request like any other.
ServingOK(w) ==
  \/ req[w] = Idle /\ Forgot(w)
  \/ /\ req[w] \in [at : {"auth"}, acting : {NoStore}, super : BOOLEAN, seen : {{}}, named : {{}}]
     /\ Served(w, NoStore)
  \/ /\ req[w] \in [at : {"view"}, acting : AnyStore, super : BOOLEAN, seen : SUBSET Stores,
                    named : SUBSET Stores]
     /\ Served(w, req[w].acting)
     /\ Kept(req[w].acting, req[w].super, req[w].seen, req[w].named)

Slotted == req = [w \in Workers |-> req[w]] /\ TenancyTypeOK

LEMMA InitServing == SlotsInit /\ TenancyInit => Slotted /\ \A w \in Workers : ServingOK(w)
  BY DEF SlotsInit, TenancyInit, Slotted, TenancyTypeOK, ServingOK, Forgot, Blank, AnyStore

\* Where a request acts is a store, or none.
LEMMA ActingIsStore ==
  ASSUME NEW user \in User, NEW header \in AnyStore \cup {"absent"}
  PROVE  ActingStore(user, header) \in AnyStore
  BY DEF ActingStore, AnyStore, User

LEMMA AuthOK ==
  ASSUME NEW w \in Workers, ServingOK(w), req[w].at = "auth"
  PROVE  /\ req[w] = [at |-> "auth", acting |-> NoStore, super |-> req[w].super, seen |-> {}, named |-> {}]
         /\ req[w].super \in BOOLEAN /\ Served(w, NoStore)
<1>1. req[w] # Idle
  BY DEF Idle
<1>2. req[w] \notin [at : {"view"}, acting : AnyStore, super : BOOLEAN, seen : SUBSET Stores, named : SUBSET Stores]
  OBVIOUS
<1>3. /\ req[w] \in [at : {"auth"}, acting : {NoStore}, super : BOOLEAN, seen : {{}}, named : {{}}]
      /\ Served(w, NoStore)
  BY <1>1, <1>2, Zenon DEF ServingOK
<1> QED BY <1>3

LEMMA ArmStep ==
  ASSUME Slotted, NEW w \in Workers, ServingOK(w), req[w].at = "auth",
         NEW store \in AnyStore, NEW super \in BOOLEAN, Arm(w, store, super)
  PROVE  Slotted' /\ ServingOK(w)' /\ \A x \in Workers \ {w} : req'[x] = req[x] /\ thread'[x] = thread[x]
<1> DEFINE job == [at |-> "view", acting |-> store, super |-> super, seen |-> {}, named |-> {}]
<1>1. /\ req[w] = [at |-> "auth", acting |-> NoStore, super |-> req[w].super, seen |-> {}, named |-> {}]
      /\ Served(w, NoStore)
  BY AuthOK
<1>2. [req[w] EXCEPT !.at = "view", !.acting = store, !.super = super] = job
  <2> DEFINE first == [req[w] EXCEPT !.at = "view"]
             second == [first EXCEPT !.acting = store]
  <2>1. first = [at |-> "view", acting |-> NoStore, super |-> req[w].super, seen |-> {}, named |-> {}]
    BY <1>1
  <2> HIDE DEF first
  <2>2. second = [at |-> "view", acting |-> store, super |-> req[w].super, seen |-> {}, named |-> {}]
    BY <2>1
  <2> HIDE DEF second
  <2>3. [second EXCEPT !.super = super] = job
    BY <2>2
  <2> QED BY <2>3 DEF first, second
<1>3. req' = [req EXCEPT ![w] = job] /\ thread' = [thread EXCEPT ![w].store = store]
  BY <1>2 DEF Arm, Proceed
<1>4. req'[w] = job /\ Served(w, store)' /\ Slotted'
  BY <1>1, <1>3 DEF Slotted, TenancyTypeOK, Served
<1>5. Kept(store, super, {}, {})
  BY DEF Kept
<1>6. ServingOK(w)'
  BY <1>4, <1>5 DEF ServingOK
<1> QED BY <1>3, <1>4, <1>6 DEF Slotted

\* A request in its view, and what it is after a query.
View(r, seen, named) == [at |-> "view", acting |-> r.acting, super |-> r.super, seen |-> seen, named |-> named]

Viewing(w) ==
  /\ req[w] = View(req[w], req[w].seen, req[w].named)
  /\ req[w].super \in BOOLEAN /\ req[w].acting \in AnyStore
  /\ req[w].seen \subseteq Stores /\ req[w].named \subseteq Stores
  /\ Served(w, req[w].acting)
  /\ Kept(req[w].acting, req[w].super, req[w].seen, req[w].named)

LEMMA ViewFields ==
  ASSUME NEW r, r = View(r, r.seen, r.named), NEW a
  PROVE  [r EXCEPT !.seen = a] = View(r, a, r.named)
  BY DEF View

LEMMA ViewingOK ==
  ASSUME NEW w \in Workers, ServingOK(w), req[w].at = "view"
  PROVE  Viewing(w)
<1>1. /\ req[w] \in [at : {"view"}, acting : AnyStore, super : BOOLEAN, seen : SUBSET Stores,
                     named : SUBSET Stores]
      /\ Served(w, req[w].acting)
      /\ Kept(req[w].acting, req[w].super, req[w].seen, req[w].named)
  BY DEF ServingOK, Idle
<1> QED BY <1>1 DEF Viewing, View

LEMMA ViewStep ==
  ASSUME Slotted, NEW w \in Workers, Viewing(w), NEW seen, NEW named,
         seen \subseteq Stores, named \subseteq Stores,
         Kept(req[w].acting, req[w].super, seen, named),
         req' = [req EXCEPT ![w] = View(req[w], seen, named)], thread' = thread
  PROVE  Slotted' /\ ServingOK(w)' /\ \A x \in Workers \ {w} : req'[x] = req[x] /\ thread'[x] = thread[x]
<1>1. PICK job : job = View(req[w], seen, named)
  OBVIOUS
<1>2. req'[w] = job /\ Slotted' /\ \A x \in Workers \ {w} : req'[x] = req[x] /\ thread'[x] = thread[x]
  BY <1>1 DEF Slotted, TenancyTypeOK
<1>3. /\ job \in [at : {"view"}, acting : AnyStore, super : BOOLEAN, seen : SUBSET Stores, named : SUBSET Stores]
      /\ job.acting = req[w].acting /\ job.super = req[w].super /\ job.seen = seen /\ job.named = named
  BY <1>1 DEF View, Viewing
<1>4. Served(w, job.acting)'
  BY <1>3 DEF Served, Viewing
<1>5. ServingOK(w)'
  BY <1>2, <1>3, <1>4 DEF ServingOK
<1> QED BY <1>2, <1>5

\* Where a request like any other is when it takes a step.
LEMMA TenancyAt ==
  ASSUME NEW w \in Workers, TenancySteps(w)
  PROVE  req[w].at \in {"idle", "auth", "view"}
<1>1. CASE Arrive(w)
  BY <1>1 DEF Arrive, Begin, Idle
<1>2. CASE ByToken(w) \/ ByKey(w) \/ ByNobody(w)
  BY <1>2 DEF ByToken, ByKey, ByNobody, At
<1>3. CASE Query(w) \/ QueryAcross(w) \/ Respond(w)
  BY <1>3 DEF Query, QueryAcross, Respond, At
<1> QED BY <1>1, <1>2, <1>3 DEF TenancySteps

\* A step of a request like any other leaves its slot as it should be, and the others alone.
LEMMA TenancyStep ==
  ASSUME Slotted, NEW w \in Workers, ServingOK(w), TenancySteps(w)
  PROVE  Slotted' /\ ServingOK(w)' /\ \A x \in Workers \ {w} : req'[x] = req[x] /\ thread'[x] = thread[x]
<1>1. CASE Arrive(w)
  <2> DEFINE job == [at |-> "auth", acting |-> NoStore, super |-> FALSE, seen |-> {}, named |-> {}]
  <2>1. req[w] = Idle /\ Forgot(w)
    BY <1>1 DEF Arrive, Begin, ServingOK, Idle
  <2>2. req' = [req EXCEPT ![w] = job] /\ thread' = [thread EXCEPT ![w].request = TRUE]
    BY <1>1 DEF Arrive, Begin, Noted
  <2>3. req'[w] = job /\ Served(w, NoStore)'
    BY <2>1, <2>2 DEF Slotted, TenancyTypeOK, Served, Forgot
  <2>4. Slotted'
    BY <2>1, <2>2 DEF Slotted, TenancyTypeOK
  <2> QED BY <2>2, <2>3, <2>4 DEF ServingOK, Slotted, TenancyTypeOK
<1>2. CASE ByToken(w)
  <2>1. PICK user \in User, header \in AnyStore \cup {"absent"} : Arm(w, ActingStore(user, header), user.super)
    BY <1>2 DEF ByToken
  <2>2. user.super \in BOOLEAN /\ req[w].at = "auth"
    BY <1>2 DEF User, ByToken, At
  <2> QED BY <2>1, <2>2, ActingIsStore, ArmStep
<1>3. CASE ByKey(w)
  <2>1. PICK key \in APIKey, user \in User : Arm(w, key.store, user.super)
    BY <1>3 DEF ByKey
  <2>2. user.super \in BOOLEAN /\ key.store \in AnyStore /\ req[w].at = "auth"
    BY <1>3 DEF User, APIKey, AnyStore, ByKey, At
  <2> QED BY <2>1, <2>2, ArmStep
<1>4. CASE ByNobody(w)
  <2> DEFINE job == [at |-> "view", acting |-> NoStore, super |-> req[w].super, seen |-> {}, named |-> {}]
  <2>1. /\ req[w] = [at |-> "auth", acting |-> NoStore, super |-> req[w].super, seen |-> {}, named |-> {}]
        /\ req[w].super \in BOOLEAN
        /\ Served(w, NoStore)
    BY <1>4, AuthOK DEF ByNobody, At
  <2>2. [req[w] EXCEPT !.at = "view"] = job
    BY <2>1
  <2>3. req' = [req EXCEPT ![w] = job] /\ thread' = thread
    BY <1>4, <2>2 DEF ByNobody, Proceed
  <2>4. req'[w] = job /\ Served(w, NoStore)'
    BY <2>1, <2>3 DEF Slotted, Served
  <2>5. Kept(NoStore, req[w].super, {}, {})
    BY DEF Kept
  <2> QED BY <2>1, <2>3, <2>4, <2>5 DEF ServingOK, Slotted, TenancyTypeOK, AnyStore
<1>5. CASE Query(w)
  <2>1. Viewing(w)
    BY <1>5, ViewingOK DEF Query, At
  <2>2. Scoped(w) = IF req[w].acting = NoStore THEN Stores ELSE {req[w].acting}
    BY <2>1 DEF Scoped, CurrentStore, Served, Viewing
  <2>3. /\ req[w].seen \cup Scoped(w) \subseteq Stores
        /\ Kept(req[w].acting, req[w].super, req[w].seen \cup Scoped(w), req[w].named)
    BY <2>1, <2>2 DEF Viewing, Kept, AnyStore
  <2>4. [req[w] EXCEPT !.seen = @ \cup Scoped(w)] = View(req[w], req[w].seen \cup Scoped(w), req[w].named)
    BY <2>1 DEF Viewing, View
  <2>5. req' = [req EXCEPT ![w] = View(req[w], req[w].seen \cup Scoped(w), req[w].named)] /\ thread' = thread
    BY <1>5, <2>4 DEF Query, Proceed
  <2>6. req[w].named \subseteq Stores
    BY <2>1 DEF Viewing
  <2> QED BY <2>1, <2>3, <2>5, <2>6, ViewStep
<1>5a. CASE QueryAcross(w)
  <2>1. Viewing(w) /\ req[w].super
    BY <1>5a, ViewingOK DEF QueryAcross, At
  <2>2. PICK stores \in {Stores} \cup {{s} : s \in Stores} :
          Proceed(w, [req[w] EXCEPT !.seen = @ \cup stores, !.named = @ \cup stores])
    BY <1>5a DEF QueryAcross
  <2>3. stores \subseteq Stores
    OBVIOUS
  <2>4. req[w].seen \cup stores \subseteq Stores /\ req[w].named \cup stores \subseteq Stores
    BY <2>1, <2>3 DEF Viewing
  <2>4a. ASSUME NEW acting, NEW super, NEW seen, NEW named, super, seen \subseteq Stores, Kept(acting, super, seen, named)
         PROVE  Kept(acting, super, seen \cup stores, named \cup stores)
    <3>1. CASE acting = NoStore
      <4>1. seen = named \/ seen = Stores
        BY <2>4a, <3>1 DEF Kept
      <4>2. seen = Stores => seen \cup stores = Stores
        BY <2>3
      <4> QED BY <2>4a, <3>1, <4>1, <4>2 DEF Kept
    <3>2. CASE acting # NoStore
      BY <2>4a, <3>2 DEF Kept
    <3> QED BY <3>1, <3>2
  <2>4b. Kept(req[w].acting, req[w].super, req[w].seen \cup stores, req[w].named \cup stores)
    BY <2>1, <2>4a DEF Viewing
  <2> DEFINE first == [req[w] EXCEPT !.seen = @ \cup stores]
  <2>4c. req[w] = View(req[w], req[w].seen, req[w].named)
    BY <2>1 DEF Viewing
  <2>5. first = View(req[w], req[w].seen \cup stores, req[w].named)
    BY <2>4c, ViewFields
  <2> HIDE DEF first
  <2>6. [first EXCEPT !.named = @ \cup stores] = View(req[w], req[w].seen \cup stores, req[w].named \cup stores)
    BY <2>5 DEF View
  <2>7. req' = [req EXCEPT ![w] = View(req[w], req[w].seen \cup stores, req[w].named \cup stores)]
    BY <2>2, <2>6 DEF Proceed, first
  <2>8. thread' = thread
    BY <1>5a DEF QueryAcross
  <2> QED BY <2>1, <2>4, <2>4b, <2>7, <2>8, ViewStep
<1>6. CASE Respond(w)
  BY <1>6 DEF Respond, Forgotten, Answer, Proceed, ServingOK, Slotted, TenancyTypeOK, Forgot, Blank, AnyStore
<1> QED BY <1>1, <1>2, <1>3, <1>4, <1>5, <1>5a, <1>6 DEF TenancySteps
----------------------------------------------------------------------------
(* The assistant: a turn goes on after its request was forgotten. *)

assistantAll == <<slots, tenancyVars, assistantVars>>

Turn(at, r, hops, pending, calls, rest, seen, named) ==
  [at |-> at, conv |-> r.conv, acting |-> r.acting, hops |-> hops, pending |-> pending, calls |-> calls,
   rest |-> rest, seen |-> seen, named |-> named]

IsTurn(r) == r = Turn(r.at, r, r.hops, r.pending, r.calls, r.rest, r.seen, r.named)

\* What a turn has seen is its store's, or was asked for.
TurnOK(r) ==
  /\ IsTurn(r) /\ r.at \in Streaming /\ r.acting \in AnyStore
  /\ r.acting # NoStore => r.seen \subseteq {r.acting} \cup r.named

AssistantOK(w) ==
  \/ ServingOK(w)
  \/ TurnOK(req[w]) /\ Forgot(w)
  \/ req[w].at \in {"embed", "upload", "drop"}

AssistantInv == Slotted /\ \A w \in Workers : AssistantOK(w)

\* A step that changes one slot and leaves it as it should be.
LEMMA SlotStep ==
  ASSUME AssistantInv, NEW w \in Workers, Slotted', AssistantOK(w)',
         \A x \in Workers \ {w} : req'[x] = req[x] /\ thread'[x] = thread[x]
  PROVE  AssistantInv'
<1>1. \A x \in Workers \ {w} : AssistantOK(x)'
  BY DEF AssistantInv, AssistantOK, ServingOK, Served, Forgot
<1> QED BY <1>1 DEF AssistantInv

\* A step of the slot alone.
LEMMA ProceedStep ==
  ASSUME AssistantInv, NEW w \in Workers, NEW job, req' = [req EXCEPT ![w] = job], thread' = thread,
         (job = Idle /\ Forgot(w)) \/ (TurnOK(job) /\ Forgot(w)) \/ job.at \in {"embed", "upload", "drop"}
  PROVE  AssistantInv'
<1>1. req'[w] = job /\ Slotted' /\ \A x \in Workers \ {w} : req'[x] = req[x] /\ thread'[x] = thread[x]
  BY DEF AssistantInv, Slotted, TenancyTypeOK
<1>2. AssistantOK(w)'
  BY <1>1 DEF AssistantOK, ServingOK, Forgot
<1> QED BY <1>1, <1>2, SlotStep

\* The end of a request: the slot is idle and the thread forgets.
LEMMA EndStep ==
  ASSUME AssistantInv, NEW w \in Workers, req' = [req EXCEPT ![w] = Idle], thread' = Forgotten(w)
  PROVE  AssistantInv'
<1>1. Slotted' /\ req'[w] = Idle /\ Forgot(w)'
  BY DEF AssistantInv, Slotted, TenancyTypeOK, Forgotten, Forgot, Blank, AnyStore
<1>2. \A x \in Workers \ {w} : req'[x] = req[x] /\ thread'[x] = thread[x]
  BY DEF AssistantInv, Slotted, TenancyTypeOK, Forgotten
<1> QED BY <1>1, <1>2, SlotStep DEF AssistantOK, ServingOK

LEMMA TurnFields ==
  ASSUME NEW r, IsTurn(r), NEW a
  PROVE  /\ [r EXCEPT !.at = a] = Turn(a, r, r.hops, r.pending, r.calls, r.rest, r.seen, r.named)
         /\ [r EXCEPT !.rest = a] = Turn(r.at, r, r.hops, r.pending, r.calls, a, r.seen, r.named)
         /\ [r EXCEPT !.pending = a] = Turn(r.at, r, r.hops, a, r.calls, r.rest, r.seen, r.named)
         /\ [r EXCEPT !.hops = a] = Turn(r.at, r, a, r.pending, r.calls, r.rest, r.seen, r.named)
         /\ [r EXCEPT !.calls = a] = Turn(r.at, r, r.hops, r.pending, a, r.rest, r.seen, r.named)
         /\ [r EXCEPT !.seen = a] = Turn(r.at, r, r.hops, r.pending, r.calls, r.rest, a, r.named)
         /\ [r EXCEPT !.named = a] = Turn(r.at, r, r.hops, r.pending, r.calls, r.rest, r.seen, a)
  BY DEF IsTurn, Turn

\* What follows a call leaves what the turn has seen, and its count of calls.
LEMMA AfterCallOK ==
  ASSUME NEW r, TurnOK(r)
  PROVE  TurnOK(AfterCall(r)) /\ AfterCall(r).conv = r.conv /\ AfterCall(r).calls = r.calls
<1>1. CASE r.pending > 1
  <2> DEFINE first == [r EXCEPT !.at = "tools"]
  <2>1. first = Turn("tools", r, r.hops, r.pending, r.calls, r.rest, r.seen, r.named)
    BY TurnFields DEF TurnOK
  <2> HIDE DEF first
  <2>2. [first EXCEPT !.pending = @ - 1] = Turn("tools", r, r.hops, r.pending - 1, r.calls, r.rest, r.seen, r.named)
    BY <2>1 DEF Turn
  <2>3. AfterCall(r) = Turn("tools", r, r.hops, r.pending - 1, r.calls, r.rest, r.seen, r.named)
    BY <1>1, <2>2 DEF AfterCall, first
  <2> QED BY <2>3 DEF TurnOK, IsTurn, Turn, Streaming
<1>2. CASE ~(r.pending > 1)
  <2> DEFINE at == IF r.hops + 1 = MaxHops THEN "store" ELSE "hop"
             first == [r EXCEPT !.at = at]
             second == [first EXCEPT !.pending = 0]
  <2>1. first = Turn(at, r, r.hops, r.pending, r.calls, r.rest, r.seen, r.named)
    BY TurnFields DEF TurnOK
  <2> HIDE DEF first
  <2>2. second = Turn(at, r, r.hops, 0, r.calls, r.rest, r.seen, r.named)
    BY <2>1 DEF Turn
  <2> HIDE DEF second
  <2>3. [second EXCEPT !.hops = @ + 1] = Turn(at, r, r.hops + 1, 0, r.calls, r.rest, r.seen, r.named)
    BY <2>2 DEF Turn
  <2>4. AfterCall(r) = Turn(at, r, r.hops + 1, 0, r.calls, r.rest, r.seen, r.named)
    BY <1>2, <2>3 DEF AfterCall, first, second
  <2>5. at \in Streaming
    BY DEF Streaming
  <2> QED BY <2>4, <2>5 DEF TurnOK, IsTurn, Turn
<1> QED BY <1>1, <1>2

\* What a call reaches is its turn's store, or what was asked for: never through a writing tool.
LEMMA ReachedOK ==
  ASSUME NEW tool, NEW acting \in AnyStore, acting # NoStore, NEW sent \in AnyStore
  PROVE  Reached(tool, acting, sent) \subseteq {acting} \cup Asked(tool, acting, sent)
<1>1. CASE tool.scope = "read"
  BY <1>1 DEF Reached, Asked, Resolved
<1>2. CASE tool.scope = "write"
  BY <1>2 DEF Reached, Refused, Found
<1>3. CASE tool.scope \notin {"read", "write"}
  BY <1>3 DEF Asked
<1> QED BY <1>1, <1>2, <1>3

LEMMA CalledTurn ==
  ASSUME AssistantInv, NEW w \in Workers, CallTool(w)
  PROVE  \E job : /\ req' = [req EXCEPT ![w] = job] /\ TurnOK(job)
                  /\ job.conv = req[w].conv /\ job.calls = req[w].calls + 1
<1>1. PICK tool \in Registry, sent \in AnyStore :
        LET turn == [req[w] EXCEPT
                       !.calls = @ + 1,
                       !.seen = @ \cup Reached(tool, req[w].acting, sent),
                       !.named = @ \cup Asked(tool, req[w].acting, sent)]
            some == ~Refused(tool, req[w].acting, sent) /\ ~tool.whole /\ Len(tool.writes) > 1 IN
        Proceed(w, IF some THEN [turn EXCEPT !.at = "rest", !.rest = Tail(tool.writes)] ELSE AfterCall(turn))
  BY DEF CallTool
<1>1a. PICK wanted : wanted = Asked(tool, req[w].acting, sent)
  OBVIOUS
<1>1b. PICK reached : reached = Reached(tool, req[w].acting, sent)
  OBVIOUS
<1> DEFINE r == req[w]
           seen == r.seen \cup reached
           named == r.named \cup wanted
           called1 == [r EXCEPT !.calls = @ + 1]
           seen1 == [called1 EXCEPT !.seen = @ \cup reached]
           turn == [seen1 EXCEPT !.named = @ \cup wanted]
           tail == Tail(tool.writes)
           cut == [turn EXCEPT !.at = "rest"]
           rest == [cut EXCEPT !.rest = tail]
<1>2. TurnOK(r) /\ Forgot(w) /\ r.at = "tools" /\ thread' = thread
  BY DEF CallTool, At, AssistantInv, AssistantOK, ServingOK, Idle
<1>3. \/ req' = [req EXCEPT ![w] = AfterCall(turn)]
      \/ req' = [req EXCEPT ![w] = rest]
  BY <1>1, <1>1a, <1>1b DEF Proceed
<1>4. called1 = Turn(r.at, r, r.hops, r.pending, r.calls + 1, r.rest, r.seen, r.named)
  BY <1>2, TurnFields DEF TurnOK
<1> HIDE DEF called1
<1>5. seen1 = Turn(r.at, r, r.hops, r.pending, r.calls + 1, r.rest, seen, r.named)
  <2>1. IsTurn(called1) /\ called1.seen = r.seen
    BY <1>4 DEF IsTurn, Turn
  <2>2. [called1 EXCEPT !.seen = seen] =
          Turn(called1.at, called1, called1.hops, called1.pending, called1.calls, called1.rest, seen, called1.named)
    BY <2>1, TurnFields, Zenon
  <2>3. seen1 = [called1 EXCEPT !.seen = seen]
    BY <2>1
  <2> QED BY <1>4, <2>2, <2>3 DEF Turn
<1> HIDE DEF seen1
<1>6. turn = Turn(r.at, r, r.hops, r.pending, r.calls + 1, r.rest, seen, named)
  BY <1>5 DEF Turn
<1> HIDE DEF turn
<1>7. r.acting # NoStore => seen \subseteq {r.acting} \cup named
  <2>1. r.acting \in AnyStore /\ (r.acting # NoStore => r.seen \subseteq {r.acting} \cup r.named)
    BY <1>2 DEF TurnOK
  <2>2. r.acting # NoStore => reached \subseteq {r.acting} \cup wanted
    BY <1>1a, <1>1b, <2>1, ReachedOK
  <2> QED BY <2>1, <2>2
<1> HIDE DEF seen, named, tail
<1>8. cut = Turn("rest", r, r.hops, r.pending, r.calls + 1, r.rest, seen, named)
  BY <1>6 DEF Turn
<1> HIDE DEF cut
<1>9. rest = Turn("rest", r, r.hops, r.pending, r.calls + 1, tail, seen, named)
  BY <1>8 DEF Turn
<1> HIDE DEF rest
<1>10. TurnOK(turn) /\ TurnOK(rest)
  BY <1>2, <1>6, <1>7, <1>9 DEF TurnOK, IsTurn, Turn, Streaming
<1>11. turn.conv = r.conv /\ turn.calls = r.calls + 1 /\ rest.conv = r.conv /\ rest.calls = r.calls + 1
  BY <1>6, <1>9 DEF Turn
<1>12. TurnOK(AfterCall(turn)) /\ AfterCall(turn).conv = turn.conv /\ AfterCall(turn).calls = turn.calls
  BY <1>10, AfterCallOK
<1>13. CASE req' = [req EXCEPT ![w] = AfterCall(turn)]
  BY <1>11, <1>12, <1>13, Zenon
<1>14. CASE req' = [req EXCEPT ![w] = rest]
  BY <1>10, <1>11, <1>14, Zenon
<1> QED BY <1>3, <1>13, <1>14

LEMMA CallToolStep ==
  ASSUME AssistantInv, NEW w \in Workers, CallTool(w)
  PROVE  AssistantInv'
<1>1. PICK job : req' = [req EXCEPT ![w] = job] /\ TurnOK(job)
  BY CalledTurn
<1>2. Forgot(w) /\ thread' = thread
  BY DEF CallTool, At, AssistantInv, AssistantOK, ServingOK, Idle
<1> QED BY <1>1, <1>2, ProceedStep

LEMMA AssistantStepOK == AssistantInv /\ [AssistantNext]_assistantAll => AssistantInv'
<1> SUFFICES ASSUME AssistantInv, [AssistantNext]_assistantAll PROVE AssistantInv'
  OBVIOUS
<1>1. CASE UNCHANGED assistantAll
  BY <1>1 DEF assistantAll, slots, tenancyVars, AssistantInv, AssistantOK, ServingOK, Served, Forgot, Slotted,
     TenancyTypeOK
<1>2. ASSUME NEW w \in Workers, TenancySteps(w) PROVE AssistantInv'
  <2>1. req[w].at \in {"idle", "auth", "view"}
    BY <1>2, TenancyAt
  <2>2. ServingOK(w)
    BY <2>1 DEF AssistantInv, AssistantOK, TurnOK, Streaming
  <2> QED BY <1>2, <2>2, TenancyStep, SlotStep DEF AssistantInv, AssistantOK
<1>3. ASSUME NEW w \in Workers, OpenTurn(w) PROVE AssistantInv'
  <2> DEFINE job(c) == [at |-> "hop", conv |-> c, acting |-> req[w].acting, hops |-> 0, pending |-> 0,
                        calls |-> 0, rest |-> <<>>, seen |-> {}, named |-> {}]
  <2>1. PICK c \in Conversations : req' = [req EXCEPT ![w] = job(c)]
    BY <1>3 DEF OpenTurn, Proceed
  <2>2. req[w].acting \in AnyStore
    BY <1>3 DEF OpenTurn, At, AssistantInv, AssistantOK, ServingOK, TurnOK, Idle, Streaming
  <2>3. TurnOK(job(c))
    BY <2>2 DEF TurnOK, IsTurn, Turn, Streaming
  <2>4. Slotted' /\ req'[w] = job(c) /\ Forgot(w)'
    BY <1>3, <2>1 DEF OpenTurn, AssistantInv, Slotted, TenancyTypeOK, Forgotten, Forgot, Blank, AnyStore
  <2>5. \A x \in Workers \ {w} : req'[x] = req[x] /\ thread'[x] = thread[x]
    BY <1>3, <2>1 DEF OpenTurn, AssistantInv, Slotted, TenancyTypeOK, Forgotten
  <2> QED BY <2>3, <2>4, <2>5, SlotStep DEF AssistantOK
<1>4. ASSUME NEW w \in Workers, EndStream(w) \/ AskForTools(w) \/ FinishCall(w) \/ StoreTurn(w) \/ CutOff(w)
      PROVE AssistantInv'
  <2>1. TurnOK(req[w]) /\ Forgot(w) /\ thread' = thread
    <3>1. req[w].at \in Streaming /\ thread' = thread
      BY <1>4 DEF EndStream, AskForTools, FinishCall, StoreTurn, CutOff, At, Streaming
    <3>2. ~ServingOK(w)
      BY <3>1 DEF ServingOK, Idle, Streaming
    <3> QED BY <3>1, <3>2 DEF AssistantInv, AssistantOK, Streaming
  <2>2. CASE EndStream(w)
    <3>1. [req[w] EXCEPT !.at = "store"] =
            Turn("store", req[w], req[w].hops, req[w].pending, req[w].calls, req[w].rest, req[w].seen, req[w].named)
      BY <2>1, TurnFields DEF TurnOK
    <3>2. TurnOK([req[w] EXCEPT !.at = "store"])
      BY <2>1, <3>1 DEF TurnOK, IsTurn, Turn, Streaming
    <3> QED BY <2>1, <2>2, <3>2, ProceedStep DEF EndStream, Proceed
  <2>3. CASE AskForTools(w)
    <3>1. PICK n \in 1..MaxCalls : req' = [req EXCEPT ![w] = [req[w] EXCEPT !.at = "tools", !.pending = n]]
      BY <2>3 DEF AskForTools, Proceed
    <3> DEFINE first == [req[w] EXCEPT !.at = "tools"]
    <3>2. first = Turn("tools", req[w], req[w].hops, req[w].pending, req[w].calls, req[w].rest, req[w].seen, req[w].named)
      BY <2>1, TurnFields DEF TurnOK
    <3> HIDE DEF first
    <3>3. [first EXCEPT !.pending = n] =
            Turn("tools", req[w], req[w].hops, n, req[w].calls, req[w].rest, req[w].seen, req[w].named)
      BY <3>2 DEF Turn
    <3>4. TurnOK([first EXCEPT !.pending = n])
      BY <2>1, <3>3 DEF TurnOK, IsTurn, Turn, Streaming
    <3>5. req' = [req EXCEPT ![w] = [first EXCEPT !.pending = n]]
      BY <3>1 DEF first
    <3> QED BY <2>1, <3>4, <3>5, ProceedStep
  <2>4. CASE FinishCall(w)
    <3>1. [req[w] EXCEPT !.rest = <<>>] =
            Turn(req[w].at, req[w], req[w].hops, req[w].pending, req[w].calls, <<>>, req[w].seen, req[w].named)
      BY <2>1, TurnFields DEF TurnOK
    <3>2. TurnOK([req[w] EXCEPT !.rest = <<>>])
      BY <2>1, <3>1 DEF TurnOK, IsTurn, Turn
    <3> QED BY <2>1, <2>4, <3>2, AfterCallOK, ProceedStep DEF FinishCall, Proceed
  <2>5. CASE StoreTurn(w) \/ CutOff(w)
    BY <2>1, <2>5, ProceedStep DEF StoreTurn, CutOff, Answer, Proceed
  <2> QED BY <1>4, <2>2, <2>3, <2>4, <2>5
<1>5. ASSUME NEW w \in Workers, NEW k \in Chunks, AddChunk(w, k) PROVE AssistantInv'
  <2>1. Slotted' /\ req'[w].at = "embed" /\ \A x \in Workers \ {w} : req'[x] = req[x] /\ thread'[x] = thread[x]
    BY <1>5 DEF AddChunk, Proceed, AssistantInv, Slotted, TenancyTypeOK
  <2> QED BY <2>1, SlotStep DEF AssistantOK
<1>6. ASSUME NEW w \in Workers, Embed(w) \/ ListModels(w) PROVE AssistantInv'
  <2>1. /\ Slotted' /\ req'[w].at \in {"upload", "drop"}
        /\ \A x \in Workers \ {w} : req'[x] = req[x] /\ thread'[x] = thread[x]
    BY <1>6 DEF Embed, ListModels, Proceed, AssistantInv, Slotted, TenancyTypeOK
  <2> QED BY <2>1, SlotStep DEF AssistantOK
<1>7. ASSUME NEW w \in Workers, EndUpload(w) \/ DropModels(w) \/ DieServing(w) PROVE AssistantInv'
  BY <1>7, EndStep DEF EndUpload, DropModels, DieServing, Crash, Answer, Proceed
<1> QED BY <1>1, <1>2, <1>3, <1>4, <1>5, <1>6, <1>7, CallToolStep DEF AssistantNext, AssistantSteps

\* What EachSeesItsStore says of a request in its view.
ViewKept(r) ==
  /\ ~r.super /\ r.acting # NoStore => r.seen \subseteq {r.acting}
  /\ r.acting = NoStore => r.seen \in {r.named, Stores}
  /\ r.acting # NoStore => r.seen \subseteq {r.acting} \cup r.named

LEMMA ServingKept ==
  ASSUME NEW w \in Workers, ServingOK(w), req[w].at = "view"
  PROVE  ViewKept(req[w])
<1>1. Kept(req[w].acting, req[w].super, req[w].seen, req[w].named) /\ req[w].super \in BOOLEAN
  BY ViewingOK DEF Viewing
<1> QED BY <1>1 DEF Kept, ViewKept

LEMMA OwnStoreSeen == AssistantInv => EachSeesItsStore
<1> SUFFICES ASSUME AssistantInv, NEW w \in Workers
             PROVE  /\ At(w, "view") => ViewKept(req[w])
                    /\ req[w].at \in {"hop", "tools", "rest", "store"} /\ req[w].acting # NoStore =>
                         req[w].seen \subseteq {req[w].acting} \cup req[w].named
  BY DEF EachSeesItsStore, ViewKept, At
<1>1. CASE ServingOK(w)
  <2>1. At(w, "view") => ViewKept(req[w])
    BY <1>1, ServingKept DEF At
  <2> QED BY <1>1, <2>1 DEF ServingOK, Idle
<1>2. CASE TurnOK(req[w])
  BY <1>2 DEF TurnOK, Streaming, At
<1>3. CASE req[w].at \in {"embed", "upload", "drop"}
  BY <1>3 DEF At
<1> QED BY <1>1, <1>2, <1>3 DEF AssistantInv, AssistantOK

\* A tenant's request reads its own store only, and sudo's others only where it asks for them, also
\* when its turn of conversation goes on after the response began: for any stores, workers and
\* conversations, and any number of hops and calls.
THEOREM StoresKept == AssistantSpec => []EachSeesItsStore
<1>1. SlotsInit /\ TenancyInit => AssistantInv
  BY InitServing DEF AssistantInv, AssistantOK
<1>2. [AssistantNext]_assistantAll <=> [AssistantNext]_<<slots, tenancyVars, assistantVars>>
  BY DEF assistantAll
<1> QED BY <1>1, OwnStoreSeen, <1>2, AssistantStepOK, PTL DEF AssistantSpec

----------------------------------------------------------------------------
(* The transcript: every call is told of, lost with its turn, or in the turn in progress. *)

\* The calls of a conversation that a request in progress has made.
CallsOf(job, c) == IF job.at \in Streaming /\ job.conv = c THEN job.calls ELSE 0

CountedTurn(job) == job.at \in Streaming => job.conv \in Conversations /\ job.calls \in Nat

Counted ==
  /\ told \in [Conversations -> Nat] /\ called \in [Conversations -> Nat]
  /\ lost \in [Conversations -> Nat]
  /\ \A w \in Workers : CountedTurn(req[w])

TranscriptInv == AssistantInv /\ Counted /\ TurnsRecorded

LEMMA CallsType ==
  ASSUME NEW job, CountedTurn(job), NEW c \in Conversations
  PROVE  CallsOf(job, c) \in Nat
BY DEF CallsOf, CountedTurn

\* One slot changes, and with it what its turn has called and what the conversation has on record.
LEMMA TranscriptStep ==
  ASSUME TranscriptInv, NEW w \in Workers, NEW job, req' = [req EXCEPT ![w] = job], CountedTurn(job),
         told' \in [Conversations -> Nat], called' \in [Conversations -> Nat],
         lost' \in [Conversations -> Nat],
         \A c \in Conversations :
           called'[c] - called[c] = (told'[c] - told[c]) + (lost'[c] - lost[c])
                                      + (CallsOf(job, c) - CallsOf(req[w], c))
  PROVE  Counted' /\ TurnsRecorded'
<1>1. /\ req = [x \in Workers |-> req[x]] /\ Counted
      /\ \A x \in Workers : CountedTurn(req[x])
  BY DEF TranscriptInv, AssistantInv, Slotted, Counted
<1>2. req'[w] = job /\ \A x \in Workers \ {w} : req'[x] = req[x]
  BY <1>1
<1>3. \A x \in Workers : CountedTurn(req'[x])
  BY <1>1, <1>2
<1>4. Counted'
  BY <1>3 DEF Counted, CountedTurn
<1>5. ASSUME NEW c \in Conversations
      PROVE  called'[c] = told'[c] + lost'[c] + SumFunction([x \in Workers |-> CallsOf(req'[x], c)])
  <2>1. PICK F \in [Workers -> Int], G \in [Workers -> Int] :
          F = [x \in Workers |-> CallsOf(req[x], c)] /\ G = [x \in Workers |-> CallsOf(req'[x], c)]
    <3>1. [x \in Workers |-> CallsOf(req[x], c)] \in [Workers -> Int]
      BY <1>1, CallsType
    <3>2. [x \in Workers |-> CallsOf(req'[x], c)] \in [Workers -> Int]
      BY <1>3, CallsType
    <3> QED BY <3>1, <3>2, Zenon
  <2>2. \A x \in Workers \ {w} : G[x] = F[x]
    BY <1>2, <2>1
  <2>3. SumFunction(G) = SumFunction(F) - F[w] + G[w]
    BY <2>2, WorkersAssumption, SumChanged
  <2>4. SumFunction(F) \in Int
    BY WorkersAssumption, SumType
  <2>5. F[w] = CallsOf(req[w], c) /\ G[w] = CallsOf(job, c)
    BY <1>2, <2>1
  <2>6. called[c] = told[c] + lost[c] + SumFunction(F)
    BY <2>1, Zenon DEF TranscriptInv, TurnsRecorded, CallsOf
  <2>7. /\ called[c] \in Nat /\ told[c] \in Nat /\ lost[c] \in Nat
        /\ called'[c] \in Nat /\ told'[c] \in Nat /\ lost'[c] \in Nat
    BY <1>1 DEF Counted
  <2> QED BY <2>1, <2>3, <2>4, <2>5, <2>6, <2>7
<1>6. TurnsRecorded'
  BY <1>5, Zenon DEF TurnsRecorded, CallsOf
<1> QED BY <1>4, <1>6

\* A step between statements that are no part of a turn.
LEMMA OutsideTurns ==
  ASSUME TranscriptInv, NEW w \in Workers, NEW job, req' = [req EXCEPT ![w] = job],
         req[w].at \notin Streaming, job.at \notin Streaming, UNCHANGED <<told, called, lost>>
  PROVE  Counted' /\ TurnsRecorded'
<1>1. CountedTurn(job) /\ \A c : CallsOf(job, c) = 0 /\ CallsOf(req[w], c) = 0
  BY DEF CountedTurn, CallsOf
<1>2. /\ told \in [Conversations -> Nat] /\ called \in [Conversations -> Nat]
      /\ lost \in [Conversations -> Nat]
  BY DEF TranscriptInv, Counted
<1>3. \A c \in Conversations :
        called'[c] - called[c] = (told'[c] - told[c]) + (lost'[c] - lost[c])
                                   + (CallsOf(job, c) - CallsOf(req[w], c))
  BY <1>1, <1>2
<1> QED BY <1>1, <1>2, <1>3, TranscriptStep

\* A step of a turn that calls nothing.
LEMMA NoCall ==
  ASSUME TranscriptInv, NEW w \in Workers, NEW job, req' = [req EXCEPT ![w] = job],
         req[w].at \in Streaming, job.at \in Streaming,
         job.conv = req[w].conv, job.calls = req[w].calls, UNCHANGED <<told, called, lost>>
  PROVE  Counted' /\ TurnsRecorded'
<1>1. CountedTurn(req[w]) /\ CountedTurn(job) /\ \A c : CallsOf(job, c) = CallsOf(req[w], c)
  BY DEF TranscriptInv, Counted, CountedTurn, CallsOf
<1>2. /\ told \in [Conversations -> Nat] /\ called \in [Conversations -> Nat]
      /\ lost \in [Conversations -> Nat]
  BY DEF TranscriptInv, Counted
<1>3. \A c \in Conversations : CallsOf(req[w], c) \in Nat
  BY <1>1, CallsType
<1>4. \A c \in Conversations :
        called'[c] - called[c] = (told'[c] - told[c]) + (lost'[c] - lost[c])
                                   + (CallsOf(job, c) - CallsOf(req[w], c))
  BY <1>1, <1>2, <1>3
<1> QED BY <1>1, <1>2, <1>4, TranscriptStep

LEMMA TranscriptStepOK == TranscriptInv /\ [AssistantNext]_assistantAll => Counted' /\ TurnsRecorded'
<1> SUFFICES ASSUME TranscriptInv, [AssistantNext]_assistantAll PROVE Counted' /\ TurnsRecorded'
  OBVIOUS
<1>0. /\ AssistantInv /\ Counted /\ TurnsRecorded
      /\ told \in [Conversations -> Nat] /\ called \in [Conversations -> Nat]
      /\ lost \in [Conversations -> Nat]
      /\ \A w \in Workers : CountedTurn(req[w])
  BY DEF TranscriptInv, Counted
<1>1. CASE UNCHANGED assistantAll
  BY <1>0, <1>1 DEF assistantAll, slots, assistantVars, turnVars, Counted, CountedTurn, TurnsRecorded
<1>2. ASSUME NEW w \in Workers, TenancySteps(w), UNCHANGED assistantVars
      PROVE  Counted' /\ TurnsRecorded'
  <2>1. /\ req[w].at \in {"idle", "auth", "view"}
        /\ UNCHANGED <<told, called, lost>>
    BY <1>2, TenancyAt DEF assistantVars, turnVars
  <2>2. ServingOK(w)
    BY <1>0, <2>1 DEF AssistantInv, AssistantOK, TurnOK, Streaming
  <2>3. Slotted /\ Slotted' /\ ServingOK(w)' /\ \A x \in Workers \ {w} : req'[x] = req[x]
    BY <1>0, <1>2, <2>2, TenancyStep DEF AssistantInv
  <2>4. req' = [req EXCEPT ![w] = req'[w]] /\ req'[w].at \notin Streaming /\ req[w].at \notin Streaming
    BY <2>1, <2>3 DEF Slotted, ServingOK, Idle, Streaming
  <2> QED BY <2>1, <2>4, OutsideTurns
<1>3. ASSUME NEW w \in Workers, OpenTurn(w) PROVE Counted' /\ TurnsRecorded'
  <2>1. PICK c \in Conversations :
          req' = [req EXCEPT ![w] = [at |-> "hop", conv |-> c, acting |-> req[w].acting, hops |-> 0,
                    pending |-> 0, calls |-> 0, rest |-> <<>>, seen |-> {}, named |-> {}]]
    BY <1>3 DEF OpenTurn, Proceed
  <2> DEFINE job == [at |-> "hop", conv |-> c, acting |-> req[w].acting, hops |-> 0,
                     pending |-> 0, calls |-> 0, rest |-> <<>>, seen |-> {}, named |-> {}]
  <2>2. /\ job.at = "hop" /\ job.conv = c /\ job.calls = 0 /\ req' = [req EXCEPT ![w] = job]
    BY <2>1
  <2> HIDE DEF job
  <2>3. CountedTurn(job) /\ \A d : CallsOf(job, d) = 0 /\ CallsOf(req[w], d) = 0
    BY <1>3, <2>2 DEF CountedTurn, CallsOf, OpenTurn, At, Streaming
  <2>4. UNCHANGED <<told, called, lost>>
    BY <1>3 DEF OpenTurn
  <2>5. \A d \in Conversations :
          called'[d] - called[d] = (told'[d] - told[d]) + (lost'[d] - lost[d])
                                     + (CallsOf(job, d) - CallsOf(req[w], d))
    BY <1>0, <2>3, <2>4
  <2> QED BY <1>0, <2>2, <2>3, <2>4, <2>5, TranscriptStep
<1>4. ASSUME NEW w \in Workers, EndStream(w) \/ AskForTools(w) \/ FinishCall(w)
      PROVE  Counted' /\ TurnsRecorded'
  <2>1. /\ req[w].at \in Streaming /\ UNCHANGED <<told, called, lost>>
    BY <1>4 DEF EndStream, AskForTools, FinishCall, At, Streaming, assistantVars, turnVars
  <2>2. TurnOK(req[w])
    BY <1>0, <2>1 DEF AssistantInv, AssistantOK, ServingOK, Idle, Streaming
  <2>3. CASE EndStream(w)
    <3> DEFINE job == Turn("store", req[w], req[w].hops, req[w].pending, req[w].calls, req[w].rest,
                           req[w].seen, req[w].named)
    <3>0. [req[w] EXCEPT !.at = "store"] = job
      BY <2>2, TurnFields DEF TurnOK
    <3>1. req' = [req EXCEPT ![w] = job]
      BY <2>3, <3>0, Zenon DEF EndStream, Proceed
    <3>2. job.at = "store" /\ job.conv = req[w].conv /\ job.calls = req[w].calls
      BY DEF Turn
    <3> HIDE DEF job
    <3> QED BY <2>1, <3>1, <3>2, NoCall DEF Streaming
  <2>4. CASE AskForTools(w)
    <3>1. PICK n \in 1..MaxCalls : req' = [req EXCEPT ![w] = [req[w] EXCEPT !.at = "tools", !.pending = n]]
      BY <2>4 DEF AskForTools, Proceed
    <3> DEFINE first == [req[w] EXCEPT !.at = "tools"]
    <3>2. first = Turn("tools", req[w], req[w].hops, req[w].pending, req[w].calls, req[w].rest, req[w].seen, req[w].named)
      BY <2>2, TurnFields DEF TurnOK
    <3> HIDE DEF first
    <3>3. [first EXCEPT !.pending = n] =
            Turn("tools", req[w], req[w].hops, n, req[w].calls, req[w].rest, req[w].seen, req[w].named)
      BY <3>2 DEF Turn
    <3>4. [first EXCEPT !.pending = n] = [req[w] EXCEPT !.at = "tools", !.pending = n]
      BY Zenon DEF first
    <3>5. req' = [req EXCEPT ![w] = [first EXCEPT !.pending = n]]
      BY <3>1, <3>4, Zenon
    <3> DEFINE job == Turn("tools", req[w], req[w].hops, n, req[w].calls, req[w].rest, req[w].seen, req[w].named)
    <3>6. req' = [req EXCEPT ![w] = job]
      BY <3>3, <3>5, Zenon
    <3>7. job.at = "tools" /\ job.conv = req[w].conv /\ job.calls = req[w].calls
      BY DEF Turn
    <3> HIDE DEF job
    <3> QED BY <2>1, <3>6, <3>7, NoCall DEF Streaming
  <2>5. CASE FinishCall(w)
    <3> DEFINE turn == [req[w] EXCEPT !.rest = <<>>]
    <3>1. turn = Turn(req[w].at, req[w], req[w].hops, req[w].pending, req[w].calls, <<>>, req[w].seen, req[w].named)
      BY <2>2, TurnFields DEF TurnOK
    <3>2. req' = [req EXCEPT ![w] = AfterCall(turn)]
      BY <2>5 DEF FinishCall, Proceed
    <3> HIDE DEF turn
    <3>3. TurnOK(turn) /\ turn.conv = req[w].conv /\ turn.calls = req[w].calls
      BY <2>2, <3>1 DEF TurnOK, IsTurn, Turn
    <3>4. AfterCall(turn).at \in Streaming /\ AfterCall(turn).conv = turn.conv /\ AfterCall(turn).calls = turn.calls
      BY <3>3, AfterCallOK DEF TurnOK
    <3> QED BY <2>1, <3>2, <3>3, <3>4, NoCall
  <2> QED BY <1>4, <2>3, <2>4, <2>5
<1>5. ASSUME NEW w \in Workers, CallTool(w) PROVE Counted' /\ TurnsRecorded'
  <2>1. PICK job : /\ req' = [req EXCEPT ![w] = job] /\ TurnOK(job)
                   /\ job.conv = req[w].conv /\ job.calls = req[w].calls + 1
    BY <1>0, <1>5, CalledTurn
  <2>2. req[w].at \in Streaming /\ job.at \in Streaming
    BY <1>5, <2>1 DEF CallTool, At, Streaming, TurnOK
  <2>3. req[w].conv \in Conversations /\ req[w].calls \in Nat /\ CountedTurn(job)
    BY <1>0, <2>1, <2>2 DEF CountedTurn
  <2>4. called' = [called EXCEPT ![req[w].conv] = @ + 1] /\ UNCHANGED <<told, lost>>
    BY <1>5 DEF CallTool
  <2>5. \A c \in Conversations : CallsOf(job, c) - CallsOf(req[w], c) = IF c = req[w].conv THEN 1 ELSE 0
    BY <2>1, <2>2, <2>3 DEF CallsOf
  <2>6. called' \in [Conversations -> Nat]
    <3>1. called \in [Conversations -> Nat]
      BY <1>0
    <3>2. PICK conv \in Conversations : conv = req[w].conv
      BY <2>3
    <3>3. called' = [called EXCEPT ![conv] = called[conv] + 1] /\ called[conv] + 1 \in Nat
      BY <2>4, <3>1, <3>2
    <3> QED BY <3>1, <3>3
  <2>7. \A c \in Conversations :
          called'[c] - called[c] = (told'[c] - told[c]) + (lost'[c] - lost[c])
                                     + (CallsOf(job, c) - CallsOf(req[w], c))
    <3> SUFFICES ASSUME NEW c \in Conversations
                 PROVE  called'[c] - called[c] = (told'[c] - told[c]) + (lost'[c] - lost[c])
                                                   + (CallsOf(job, c) - CallsOf(req[w], c))
      OBVIOUS
    <3>1. /\ called[c] \in Nat /\ told[c] \in Nat /\ lost[c] \in Nat
          /\ called'[c] = called[c] + (IF c = req[w].conv THEN 1 ELSE 0)
          /\ told'[c] = told[c] /\ lost'[c] = lost[c]
      BY <1>0, <2>4
    <3> HIDE <2>4
    <3> QED BY <2>5, <3>1
  <2> QED BY <1>0, <2>1, <2>3, <2>4, <2>6, <2>7, TranscriptStep
<1>6. ASSUME NEW w \in Workers, StoreTurn(w) \/ CutOff(w) PROVE Counted' /\ TurnsRecorded'
  <2>1. /\ req[w].at \in Streaming /\ req' = [req EXCEPT ![w] = Idle] /\ UNCHANGED called
        /\ \/ told' = [told EXCEPT ![req[w].conv] = @ + req[w].calls] /\ UNCHANGED lost
           \/ lost' = [lost EXCEPT ![req[w].conv] = @ + req[w].calls] /\ UNCHANGED told
    BY <1>6 DEF StoreTurn, CutOff, At, Streaming, Answer, Proceed
  <2>2. req[w].conv \in Conversations /\ req[w].calls \in Nat
    BY <1>0, <2>1 DEF CountedTurn
  <2>3. /\ CountedTurn(Idle)
        /\ \A c : CallsOf(Idle, c) = 0 /\ CallsOf(req[w], c) = IF c = req[w].conv THEN req[w].calls ELSE 0
    BY <2>1 DEF CountedTurn, CallsOf, Idle, Streaming
  <2>4. told' \in [Conversations -> Nat] /\ lost' \in [Conversations -> Nat]
    BY <1>0, <2>1, <2>2
  <2>5. \A c \in Conversations :
          called'[c] - called[c] = (told'[c] - told[c]) + (lost'[c] - lost[c])
                                     + (CallsOf(Idle, c) - CallsOf(req[w], c))
    BY <1>0, <2>1, <2>2, <2>3
  <2> QED BY <1>0, <2>1, <2>3, <2>4, <2>5, TranscriptStep
<1>7. ASSUME NEW w \in Workers,
             \/ Embed(w) \/ EndUpload(w) \/ ListModels(w) \/ DropModels(w) \/ DieServing(w)
             \/ \E k \in Chunks : AddChunk(w, k)
      PROVE  Counted' /\ TurnsRecorded'
  <2>1. PICK job : /\ req' = [req EXCEPT ![w] = job] /\ job.at \notin Streaming
                   /\ req[w].at \notin Streaming /\ UNCHANGED <<told, called, lost>>
    <3>1. CASE \E k \in Chunks : AddChunk(w, k)
      <4>1. PICK k \in Chunks : AddChunk(w, k)
        BY <3>1
      <4>2. [at |-> "embed", chunk |-> k].at = "embed"
        OBVIOUS
      <4> QED BY <4>1, <4>2 DEF AddChunk, At, Streaming, Proceed, turnVars
    <3>2. CASE Embed(w)
      <4>1. [at |-> "upload"].at = "upload"
        OBVIOUS
      <4> QED BY <3>2, <4>1 DEF Embed, At, Streaming, Proceed, turnVars
    <3>3. CASE ListModels(w)
      <4>1. PICK listed \in SUBSET Models : req' = [req EXCEPT ![w] = [at |-> "drop", listed |-> listed]]
        BY <3>3 DEF ListModels, Proceed
      <4>2. [at |-> "drop", listed |-> listed].at = "drop"
        OBVIOUS
      <4> QED BY <3>3, <4>1, <4>2 DEF ListModels, At, Streaming, turnVars
    <3>4. CASE EndUpload(w) \/ DropModels(w) \/ DieServing(w)
      BY <3>4 DEF EndUpload, DropModels, DieServing, Crash, Answer, Proceed, At, Streaming, Idle,
         assistantVars, turnVars
    <3> QED BY <1>7, <3>1, <3>2, <3>3, <3>4
  <2> QED BY <2>1, OutsideTurns
<1> QED BY <1>1, <1>2, <1>3, <1>4, <1>5, <1>6, <1>7 DEF AssistantNext, AssistantSteps

LEMMA TranscriptInit == SlotsInit /\ TenancyInit /\ AssistantInit => TranscriptInv
<1> SUFFICES ASSUME SlotsInit, TenancyInit, AssistantInit PROVE TranscriptInv
  OBVIOUS
<1>1. AssistantInv
  BY InitServing DEF AssistantInv, AssistantOK
<1>2. Counted
  BY DEF SlotsInit, AssistantInit, Counted, CountedTurn, Idle, Streaming
<1>3. ASSUME NEW c \in Conversations
      PROVE  called[c] = told[c] + lost[c] + SumFunction([x \in Workers |-> CallsOf(req[x], c)])
  <2>1. PICK F \in [Workers -> Int] : F = [x \in Workers |-> CallsOf(req[x], c)]
    <3>1. [x \in Workers |-> CallsOf(req[x], c)] \in [Workers -> Int]
      BY <1>2, CallsType DEF Counted
    <3> QED BY <3>1, Zenon
  <2>2. \A x \in Workers : F[x] = 0
    BY <2>1 DEF SlotsInit, CallsOf, Idle, Streaming
  <2>3. SumFunction(F) = 0
    BY <2>2, WorkersAssumption, SumOfZeros
  <2> QED BY <2>1, <2>3 DEF AssistantInit
<1>4. TurnsRecorded
  BY <1>3, Zenon DEF TurnsRecorded, CallsOf
<1> QED BY <1>1, <1>2, <1>4 DEF TranscriptInv

\* For any number of turns at once, in the same conversation or not, of hops and of calls: what the
\* transcripts do not tell of is in a turn in progress or went with a turn that was cut off.
THEOREM EveryCallTold == AssistantSpec => []TurnsRecorded
<1>1. TranscriptInv /\ [AssistantNext]_assistantAll => TranscriptInv'
  BY TranscriptStepOK, AssistantStepOK DEF TranscriptInv
<1>2. TranscriptInv => TurnsRecorded
  BY DEF TranscriptInv
<1>3. [AssistantNext]_assistantAll <=> [AssistantNext]_<<slots, tenancyVars, assistantVars>>
  BY DEF assistantAll
<1> QED BY <1>1, <1>2, <1>3, TranscriptInit, PTL DEF AssistantSpec

----------------------------------------------------------------------------
(* The audit: a request that ends in a report. *)

auditAll == <<slots, tenancyVars, auditVars>>

\* A report on fabricated stores, asked for in no store, fails when a seeded door does not filter.
ReportOK(r) ==
  /\ r.at = "report"
  /\ r.mode = "self_contained" /\ r.acting = NoStore =>
       \A d \in Probed \cap r.seeds : ~door[d].filters /\ ~door[d].raises => r.status = "FAIL"

AuditInv == Slotted /\ \A w \in Workers : ServingOK(w) \/ ReportOK(req[w])

\* Acting in no store, the managers hide nothing from a request that is being served.
LEMMA NothingHidden ==
  ASSUME NEW w \in Workers, Served(w, NoStore), req[w].acting = NoStore, NEW d, NEW owners
  PROVE  Visible(w, d, owners) = owners
  BY DEF Visible, CurrentStore, Served

LEMMA LeakFails ==
  ASSUME NEW statuses, "leak" \in statuses
  PROVE  Summarize(statuses) = "FAIL"
  BY DEF Summarize

LEMMA FabricatedStep ==
  ASSUME AuditInv, NEW w \in Workers, AuditFabricated(w)
  PROVE  AuditInv'
<1> DEFINE Owners(seeds) == [d \in Doors |-> data[d] \cup (IF d \in seeds THEN {Seeded} ELSE {})]
           Statuses(seeds) == {Status(w, d, Owners(seeds)[d], Prober) : d \in Probed}
           job(seeds) == [at |-> "report", acting |-> req[w].acting, mode |-> "self_contained", seeds |-> seeds,
                          status |-> Summarize(Statuses(seeds))]
<1>1. PICK seeds \in SUBSET Doors : req' = [req EXCEPT ![w] = job(seeds)]
  BY DEF AuditFabricated, Reporting, Proceed
<1>2. thread' = thread /\ door' = door /\ req[w].at = "view"
  BY DEF AuditFabricated, auditVars, At
<1>3. Served(w, req[w].acting)
  BY <1>2 DEF AuditInv, ServingOK, ReportOK, Idle
<1>4. ASSUME req[w].acting = NoStore, NEW d \in Probed \cap seeds, ~door[d].filters, ~door[d].raises
      PROVE  Summarize(Statuses(seeds)) = "FAIL"
  <2>1. Seeded \in Owners(seeds)[d] /\ Seeded # Prober
    BY <1>4, AuditAssumption DEF Probed
  <2>2. Seeded \in Returned(w, d, Owners(seeds)[d], Prober) \ {Prober}
    BY <1>3, <1>4, <2>1, NothingHidden DEF Returned
  <2>3. Status(w, d, Owners(seeds)[d], Prober) = "leak"
    BY <1>4, <2>2 DEF Status
  <2>4. "leak" \in Statuses(seeds)
    BY <1>4, <2>3
  <2> QED BY <2>4, LeakFails
<1> HIDE DEF Statuses
<1>5. /\ req'[w] = job(seeds) /\ Slotted'
      /\ \A x \in Workers \ {w} : req'[x] = req[x]
  BY <1>1, <1>2 DEF AuditInv, Slotted, TenancyTypeOK
<1>6. ReportOK(req[w])'
  BY <1>2, <1>4, <1>5 DEF ReportOK, Probed
<1>7. \A x \in Workers \ {w} : (ServingOK(x) \/ ReportOK(req[x]))'
  BY <1>2, <1>5 DEF AuditInv, ServingOK, Served, Forgot, ReportOK, Probed
<1> QED BY <1>5, <1>6, <1>7 DEF AuditInv

LEMMA AuditStepOK == AuditInv /\ [AuditNext]_auditAll => AuditInv'
<1> SUFFICES ASSUME AuditInv, [AuditNext]_auditAll PROVE AuditInv'
  OBVIOUS
<1>1. CASE UNCHANGED auditAll
  BY <1>1 DEF auditAll, slots, tenancyVars, auditVars, AuditInv, ServingOK, Served, Forgot, Slotted, TenancyTypeOK,
     ReportOK, Probed
<1>2. ASSUME NEW w \in Workers, TenancySteps(w), UNCHANGED auditVars PROVE AuditInv'
  <2>1. req[w].at \in {"idle", "auth", "view"}
    BY <1>2, TenancyAt
  <2>2. ServingOK(w) /\ Slotted
    BY <2>1 DEF AuditInv, ReportOK
  <2>3. Slotted' /\ ServingOK(w)' /\ \A x \in Workers \ {w} : req'[x] = req[x] /\ thread'[x] = thread[x]
    BY <1>2, <2>2, TenancyStep
  <2>4. \A x \in Workers \ {w} : (ServingOK(x) \/ ReportOK(req[x]))'
    BY <1>2, <2>3 DEF AuditInv, ServingOK, Served, Forgot, ReportOK, Probed, auditVars
  <2> QED BY <2>3, <2>4 DEF AuditInv
<1>3. ASSUME NEW w \in Workers, AuditLive(w) PROVE AuditInv'
  <2>1. /\ Slotted' /\ req'[w].at = "report" /\ req'[w].mode = "live" /\ thread' = thread /\ door' = door
        /\ \A x \in Workers \ {w} : req'[x] = req[x]
    <3> DEFINE job(status) == [at |-> "report", acting |-> req[w].acting, mode |-> "live", seeds |-> {},
                               status |-> status]
    <3>1. PICK status : req' = [req EXCEPT ![w] = job(status)]
      BY <1>3 DEF AuditLive, Reporting, Proceed
    <3>2. thread' = thread /\ door' = door
      BY <1>3 DEF AuditLive, auditVars
    <3> QED BY <3>1, <3>2 DEF AuditInv, Slotted, TenancyTypeOK
  <2>2. ReportOK(req[w])'
    BY <2>1 DEF ReportOK
  <2>3. \A x \in Workers \ {w} : (ServingOK(x) \/ ReportOK(req[x]))'
    BY <2>1 DEF AuditInv, ServingOK, Served, Forgot, ReportOK, Probed
  <2> QED BY <2>1, <2>2, <2>3 DEF AuditInv
<1>4. ASSUME NEW w \in Workers, RespondReport(w) PROVE AuditInv'
  <2>1. Slotted' /\ req'[w] = Idle /\ Forgot(w)' /\ door' = door
    BY <1>4 DEF RespondReport, Answer, Proceed, auditVars, AuditInv, Slotted, TenancyTypeOK, Forgotten, Forgot,
       Blank, AnyStore
  <2>2. \A x \in Workers \ {w} : req'[x] = req[x] /\ thread'[x] = thread[x]
    BY <1>4 DEF RespondReport, Answer, Proceed, AuditInv, Slotted, TenancyTypeOK, Forgotten
  <2>3. \A x \in Workers \ {w} : (ServingOK(x) \/ ReportOK(req[x]))'
    BY <2>1, <2>2 DEF AuditInv, ServingOK, Served, Forgot, ReportOK, Probed
  <2> QED BY <2>1, <2>3 DEF AuditInv, ServingOK
<1> QED BY <1>1, <1>2, <1>3, <1>4, FabricatedStep DEF AuditNext

LEMMA ReportsHonest == AuditInv => AuditHonest
<1> SUFFICES ASSUME AuditInv, NEW w \in Workers, req[w].at = "report"
             PROVE  ReportOK(req[w])
  BY DEF AuditHonest, ReportOK, At
<1> QED BY DEF AuditInv, ServingOK, Idle

\* The audit of fabricated stores, asked for in no store, fails when a door with a seeded row does not
\* filter: for any doors, whatever real stores own and the other doors answer.
THEOREM AuditIsHonest == AuditSpec => []AuditHonest
<1>1. SlotsInit /\ TenancyInit => AuditInv
  BY InitServing DEF AuditInv
<1>2. [AuditNext]_auditAll <=> [AuditNext]_<<slots, tenancyVars, auditVars>>
  BY DEF auditAll
<1> QED BY <1>1, ReportsHonest, <1>2, AuditStepOK, PTL DEF AuditSpec

=============================================================================
