------------------------------ MODULE Platform ------------------------------
(***************************************************************************)
(* What the requests of all components rest on: limits, flags, sessions,   *)
(* the tenant of a request with the assistant that outlives it and the     *)
(* audit that is scoped by it, the category tree, and the search index.    *)
(*                                                                         *)
(* They share the workers and no other state, so no step of one can        *)
(* enable or disturb another.  A behaviour therefore plays one of them,    *)
(* chosen at the start, and explores all interleavings of its requests;    *)
(* the state spaces add up and do not multiply.                            *)
(***************************************************************************)
EXTENDS Limits, Flags, Sessions, Assistant, Audit, Categories, SearchIndex

VARIABLE scene   \* the component a behaviour plays

vars == <<slots, scene, limitVars, flagVars, sessionVars, tenancyVars, assistantVars, auditVars,
          categoryVars, indexVars>>

Scenes == {"limits", "flags", "sessions", "assistant", "audit", "categories", "index"}

\* A component that has several states to begin in has them in its own scene only.
Init ==
  /\ SlotsInit /\ scene \in Scenes
  /\ LimitsInit /\ FlagsInit /\ SessionsInit /\ TenancyInit /\ AssistantInit
  /\ IF scene = "audit" THEN AuditInit ELSE NoDoors
  /\ IF scene = "categories" THEN CategoriesInit ELSE NoCategories
  /\ IF scene = "index" THEN IndexInit ELSE NoProducts

PlayLimits ==
  /\ scene = "limits" /\ LimitsNext
  /\ UNCHANGED <<flagVars, sessionVars, tenancyVars, assistantVars, auditVars, categoryVars, indexVars>>

PlayFlags ==
  /\ scene = "flags" /\ FlagsNext
  /\ UNCHANGED <<limitVars, sessionVars, tenancyVars, assistantVars, auditVars, categoryVars, indexVars>>

PlaySessions ==
  /\ scene = "sessions" /\ SessionsNext
  /\ UNCHANGED <<limitVars, flagVars, tenancyVars, assistantVars, auditVars, categoryVars, indexVars>>

PlayAssistant ==
  /\ scene = "assistant" /\ AssistantNext
  /\ UNCHANGED <<limitVars, flagVars, sessionVars, auditVars, categoryVars, indexVars>>

PlayAudit ==
  /\ scene = "audit" /\ AuditNext
  /\ UNCHANGED <<limitVars, flagVars, sessionVars, assistantVars, categoryVars, indexVars>>

PlayCategories ==
  /\ scene = "categories" /\ CategoriesNext
  /\ UNCHANGED <<limitVars, flagVars, sessionVars, tenancyVars, assistantVars, auditVars, indexVars>>

PlayIndex ==
  /\ scene = "index" /\ IndexNext
  /\ UNCHANGED <<limitVars, flagVars, sessionVars, tenancyVars, assistantVars, auditVars, categoryVars>>

Next ==
  /\ \/ PlayLimits \/ PlayFlags \/ PlaySessions \/ PlayAssistant
     \/ PlayAudit \/ PlayCategories \/ PlayIndex
  /\ UNCHANGED scene

Spec == Init /\ [][Next]_vars

TypeOK ==
  /\ LimitsTypeOK /\ FlagsTypeOK /\ SessionsTypeOK /\ AssistantTypeOK
  /\ AuditTypeOK /\ CategoriesTypeOK /\ IndexTypeOK
=============================================================================
