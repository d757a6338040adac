------------------------------- MODULE Flags -------------------------------
(***************************************************************************)
(* Flags that one row of a place may carry: the active assistant profile   *)
(* (AIProfile), the default preset of a table (TablePreset), the main      *)
(* branch of a store (Branch).                                             *)
(*                                                                         *)
(* No database constraint keeps them; each is kept by two statements, one  *)
(* that clears the flag of the others and one that saves the row.  A save  *)
(* writes all columns of a copy read earlier, the flag among them.         *)
(***************************************************************************)
EXTENDS Workers

CONSTANTS
  Profiles, Presets, Branches,   \* rows
  Tables                         \* table_id: the places of presets

ASSUME FlagsAssumption == Tables # {}

Places == Tables \cup {"profiles", "branches"}
Flagged == Profiles \cup Presets \cup Branches

VARIABLES
  flags,     \* the rows
  muddled    \* history: places whose flag was set by hand, or by overlapping requests

flagVars == <<flags, muddled>>

FlagRow == [state : {"none", "live", "gone"}, place : Places, on : BOOLEAN]

\* Where rows of a kind may be.
Home(r) == IF r \in Profiles THEN {"profiles"} ELSE IF r \in Branches THEN {"branches"} ELSE Tables

FlagsInit ==
  /\ flags = [r \in Flagged |-> [state |-> "none", place |-> CHOOSE p \in Home(r) : TRUE, on |-> FALSE]]
  /\ muddled = {}

Carriers(place) == {r \in Flagged : flags[r].state = "live" /\ flags[r].place = place /\ flags[r].on}

FlagSteps == {"profile.clear", "profile.save", "preset.clear", "preset.save", "branch.save", "branch.demote"}
\* Requests about to write a row of the place, or to clear its flags.
Touching(place) == {w \in Workers : req[w].at \in FlagSteps /\ place \in {req[w].place, req[w].copy.place}}

BeginFlag(w, at, r, copy) ==
  /\ Begin(w, [at |-> at, row |-> r, copy |-> copy, place |-> flags[r].place, others |-> {}])
  /\ muddled' = muddled \cup {p \in {flags[r].place, copy.place} : Touching(p) # {}}
                       \cup (IF copy.on /\ copy.place # flags[r].place THEN {copy.place} ELSE {})
  /\ UNCHANGED flags

SaveFlagRow(w) == flags' = [flags EXCEPT ![req[w].row] = req[w].copy] /\ Answer(w)

----------------------------------------------------------------------------
(* AIProfile: create, PATCH and activate, delete; save() clears the others. *)

WriteProfile(w, r) ==
  \E on \in BOOLEAN, state \in {"live", "gone"} :
    /\ flags[r].state = "live" \/ (flags[r].state = "none" /\ state = "live")
    /\ state = "gone" => on = flags[r].on
    /\ LET copy == [state |-> state, place |-> "profiles", on |-> on] IN
       BeginFlag(w, IF on THEN "profile.clear" ELSE "profile.save", r, copy)

\* Mutant: nobody loses the flag.
ClearNobody(rows) == flags

Cleared(rows) == [x \in Flagged |-> IF x \in rows THEN [flags[x] EXCEPT !.on = FALSE] ELSE flags[x]]

ClearProfiles(w) ==
  /\ At(w, "profile.clear")
  /\ flags' = Cleared(Carriers("profiles") \ {req[w].row})
  /\ Proceed(w, [req[w] EXCEPT !.at = "profile.save"])
  /\ UNCHANGED muddled

SaveProfile(w) == At(w, "profile.save") /\ SaveFlagRow(w) /\ UNCHANGED muddled

----------------------------------------------------------------------------
(* TablePreset: _enforce_single_default runs only when is_default is sent as true, and clears
   the table that is sent, or the table the row is on. *)

WritePreset(w, r) ==
  \E sent \in {"on", "off", "nothing"}, place \in Tables :
    /\ flags[r].state \in {"none", "live"}
    /\ LET on == sent = "on" \/ (sent = "nothing" /\ flags[r].on)
           copy == [state |-> "live", place |-> place, on |-> on] IN
       BeginFlag(w, IF sent = "on" THEN "preset.clear" ELSE "preset.save", r, copy)

ClearPresets(w) ==
  /\ At(w, "preset.clear")
  /\ flags' = Cleared(Carriers(req[w].copy.place))
  /\ Proceed(w, [req[w] EXCEPT !.at = "preset.save"])
  /\ UNCHANGED muddled

SavePreset(w) ==
  /\ At(w, "preset.save")
  /\ flags' = IF flags[req[w].row].state = "gone" THEN flags ELSE [flags EXCEPT ![req[w].row] = req[w].copy]
  /\ Answer(w)
  /\ UNCHANGED muddled

DropPreset(w, r) ==
  /\ AtOnce(w)
  /\ flags[r].state = "live"
  /\ flags' = [flags EXCEPT ![r].state = "gone"]
  /\ UNCHANGED muddled

----------------------------------------------------------------------------
(* Branch: only sudo's create demotes the others, in the transaction that inserts; the create and
   the PATCH of a store's admin, and the PATCH of sudo and of the assistant, take the flag as sent. *)

CreateBranch(w, r) ==
  /\ flags[r].state = "none"
  /\ \E on \in BOOLEAN :
       BeginFlag(w, "branch.demote", r, [state |-> "live", place |-> "branches", on |-> on])

\* The UPDATE sees the main branches that are committed when it starts.
FindMains(w) ==
  /\ At(w, "branch.demote")
  /\ Proceed(w, [req[w] EXCEPT !.at = "branch.save", !.others = IF req[w].copy.on THEN Carriers("branches") ELSE {}])
  /\ UNCHANGED flagVars

CommitBranch(w) ==
  /\ At(w, "branch.save")
  /\ flags' = [x \in Flagged |-> IF x = req[w].row THEN req[w].copy
                                 ELSE IF x \in req[w].others THEN [flags[x] EXCEPT !.on = FALSE]
                                 ELSE flags[x]]
  /\ Answer(w)
  /\ UNCHANGED muddled

WriteBranch(w, r) ==
  /\ AtOnce(w)
  /\ flags[r].state \in {"none", "live"}
  /\ \E on \in BOOLEAN :
       /\ flags' = [flags EXCEPT ![r] = [state |-> "live", place |-> "branches", on |-> on]]
       /\ muddled' = IF on THEN muddled \cup {"branches"} ELSE muddled

DieFlagging(w) == Crash(w) /\ UNCHANGED flagVars

FlagsNext ==
  \E w \in Workers :
    \/ \E r \in Profiles : WriteProfile(w, r)
    \/ \E r \in Presets : WritePreset(w, r) \/ DropPreset(w, r)
    \/ \E r \in Branches : CreateBranch(w, r) \/ WriteBranch(w, r)
    \/ ClearProfiles(w) \/ SaveProfile(w) \/ ClearPresets(w) \/ SavePreset(w)
    \/ FindMains(w) \/ CommitBranch(w) \/ DieFlagging(w)

FlagsSpec == SlotsInit /\ FlagsInit /\ [][FlagsNext]_<<slots, flagVars>>

FlagsTypeOK == flags \in [Flagged -> FlagRow] /\ muddled \subseteq Places

\* Requests that do not overlap leave at most one active profile, one default preset per table and
\* one main branch, also when one dies between its two statements; the exceptions are a default
\* preset moved to another table and a main branch set by a plain save, which clear nothing.
OneFlag == \A place \in Places \ muddled : Cardinality(Carriers(place)) <= 1
=============================================================================
