--------------------------- MODULE PlatformProofs ---------------------------
(***************************************************************************)
(* Proofs about the components of Platform that are not about tenants, for *)
(* any number of workers, requests and rows: flags, sessions, limits, the  *)
(* category tree and the search index.                                     *)
(* Each is proved of the specification of the component alone; the last    *)
(* section puts them, and those about tenants, together for Platform.      *)
(***************************************************************************)
EXTENDS Platform, TenancyProofs

----------------------------------------------------------------------------
(* Flags: OneFlag.

   While a place is not muddled at most one request touches it.  So what that request found or
   cleared in its first statement still holds when its second one sets the flag: nobody else
   carries it, or loses it in the same transaction. *)

flagSpecVars == <<slots, flagVars>>

FlagCopy == [state : {"live", "gone"}, place : Places, on : BOOLEAN]

FlagJob == [at : FlagSteps, row : Flagged, copy : FlagCopy, place : Places, others : SUBSET Flagged]

FlagJobOK(r) == r = Idle \/ r \in FlagJob

FlagsTyped ==
  /\ FlagsTypeOK
  /\ req = [w \in Workers |-> req[w]]
  /\ \A w \in Workers : FlagJobOK(req[w])

\* A row that was never saved carries nothing.
NewIsOff == \A r \in Flagged : flags[r].state = "none" => ~flags[r].on

\* What the first statement of a request was about.
PlaceFits ==
  \A w \in Workers :
    /\ req[w].at \in {"profile.clear", "profile.save"} => req[w].copy.place = "profiles"
    /\ req[w].at \in {"branch.demote", "branch.save"} => req[w].copy.place = "branches"

OneTouches == \A p \in Places \ muddled : \A v, w \in Touching(p) : v = w

OneCarries == \A p \in Places \ muddled : \A x, y \in Carriers(p) : x = y

\* A request about to set the flag found no other carrier, or takes the flag from those it found.
ReadyToSet ==
  \A w \in Workers : \A p \in Places \ muddled :
    /\ req[w].at \in {"profile.save", "preset.save"} /\ req[w].copy.on /\ req[w].copy.place = p =>
         Carriers(p) \subseteq {req[w].row}
    /\ req[w].at = "branch.save" /\ req[w].copy.on /\ req[w].copy.place = p =>
         Carriers(p) \subseteq req[w].others \cup {req[w].row}

FlagsInv == FlagsTyped /\ NewIsOff /\ PlaceFits /\ OneTouches /\ OneCarries /\ ReadyToSet
----------------------------------------------------------------------------

LEMMA HomePlaces ==
  ASSUME NEW r \in Flagged
  PROVE  (CHOOSE p \in Home(r) : TRUE) \in Places
<1>1. Home(r) \subseteq Places /\ \E p \in Home(r) : TRUE
  BY FlagsAssumption DEF Home, Places
<1> QED BY <1>1

LEMMA FlagsInitOK == SlotsInit /\ FlagsInit => FlagsInv
<1> SUFFICES ASSUME SlotsInit, FlagsInit PROVE FlagsInv
  OBVIOUS
<1>1. FlagsTyped
  BY HomePlaces DEF SlotsInit, FlagsInit, FlagsTyped, FlagsTypeOK, FlagRow, FlagJobOK
<1>2. \A p : Touching(p) = {} /\ Carriers(p) = {}
  BY DEF SlotsInit, FlagsInit, Touching, Carriers, Idle, FlagSteps
<1> QED BY <1>1, <1>2 DEF SlotsInit, FlagsInit, FlagsInv, NewIsOff, PlaceFits, OneTouches, OneCarries, ReadyToSet,
           Idle

\* What a request at one of the statements looks like.
LEMMA FlagShapes ==
  ASSUME FlagsTyped, NEW w \in Workers, req[w].at \in FlagSteps
  PROVE  /\ req[w] \in FlagJob
         /\ req[w].row \in Flagged /\ req[w].copy \in FlagCopy /\ req[w].place \in Places
         /\ req[w].copy.place \in Places /\ req[w].others \subseteq Flagged
         /\ req[w] # Idle
  BY DEF FlagsTyped, FlagJobOK, Idle, FlagJob, FlagCopy, FlagSteps

\* The slot of a step changes; the other slots do not.
LEMMA FlagSlotChanges ==
  ASSUME FlagsTyped, NEW w \in Workers, NEW job, req' = [req EXCEPT ![w] = job]
  PROVE  /\ req'[w] = job
         /\ \A x \in Workers \ {w} : req'[x] = req[x]
         /\ req' = [x \in Workers |-> req'[x]]
  BY DEF FlagsTyped

\* Beginning a request: it touches what no other request touches, or the place is muddled.
LEMMA BeginFlagStep ==
  ASSUME FlagsInv, NEW w \in Workers, NEW r \in Flagged, NEW copy \in FlagCopy, NEW at \in FlagSteps,
         BeginFlag(w, at, r, copy),
         at \in {"profile.clear", "profile.save"} => copy.place = "profiles",
         at \in {"branch.demote", "branch.save"} => copy.place = "branches",
         at # "branch.save",
         at = "profile.save" => ~copy.on,
         at = "preset.save" /\ copy.on => flags[r].on /\ flags[r].state # "gone"
  PROVE  FlagsInv'
<1> DEFINE job == [at |-> at, row |-> r, copy |-> copy, place |-> flags[r].place, others |-> {}]
<1>1. /\ req[w] = Idle /\ flags' = flags
      /\ req' = [req EXCEPT ![w] = job]
      /\ muddled' = muddled \cup {p \in {flags[r].place, copy.place} : Touching(p) # {}}
                       \cup (IF copy.on /\ copy.place # flags[r].place THEN {copy.place} ELSE {})
  BY DEF BeginFlag, Begin
<1>2. flags[r] \in FlagRow /\ flags[r].place \in Places /\ copy.place \in Places
  BY DEF FlagsInv, FlagsTyped, FlagsTypeOK, FlagRow, FlagCopy
<1>3. job \in FlagJob
  BY <1>2 DEF FlagJob
<1>4. /\ job.at = at /\ job.row = r /\ job.copy = copy /\ job.place = flags[r].place
      /\ job.others = {}
  OBVIOUS
<1> HIDE DEF job
<1>5. req'[w] = job /\ (\A x \in Workers \ {w} : req'[x] = req[x]) /\ req' = [x \in Workers |-> req'[x]]
  BY <1>1, FlagSlotChanges DEF FlagsInv
<1>6. FlagsTyped'
  BY <1>1, <1>2, <1>3, <1>5 DEF FlagsInv, FlagsTyped, FlagsTypeOK, FlagJobOK
<1>7. PlaceFits'
  BY <1>4, <1>5 DEF FlagsInv, PlaceFits
<1>8. muddled \subseteq muddled' /\ \A p : Carriers(p)' = Carriers(p)
  BY <1>1 DEF Carriers
<1>9. \A p : w \in Touching(p)' => p \in {flags[r].place, copy.place}
  BY <1>4, <1>5 DEF Touching
<1>10. \A p : \A x \in Touching(p)' : x # w => x \in Touching(p)
  BY <1>5 DEF Touching
<1>11. OneTouches'
  BY <1>1, <1>8, <1>9, <1>10 DEF FlagsInv, OneTouches
<1>12. OneCarries'
  BY <1>8 DEF FlagsInv, OneCarries
<1>13. ASSUME at = "preset.save", copy.on, NEW p \in Places \ muddled', copy.place = p
       PROVE  Carriers(p) \subseteq {r}
  <2>1. flags[r].place = p /\ flags[r].on /\ flags[r].state # "gone"
    BY <1>1, <1>13
  <2>2. r \in Carriers(p)
    BY <2>1, <1>2 DEF Carriers, FlagsInv, NewIsOff, FlagRow
  <2> QED BY <2>2, <1>8, <1>13 DEF FlagsInv, OneCarries
<1>14. ReadyToSet'
  <2> SUFFICES ASSUME NEW x \in Workers, NEW p \in Places \ muddled'
               PROVE  /\ req'[x].at \in {"profile.save", "preset.save"} /\ req'[x].copy.on /\ req'[x].copy.place = p =>
                           Carriers(p)' \subseteq {req'[x].row}
                      /\ req'[x].at = "branch.save" /\ req'[x].copy.on /\ req'[x].copy.place = p =>
                           Carriers(p)' \subseteq req'[x].others \cup {req'[x].row}
    BY DEF ReadyToSet
  <2>1. CASE x = w
    BY <2>1, <1>4, <1>5, <1>8, <1>13
  <2>2. CASE x # w
    BY <2>2, <1>5, <1>8 DEF FlagsInv, ReadyToSet
  <2> QED BY <2>1, <2>2
<1> QED BY <1>1, <1>6, <1>7, <1>11, <1>12, <1>14 DEF FlagsInv, NewIsOff

\* A step of a request that neither saves nor clears, or that ends one, and a deletion.
LEMMA QuietFlagStep ==
  ASSUME FlagsInv, NEW w \in Workers, UNCHANGED muddled,
         req' = req \/ req' = [req EXCEPT ![w] = Idle],
         flags' \in [Flagged -> FlagRow],
         \A x \in Flagged : /\ flags'[x].state = "none" => ~flags'[x].on
                            /\ flags'[x] = flags[x] \/ flags'[x].state = "gone" \/ ~flags'[x].on
  PROVE  FlagsInv'
<1>1. /\ req' = [x \in Workers |-> req'[x]]
      /\ \A x \in Workers : req'[x] = req[x] \/ req'[x] = Idle
  BY DEF FlagsInv, FlagsTyped
<1>2. \A p : Carriers(p)' \subseteq Carriers(p) /\ Touching(p)' \subseteq Touching(p)
  BY <1>1 DEF Carriers, Touching, Idle, FlagSteps
<1>3. FlagsTyped'
  BY <1>1 DEF FlagsInv, FlagsTyped, FlagsTypeOK, FlagJobOK
<1>4. PlaceFits'
  BY <1>1 DEF FlagsInv, PlaceFits, Idle
<1>5. OneTouches' /\ OneCarries'
  BY <1>2 DEF FlagsInv, OneTouches, OneCarries
<1>6. ReadyToSet'
  BY <1>1, <1>2 DEF FlagsInv, ReadyToSet, Idle
<1> QED BY <1>3, <1>4, <1>5, <1>6 DEF FlagsInv, NewIsOff

\* A first statement that clears the flag of the rows of the place it is about, but perhaps its own.
LEMMA ClearStep ==
  ASSUME FlagsInv, NEW w \in Workers, NEW named, NEW at \in {"profile.save", "preset.save"},
         req[w].at \in {"profile.clear", "preset.clear"},
         at = "profile.save" => req[w].at = "profile.clear",
         flags' = Cleared(named), Carriers(req[w].copy.place) \subseteq named \cup {req[w].row},
         req' = [req EXCEPT ![w] = [req[w] EXCEPT !.at = at]],
         UNCHANGED muddled
  PROVE  FlagsInv'
<1> DEFINE job == [at |-> at, row |-> req[w].row, copy |-> req[w].copy, place |-> req[w].place,
                   others |-> req[w].others]
<1>1. req[w] \in FlagJob /\ req[w].at \in FlagSteps
  BY FlagShapes DEF FlagsInv, FlagSteps
<1>2. job = [req[w] EXCEPT !.at = at] /\ job \in FlagJob
  BY <1>1 DEF FlagJob, FlagSteps
<1>3. /\ job.at = at /\ job.row = req[w].row /\ job.copy = req[w].copy /\ job.place = req[w].place
      /\ job.others = req[w].others
  OBVIOUS
<1> HIDE DEF job
<1>4. req'[w] = job /\ (\A x \in Workers \ {w} : req'[x] = req[x]) /\ req' = [x \in Workers |-> req'[x]]
  BY <1>2, FlagSlotChanges DEF FlagsInv
<1>5. /\ flags' \in [Flagged -> FlagRow]
      /\ \A x \in Flagged : /\ flags'[x].state = flags[x].state /\ flags'[x].place = flags[x].place
                            /\ flags'[x].on <=> flags[x].on /\ x \notin named
  BY DEF Cleared, FlagsInv, FlagsTyped, FlagsTypeOK, FlagRow
<1>6. \A p : Carriers(p)' = Carriers(p) \ named
  BY <1>5 DEF Carriers
<1>7. \A p : Touching(p)' \subseteq Touching(p)
  BY <1>1, <1>3, <1>4 DEF Touching
<1>8. FlagsTyped'
  BY <1>2, <1>4, <1>5 DEF FlagsInv, FlagsTyped, FlagsTypeOK, FlagJobOK
<1>9. PlaceFits' /\ NewIsOff'
  BY <1>3, <1>4, <1>5 DEF FlagsInv, PlaceFits, NewIsOff
<1>10. OneTouches' /\ OneCarries'
  BY <1>6, <1>7 DEF FlagsInv, OneTouches, OneCarries
<1>11. ReadyToSet'
  <2> SUFFICES ASSUME NEW x \in Workers, NEW p \in Places \ muddled
               PROVE  /\ req'[x].at \in {"profile.save", "preset.save"} /\ req'[x].copy.on /\ req'[x].copy.place = p =>
                           Carriers(p)' \subseteq {req'[x].row}
                      /\ req'[x].at = "branch.save" /\ req'[x].copy.on /\ req'[x].copy.place = p =>
                           Carriers(p)' \subseteq req'[x].others \cup {req'[x].row}
    BY DEF ReadyToSet
  <2>1. CASE x = w
    BY <2>1, <1>3, <1>4, <1>6
  <2>2. CASE x # w
    BY <2>2, <1>4, <1>6 DEF FlagsInv, ReadyToSet
  <2> QED BY <2>1, <2>2
<1> QED BY <1>8, <1>9, <1>10, <1>11 DEF FlagsInv

\* A second statement sets the flag of a row that nobody else of its place may carry, or takes the
\* flag from them in the same transaction.
LEMMA SaveStep ==
  ASSUME FlagsInv, NEW w \in Workers,
         req[w].at \in {"profile.save", "preset.save", "branch.save"},
         flags' = [x \in Flagged |-> IF x = req[w].row THEN req[w].copy
                                     ELSE IF req[w].at = "branch.save" /\ x \in req[w].others
                                          THEN [flags[x] EXCEPT !.on = FALSE]
                                     ELSE flags[x]],
         req' = [req EXCEPT ![w] = Idle],
         UNCHANGED muddled
  PROVE  FlagsInv'
<1> DEFINE row == req[w].row
           copy == req[w].copy
           named == IF req[w].at = "branch.save" THEN req[w].others ELSE {}
<1>1. row \in Flagged /\ copy \in FlagCopy /\ copy \in FlagRow /\ copy.place \in Places /\ req[w].at \in FlagSteps /\ req[w] # Idle
  BY FlagShapes DEF FlagsInv, FlagSteps, FlagCopy, FlagRow
<1>2. /\ req'[w] = Idle /\ (\A x \in Workers \ {w} : req'[x] = req[x]) /\ req' = [x \in Workers |-> req'[x]]
  BY FlagSlotChanges DEF FlagsInv
<1>3. /\ flags' \in [Flagged -> FlagRow]
      /\ flags'[row] = copy
      /\ \A x \in Flagged \ {row} :
           /\ flags'[x].state = flags[x].state /\ flags'[x].place = flags[x].place
           /\ flags'[x].on <=> flags[x].on /\ x \notin named
  BY <1>1 DEF FlagsInv, FlagsTyped, FlagsTypeOK, FlagRow
<1>4. FlagsTyped'
  BY <1>2, <1>3 DEF FlagsInv, FlagsTyped, FlagsTypeOK, FlagJobOK
<1>5. NewIsOff'
  BY <1>1, <1>3 DEF FlagsInv, NewIsOff, FlagCopy
<1>6. PlaceFits'
  BY <1>2 DEF FlagsInv, PlaceFits, Idle
<1>7. \A p : Touching(p)' \subseteq Touching(p) /\ w \notin Touching(p)'
  BY <1>2 DEF Touching, Idle, FlagSteps
<1>8. OneTouches'
  BY <1>7 DEF FlagsInv, OneTouches
<1>9. ASSUME NEW p \in Places \ muddled
      PROVE  Carriers(p)' \subseteq Carriers(p) \/ (p = copy.place /\ copy.on /\ Carriers(p)' \subseteq {row})
  <2>1. Carriers(p)' \subseteq (Carriers(p) \ named) \cup {row}
    BY <1>3 DEF Carriers
  <2>2. CASE p = copy.place /\ copy.on
    BY <1>1, <2>1, <2>2 DEF FlagsInv, ReadyToSet
  <2>3. CASE ~(p = copy.place /\ copy.on)
    BY <1>3, <2>1, <2>3 DEF Carriers
  <2> QED BY <2>2, <2>3
<1>10. OneCarries'
  BY <1>9 DEF FlagsInv, OneCarries
<1>11. ReadyToSet'
  <2> SUFFICES ASSUME NEW x \in Workers, NEW p \in Places \ muddled
               PROVE  /\ req'[x].at \in {"profile.save", "preset.save"} /\ req'[x].copy.on /\ req'[x].copy.place = p =>
                           Carriers(p)' \subseteq {req'[x].row}
                      /\ req'[x].at = "branch.save" /\ req'[x].copy.on /\ req'[x].copy.place = p =>
                           Carriers(p)' \subseteq req'[x].others \cup {req'[x].row}
    BY DEF ReadyToSet
  <2>1. CASE x = w
    BY <2>1, <1>2 DEF Idle
  <2>2. CASE x # w /\ p = copy.place
    <3>1. w \in Touching(p)
      BY <1>1, <2>2 DEF Touching
    <3>2. x \in Touching(p) => FALSE
      BY <2>2, <3>1 DEF FlagsInv, OneTouches
    <3>3. ~(req[x].at \in FlagSteps /\ req[x].copy.place = p)
      BY <3>2 DEF Touching
    <3> QED BY <3>3, <2>2, <1>2 DEF FlagSteps
  <2>3. CASE x # w /\ p # copy.place
    BY <2>3, <1>2, <1>9 DEF FlagsInv, ReadyToSet
  <2> QED BY <2>1, <2>2, <2>3
<1> QED BY <1>4, <1>5, <1>6, <1>8, <1>10, <1>11 DEF FlagsInv

LEMMA AtAndOthers ==
  ASSUME NEW r \in FlagJob, NEW a, NEW o
  PROVE  [r EXCEPT !.at = a, !.others = o] =
           [at |-> a, row |-> r.row, copy |-> r.copy, place |-> r.place, others |-> o]
<1>1. r = [at |-> r.at, row |-> r.row, copy |-> r.copy, place |-> r.place, others |-> r.others]
  BY DEF FlagJob
<1> DEFINE first == [r EXCEPT !.at = a]
<1>2. first = [at |-> a, row |-> r.row, copy |-> r.copy, place |-> r.place, others |-> r.others]
  BY <1>1
<1> HIDE DEF first
<1>3. [first EXCEPT !.others = o] =
        [at |-> a, row |-> r.row, copy |-> r.copy, place |-> r.place, others |-> o]
  BY <1>2
<1> QED BY <1>3 DEF first

LEMMA FindMainsStep ==
  ASSUME FlagsInv, NEW w \in Workers, FindMains(w)
  PROVE  FlagsInv'
<1> DEFINE mains == IF req[w].copy.on THEN Carriers("branches") ELSE {}
           job == [at |-> "branch.save", row |-> req[w].row, copy |-> req[w].copy, place |-> req[w].place,
                   others |-> mains]
<1>1. /\ req[w] \in FlagJob /\ req[w].at = "branch.demote" /\ req[w].copy.place = "branches"
      /\ UNCHANGED <<flags, muddled>>
  BY FlagShapes DEF FindMains, At, FlagsInv, PlaceFits, FlagSteps, flagVars
<1>2. mains \subseteq Flagged
  BY DEF Carriers
<1>3. [req[w] EXCEPT !.at = "branch.save", !.others = mains] = job /\ job \in FlagJob
  <2>1. [req[w] EXCEPT !.at = "branch.save", !.others = mains] = job
    BY <1>1, AtAndOthers
  <2>2. req[w].row \in Flagged /\ req[w].copy \in FlagCopy /\ req[w].place \in Places
    BY <1>1 DEF FlagJob
  <2>3. job \in FlagJob
    BY <1>2, <2>2 DEF FlagJob, FlagSteps
  <2> QED BY <2>1, <2>3
<1>4. req' = [req EXCEPT ![w] = job]
  BY <1>3 DEF FindMains, Proceed
<1>5. /\ job.at = "branch.save" /\ job.row = req[w].row /\ job.copy = req[w].copy /\ job.place = req[w].place
      /\ req[w].copy.on => job.others = Carriers("branches")
  OBVIOUS
<1> HIDE DEF job
<1>6. req'[w] = job /\ (\A x \in Workers \ {w} : req'[x] = req[x]) /\ req' = [x \in Workers |-> req'[x]]
  BY <1>4, FlagSlotChanges DEF FlagsInv
<1>7. \A p : Carriers(p)' = Carriers(p) /\ Touching(p)' \subseteq Touching(p)
  BY <1>1, <1>5, <1>6 DEF Carriers, Touching, FlagSteps
<1>8. FlagsTyped' /\ NewIsOff'
  BY <1>1, <1>3, <1>6 DEF FlagsInv, FlagsTyped, FlagsTypeOK, FlagJobOK, NewIsOff
<1>9. PlaceFits'
  BY <1>1, <1>5, <1>6 DEF FlagsInv, PlaceFits
<1>10. OneTouches' /\ OneCarries'
  BY <1>1, <1>7 DEF FlagsInv, OneTouches, OneCarries
<1>11. ReadyToSet'
  BY <1>1, <1>5, <1>6, <1>7 DEF FlagsInv, ReadyToSet
<1> QED BY <1>8, <1>9, <1>10, <1>11 DEF FlagsInv

LEMMA WriteBranchStep ==
  ASSUME FlagsInv, NEW w \in Workers, NEW r \in Branches, WriteBranch(w, r)
  PROVE  FlagsInv'
<1>1. PICK on \in BOOLEAN :
           /\ flags' = [flags EXCEPT ![r] = [state |-> "live", place |-> "branches", on |-> on]]
           /\ muddled' = IF on THEN muddled \cup {"branches"} ELSE muddled
  BY DEF WriteBranch
<1>2. req' = req
  BY DEF WriteBranch, AtOnce
<1>3. r \in Flagged /\ "branches" \in Places
  BY DEF Flagged, Places
<1>4. FlagsTyped'
  BY <1>1, <1>2, <1>3 DEF FlagsInv, FlagsTyped, FlagsTypeOK, FlagRow
<1>5. NewIsOff' /\ PlaceFits'
  BY <1>1, <1>2, <1>3 DEF FlagsInv, FlagsTyped, FlagsTypeOK, NewIsOff, PlaceFits
<1>6. muddled \subseteq muddled' /\ \A p : Touching(p)' = Touching(p)
  BY <1>1, <1>2 DEF Touching
<1>7. \A p \in Places \ muddled' : Carriers(p)' \subseteq Carriers(p)
  BY <1>1, <1>3 DEF Carriers, FlagsInv, FlagsTyped, FlagsTypeOK
<1>8. OneTouches' /\ OneCarries'
  BY <1>6, <1>7 DEF FlagsInv, OneTouches, OneCarries
<1>9. ReadyToSet'
  BY <1>2, <1>6, <1>7 DEF FlagsInv, ReadyToSet
<1> QED BY <1>4, <1>5, <1>8, <1>9 DEF FlagsInv

LEMMA FlagsStepOK == FlagsInv /\ [FlagsNext]_flagSpecVars => FlagsInv'
<1> SUFFICES ASSUME FlagsInv, [FlagsNext]_flagSpecVars PROVE FlagsInv'
  OBVIOUS
<1> USE DEF Flagged
<1>1. CASE UNCHANGED flagSpecVars
  <2>1. Carriers("profiles")' = Carriers("profiles")
    BY <1>1 DEF flagSpecVars, flagVars, slots, Carriers
  <2> QED BY <1>1 DEF flagSpecVars, flagVars, slots, FlagsInv, FlagsTyped, FlagsTypeOK, NewIsOff, PlaceFits, OneTouches,
              OneCarries, ReadyToSet, Carriers, Touching
<1>2. ASSUME NEW w \in Workers, NEW r \in Profiles, WriteProfile(w, r) PROVE FlagsInv'
  <2>1. PICK on \in BOOLEAN, state \in {"live", "gone"} :
          BeginFlag(w, IF on THEN "profile.clear" ELSE "profile.save", r,
                    [state |-> state, place |-> "profiles", on |-> on])
    BY <1>2 DEF WriteProfile
  <2>2. [state |-> state, place |-> "profiles", on |-> on] \in FlagCopy
    BY DEF FlagCopy, Places
  <2> QED BY <2>1, <2>2, BeginFlagStep DEF FlagSteps
<1>3. ASSUME NEW w \in Workers, NEW r \in Presets, WritePreset(w, r) PROVE FlagsInv'
  <2>1. PICK sent \in {"on", "off", "nothing"}, place \in Tables :
          /\ flags[r].state \in {"none", "live"}
          /\ BeginFlag(w, IF sent = "on" THEN "preset.clear" ELSE "preset.save", r,
                       [state |-> "live", place |-> place,
                        on |-> sent = "on" \/ (sent = "nothing" /\ flags[r].on)])
    BY <1>3 DEF WritePreset
  <2>2. [state |-> "live", place |-> place, on |-> sent = "on" \/ (sent = "nothing" /\ flags[r].on)] \in FlagCopy
    BY DEF FlagCopy, Places, FlagsInv, FlagsTyped, FlagsTypeOK, FlagRow
  <2> QED BY <2>1, <2>2, BeginFlagStep DEF FlagSteps
<1>4. ASSUME NEW w \in Workers, NEW r \in Branches, CreateBranch(w, r) PROVE FlagsInv'
  <2>1. PICK on \in BOOLEAN :
          BeginFlag(w, "branch.demote", r, [state |-> "live", place |-> "branches", on |-> on])
    BY <1>4 DEF CreateBranch
  <2>2. [state |-> "live", place |-> "branches", on |-> on] \in FlagCopy
    BY DEF FlagCopy, Places
  <2> QED BY <2>1, <2>2, BeginFlagStep DEF FlagSteps
<1>5. ASSUME NEW w \in Workers, ClearProfiles(w) PROVE FlagsInv'
  <2>1. req[w].copy.place = "profiles"
    BY <1>5 DEF ClearProfiles, At, FlagsInv, PlaceFits
  <2>2. Carriers(req[w].copy.place) \subseteq (Carriers("profiles") \ {req[w].row}) \cup {req[w].row}
    BY <2>1
  <2> QED BY <1>5, <2>2, ClearStep DEF ClearProfiles, At, Proceed
<1>6. ASSUME NEW w \in Workers, ClearPresets(w) PROVE FlagsInv'
  BY <1>6, ClearStep DEF ClearPresets, At, Proceed
<1>7. ASSUME NEW w \in Workers, SaveProfile(w) PROVE FlagsInv'
  <2>1. req[w].at = "profile.save" /\ req' = [req EXCEPT ![w] = Idle] /\ UNCHANGED muddled
    BY <1>7 DEF SaveProfile, SaveFlagRow, At, Answer, Proceed
  <2>2. flags' = [x \in Flagged |-> IF x = req[w].row THEN req[w].copy
                                    ELSE IF req[w].at = "branch.save" /\ x \in req[w].others
                                         THEN [flags[x] EXCEPT !.on = FALSE]
                                    ELSE flags[x]]
    BY <1>7, <2>1 DEF SaveProfile, SaveFlagRow, FlagsInv, FlagsTyped, FlagsTypeOK
  <2> QED BY <2>1, <2>2, SaveStep
<1>8. ASSUME NEW w \in Workers, SavePreset(w) PROVE FlagsInv'
  <2>1. req[w].row \in Flagged
    BY <1>8, FlagShapes DEF SavePreset, At, FlagsInv, FlagSteps
  <2>2. CASE flags[req[w].row].state = "gone"
    BY <1>8, <2>2, QuietFlagStep DEF SavePreset, Answer, Proceed, FlagsInv, FlagsTyped, FlagsTypeOK, NewIsOff
  <2>3. CASE flags[req[w].row].state # "gone"
    <3>1. req[w].at = "preset.save" /\ req' = [req EXCEPT ![w] = Idle] /\ UNCHANGED muddled
      BY <1>8 DEF SavePreset, At, Answer, Proceed
    <3>2. flags' = [x \in Flagged |-> IF x = req[w].row THEN req[w].copy
                                      ELSE IF req[w].at = "branch.save" /\ x \in req[w].others
                                           THEN [flags[x] EXCEPT !.on = FALSE]
                                      ELSE flags[x]]
      BY <1>8, <2>3, <3>1 DEF SavePreset, FlagsInv, FlagsTyped, FlagsTypeOK
    <3> QED BY <3>1, <3>2, SaveStep
  <2> QED BY <2>2, <2>3
<1>9. ASSUME NEW w \in Workers, CommitBranch(w) PROVE FlagsInv'
  <2>1. req[w].at = "branch.save" /\ req' = [req EXCEPT ![w] = Idle] /\ UNCHANGED muddled
    BY <1>9 DEF CommitBranch, At, Answer, Proceed
  <2>2. flags' = [x \in Flagged |-> IF x = req[w].row THEN req[w].copy
                                    ELSE IF req[w].at = "branch.save" /\ x \in req[w].others
                                         THEN [flags[x] EXCEPT !.on = FALSE]
                                    ELSE flags[x]]
    BY <1>9, <2>1 DEF CommitBranch
  <2> QED BY <2>1, <2>2, SaveStep
<1>10. ASSUME NEW w \in Workers, NEW r \in Presets, DropPreset(w, r) PROVE FlagsInv'
  <2>1. /\ flags' \in [Flagged -> FlagRow]
        /\ \A x \in Flagged : flags'[x] = flags[x] \/ flags'[x].state = "gone"
    BY <1>10 DEF DropPreset, FlagsInv, FlagsTyped, FlagsTypeOK, FlagRow
  <2> QED BY <1>10, <2>1, QuietFlagStep DEF DropPreset, AtOnce, FlagsInv, NewIsOff
<1>11. ASSUME NEW w \in Workers, DieFlagging(w) PROVE FlagsInv'
  BY <1>11, QuietFlagStep DEF DieFlagging, Crash, Answer, Proceed, flagVars, FlagsInv, FlagsTyped, FlagsTypeOK, NewIsOff
<1> QED BY <1>1, <1>2, <1>3, <1>4, <1>5, <1>6, <1>7, <1>8, <1>9, <1>10, <1>11, FindMainsStep, WriteBranchStep
        DEF FlagsNext

LEMMA FlagsGiveOne == FlagsInv => OneFlag
<1> SUFFICES ASSUME FlagsInv, NEW p \in Places \ muddled PROVE Cardinality(Carriers(p)) <= 1
  BY DEF OneFlag
<1>1. Carriers(p) = {} \/ \E x : Carriers(p) = {x}
  BY DEF FlagsInv, OneCarries
<1>2. CASE Carriers(p) = {}
  BY <1>2, FS_EmptySet
<1>3. ASSUME NEW x, Carriers(p) = {x} PROVE Cardinality(Carriers(p)) <= 1
  <2>1. Cardinality({x}) = 1
    BY FS_Singleton
  <2> QED BY <1>3, <2>1
<1> QED BY <1>1, <1>2, <1>3

\* Outside the places that were muddled nobody shares the flag: for any number of profiles, presets,
\* tables, branches and requests, and wherever a request dies.
THEOREM FlagsKept == FlagsSpec => []OneFlag
<1>1. [FlagsNext]_flagSpecVars <=> [FlagsNext]_<<slots, flagVars>>
  BY DEF flagSpecVars
<1> QED BY FlagsGiveOne, <1>1, FlagsInitOK, FlagsStepOK, PTL DEF FlagsSpec

----------------------------------------------------------------------------
(* Sessions: LoggedOutStays.

   What makes it inductive is where a live token of a kicked login could come from: a token that
   the pending kill switch did not list, or a rotation in flight.  Both are only there when the
   login was raced. *)

sessionSpecVars == <<slots, sessionVars>>

Used(t) == token[t].state # "none"

RequestOK(r) ==
  \/ r = Idle
  \/ r \in [at : {"login", "refresh.blacklist", "refresh.issue"}, tok : Tokens]
  \/ r \in [at : {"kick.blacklist"}, toks : SUBSET Tokens]

SessionsTyped ==
  /\ req = [w \in Workers |-> req[w]]
  /\ \A w \in Workers : RequestOK(req[w])
  /\ token \in [Tokens -> Token]
  /\ held \subseteq Tokens

\* Tokens that a browser or a request knows of were issued.
KnownUsed ==
  /\ \A t \in held : Used(t)
  /\ \A w \in Workers : req[w].at \in {"login", "refresh.blacklist", "refresh.issue"} => Used(req[w].tok)
  /\ \A w \in Kicking : \A t \in req[w].toks : Used(t)

\* A login's token was issued before those that descend from it, to the same user.
RootsUsed == \A t \in Tokens : Used(t) => Used(token[t].root) /\ token[t].user = token[token[t].root].user

KickedUsed == \A t \in kicked : t \in Tokens /\ Used(t)

\* A live token that a pending kill switch did not list, of a login that it did.
UnlistedRaced ==
  \A w \in Kicking : \A s \in req[w].toks : \A t \in Tokens \ req[w].toks :
    token[t].state = "live" /\ token[t].root = token[s].root => token[t].root \in raced

\* A rotation in flight of a login that is being kicked, or was.
RotationRaced ==
  \A x \in Refreshing :
    /\ \A w \in Kicking : \A s \in req[w].toks :
         token[req[x].tok].root = token[s].root => token[s].root \in raced
    /\ token[req[x].tok].root \in kicked => token[req[x].tok].root \in raced

SessionsInv == SessionsTyped /\ KnownUsed /\ RootsUsed /\ KickedUsed /\ UnlistedRaced /\ RotationRaced /\ LoggedOutStays
----------------------------------------------------------------------------

LEMMA SessionsInitOK == SlotsInit /\ SessionsInit => SessionsInv
  BY DEF SlotsInit, SessionsInit, SessionsInv, SessionsTyped, RequestOK, KnownUsed, RootsUsed, KickedUsed, UnlistedRaced,
         RotationRaced, LoggedOutStays, Refreshing, Kicking, Idle, Used, Token

\* What a request in progress looks like, by the statement it is at.
LEMMA SessionShapes ==
  ASSUME SessionsTyped, NEW w \in Workers
  PROVE  /\ req[w].at \in {"login", "refresh.blacklist", "refresh.issue"} =>
              /\ req[w] \in [at : {"login", "refresh.blacklist", "refresh.issue"}, tok : Tokens]
              /\ req[w].tok \in Tokens
         /\ req[w].at = "kick.blacklist" => req[w].toks \subseteq Tokens
  BY DEF SessionsTyped, RequestOK, Idle

\* A step that ends a request at most, and touches no token, keeps the invariant.
LEMMA QuietSessionStep ==
  ASSUME SessionsInv, UNCHANGED <<token, held, kicked, raced>>,
         req' = req \/ \E w \in Workers : req' = [req EXCEPT ![w] = Idle]
  PROVE  SessionsInv'
<1>1. req' = [w \in Workers |-> req'[w]] /\ \A w \in Workers : req'[w] = req[w] \/ req'[w] = Idle
  BY DEF SessionsInv, SessionsTyped
<1>2. SessionsTyped'
  BY <1>1 DEF SessionsInv, SessionsTyped, RequestOK
<1>3. Refreshing' \subseteq Refreshing /\ Kicking' \subseteq Kicking
  BY <1>1 DEF Refreshing, Kicking, Idle
<1>4. \A w \in Refreshing' \cup Kicking' : req'[w] = req[w]
  BY <1>1 DEF Refreshing, Kicking, Idle
<1>5. KnownUsed'
  BY <1>1, <1>3, <1>4 DEF SessionsInv, KnownUsed, Used, Idle
<1>6. UnlistedRaced' /\ RotationRaced'
  BY <1>3, <1>4 DEF SessionsInv, UnlistedRaced, RotationRaced
<1> QED BY <1>2, <1>5, <1>6 DEF SessionsInv, RootsUsed, KickedUsed, LoggedOutStays, Used

LEMMA LoginStep ==
  ASSUME SessionsInv, NEW w \in Workers, NEW u \in Users, PassPassword(w, u)
  PROVE  SessionsInv'
<1>1. PICK t \in Tokens : /\ token[t].state = "none"
                          /\ token' = [token EXCEPT ![t] = [state |-> "live", user |-> u, root |-> t]]
                          /\ req' = [req EXCEPT ![w] = [at |-> "login", tok |-> t]]
                          /\ req[w] = Idle
  BY DEF PassPassword, Issued, Begin
<1>2. held' = held /\ kicked' = kicked /\ raced' = raced
  BY DEF PassPassword
<1>3. SessionsTyped'
  BY <1>1, <1>2 DEF SessionsInv, SessionsTyped, RequestOK, Token
<1>4. \A s \in Tokens \ {t} : token'[s] = token[s] /\ (Used(s) => token[s].root # t)
  BY <1>1 DEF SessionsInv, SessionsTyped, RootsUsed, Used
<1>5. token'[t] = [state |-> "live", user |-> u, root |-> t]
  BY <1>1 DEF SessionsInv, SessionsTyped
<1>6. \A s \in Tokens : Used(s) => s # t /\ token'[s].state # "none"
  BY <1>1, <1>4 DEF Used
<1>7. Refreshing' = Refreshing /\ Kicking' = Kicking /\ \A x \in Refreshing \cup Kicking : req'[x] = req[x]
  BY <1>1 DEF SessionsInv, SessionsTyped, Refreshing, Kicking, Idle
<1>8. KnownUsed'
  <2>1. \A s \in held' : token'[s].state # "none"
    BY <1>2, <1>6 DEF SessionsInv, KnownUsed, SessionsTyped, Used
  <2>2. \A x \in Workers : req'[x].at \in {"login", "refresh.blacklist", "refresh.issue"} =>
          \/ token'[req[x].tok].state # "none" /\ req'[x].tok = req[x].tok
          \/ x = w
    BY <1>1, <1>6, SessionShapes DEF SessionsInv, KnownUsed, SessionsTyped, Used
  <2>3. token'[req'[w].tok].state # "none"
    BY <1>1, <1>5 DEF SessionsInv, SessionsTyped, Used
  <2> QED BY <1>1, <1>2, <1>5, <1>6, <1>7, <2>1, <2>2, <2>3, SessionShapes DEF SessionsInv, KnownUsed, Kicking, SessionsTyped, Used
<1>9. RootsUsed'
  BY <1>1, <1>4, <1>5, <1>6 DEF SessionsInv, RootsUsed, Used, SessionsTyped, Token
<1>10. KickedUsed'
  BY <1>2, <1>6 DEF SessionsInv, KickedUsed, Used
<1>11. UnlistedRaced'
  BY <1>1, <1>2, <1>4, <1>5, <1>6, <1>7, SessionShapes DEF SessionsInv, UnlistedRaced, Kicking, KnownUsed, Used
<1>12. RotationRaced'
  BY <1>1, <1>2, <1>4, <1>5, <1>6, <1>7, SessionShapes DEF SessionsInv, RotationRaced, Kicking, Refreshing, KnownUsed, Used
<1>13. LoggedOutStays'
  BY <1>2, <1>4, <1>5, <1>1 DEF SessionsInv, LoggedOutStays, KickedUsed, Used
<1> QED BY <1>3, <1>8, <1>9, <1>10, <1>11, <1>12, <1>13 DEF SessionsInv

\* Blacklisting some tokens that were issued: a subset of what was live stays live.
LEMMA BlacklistFacts ==
  ASSUME SessionsTyped, NEW ts \in SUBSET Tokens, \A t \in ts : Used(t), token' = Blacklisted(ts)
  PROVE  /\ token' \in [Tokens -> Token]
         /\ \A t \in Tokens : /\ token'[t].root = token[t].root
                               /\ token'[t].user = token[t].user
                               /\ token'[t].root \in Tokens
                               /\ (token[t].state = "none" <=> token'[t].state = "none")
                               /\ token'[t].state = "live" <=> token[t].state = "live" /\ t \notin ts
  BY DEF SessionsTyped, Blacklisted, Token, Used

\* A step that blacklists tokens, and begins nothing. A login that it adds to the kicked ones has no
\* other live token and no rotation in flight, or is raced.
LEMMA BlacklistStep ==
  ASSUME SessionsInv, SessionsTyped',
         NEW ts \in SUBSET Tokens, \A t \in ts : Used(t), token' = Blacklisted(ts),
         UNCHANGED <<held, raced>>,
         \A w \in Workers : req'[w].at \in {"login", "refresh.blacklist", "refresh.issue"} =>
            /\ req[w].at \in {"login", "refresh.blacklist", "refresh.issue"}
            /\ req'[w].tok = req[w].tok
            /\ w \in Refreshing' => w \in Refreshing,
         \A w \in Kicking' : w \in Kicking /\ req'[w].toks = req[w].toks,
         \A r \in kicked' \ kicked :
            /\ r \in Tokens /\ Used(r)
            /\ \A t \in Tokens \ ts : token[t].state = "live" /\ token[t].root = r => r \in raced
            /\ \A x \in Refreshing : token[req[x].tok].root = r => r \in raced
  PROVE  SessionsInv'
<1>1. \A s \in Tokens : /\ token'[s].root = token[s].root
                        /\ token'[s].user = token[s].user
                        /\ token[s].root \in Tokens
                        /\ (token[s].state = "none" <=> token'[s].state = "none")
                        /\ (token'[s].state = "live" => token[s].state = "live" /\ s \notin ts)
  <2>1. SessionsTyped
    BY DEF SessionsInv
  <2>2. \A t \in Tokens : /\ token'[t].root = token[t].root
                          /\ token'[t].user = token[t].user
                          /\ token'[t].root \in Tokens
                          /\ (token[t].state = "none" <=> token'[t].state = "none")
                          /\ token'[t].state = "live" <=> token[t].state = "live" /\ t \notin ts
    BY <2>1 DEF SessionsTyped, Blacklisted, Token, Used
  <2> QED BY <2>2
<1>2. \A w \in Refreshing' : w \in Refreshing /\ req[w].tok \in Tokens /\ req'[w].tok = req[w].tok
  BY SessionShapes DEF SessionsInv, Refreshing
<1>3. \A w \in Kicking' : w \in Kicking /\ req[w].toks \subseteq Tokens /\ req'[w].toks = req[w].toks
  BY SessionShapes DEF SessionsInv, Kicking
<1>4. KnownUsed'
  <2>1. \A w \in Workers : req'[w].at \in {"login", "refresh.blacklist", "refresh.issue"} =>
           token'[req'[w].tok].state # "none"
    BY <1>1, SessionShapes DEF SessionsInv, KnownUsed, Used
  <2>2. \A t \in held' : token'[t].state # "none"
    BY <1>1 DEF SessionsInv, SessionsTyped, KnownUsed, Used
  <2>3. \A w \in Kicking' : \A t \in req'[w].toks : token'[t].state # "none"
    BY <1>1, <1>3 DEF SessionsInv, KnownUsed, Used
  <2> QED BY <2>1, <2>2, <2>3 DEF KnownUsed, Used
<1>5. RootsUsed'
  BY <1>1 DEF SessionsInv, RootsUsed, Used
<1>6. KickedUsed'
  <2>1. \A r \in kicked' : r \in Tokens /\ token[r].state # "none"
    BY DEF SessionsInv, SessionsTyped, KickedUsed, Used
  <2> QED BY <1>1, <2>1 DEF KickedUsed, Used
<1>7. UnlistedRaced'
  BY <1>1, <1>3 DEF SessionsInv, UnlistedRaced
<1>8. RotationRaced'
  BY <1>1, <1>2, <1>3 DEF SessionsInv, RotationRaced
<1>9. LoggedOutStays'
  BY <1>1 DEF SessionsInv, LoggedOutStays
<1> QED BY <1>4, <1>5, <1>6, <1>7, <1>8, <1>9 DEF SessionsInv

LEMMA LogoutStep ==
  ASSUME SessionsInv, NEW w \in Workers, NEW t \in Tokens, Logout(w, t)
  PROVE  SessionsInv'
<1> DEFINE ts == {t}
<1>1. /\ token' = Blacklisted(ts) /\ ts \in SUBSET Tokens /\ \A s \in ts : Used(s)
      /\ UNCHANGED <<req, held, kicked, raced>>
  BY DEF Logout, AtOnce, SessionsInv, KnownUsed
<1> HIDE DEF ts
<1>2. SessionsTyped'
  BY <1>1, BlacklistFacts DEF SessionsInv, SessionsTyped, RequestOK
<1>3. Kicking' = Kicking /\ Refreshing' = Refreshing
  BY <1>1 DEF Kicking, Refreshing
<1> QED BY <1>1, <1>2, <1>3, BlacklistStep

LEMMA BlacklistOldStep ==
  ASSUME SessionsInv, NEW w \in Workers, BlacklistOld(w)
  PROVE  SessionsInv'
<1> DEFINE ts == {req[w].tok}
<1>1. /\ req[w].at = "refresh.blacklist" /\ req[w].tok \in Tokens /\ Used(req[w].tok)
      /\ req' = [req EXCEPT ![w] = [req[w] EXCEPT !.at = "refresh.issue"]]
      /\ UNCHANGED <<held, kicked, raced>>
  BY SessionShapes DEF BlacklistOld, At, Proceed, SessionsInv, KnownUsed
<1>2. token' = Blacklisted(ts) /\ ts \in SUBSET Tokens /\ \A s \in ts : Used(s)
  BY <1>1 DEF BlacklistOld
<1> HIDE DEF ts
<1>3. /\ req' = [x \in Workers |-> req'[x]]
      /\ req'[w] = [at |-> "refresh.issue", tok |-> req[w].tok]
      /\ \A x \in Workers \ {w} : req'[x] = req[x]
  BY <1>1, SessionShapes DEF SessionsInv, SessionsTyped
<1>4. SessionsTyped'
  BY <1>1, <1>2, <1>3, BlacklistFacts DEF SessionsInv, SessionsTyped, RequestOK
<1>5. /\ \A x \in Workers : req'[x].at \in {"login", "refresh.blacklist", "refresh.issue"} =>
           /\ req[x].at \in {"login", "refresh.blacklist", "refresh.issue"}
           /\ req'[x].tok = req[x].tok
           /\ x \in Refreshing' => x \in Refreshing
      /\ \A x \in Kicking' : x \in Kicking /\ req'[x].toks = req[x].toks
  BY <1>1, <1>3 DEF Refreshing, Kicking
<1> QED BY <1>1, <1>2, <1>4, <1>5, BlacklistStep

LEMMA KickStep ==
  ASSUME SessionsInv, NEW w \in Workers, BlacklistListed(w)
  PROVE  SessionsInv'
<1> DEFINE ts == req[w].toks
<1>1. /\ req[w].at = "kick.blacklist" /\ ts \in SUBSET Tokens /\ w \in Kicking /\ \A s \in ts : Used(s)
      /\ req' = [req EXCEPT ![w] = Idle]
      /\ token' = Blacklisted(ts)
      /\ UNCHANGED <<held, raced>>
  BY SessionShapes DEF BlacklistListed, At, Answer, Proceed, SessionsInv, KnownUsed, Kicking
<1>2. \A r \in kicked' \ kicked : \E s \in ts : r = token[s].root
  BY DEF BlacklistListed
<1>3. \A s \in ts : /\ token[s].root \in Tokens /\ Used(token[s].root)
                    /\ \A t \in Tokens \ ts : token[t].state = "live" /\ token[t].root = token[s].root => token[s].root \in raced
                    /\ \A x \in Refreshing : token[req[x].tok].root = token[s].root => token[s].root \in raced
  BY <1>1 DEF SessionsInv, SessionsTyped, Token, RootsUsed, UnlistedRaced, RotationRaced
<1> HIDE DEF ts
<1>4. \A x \in Workers : req'[x] = req[x] \/ req'[x] = Idle
  BY <1>1 DEF SessionsInv, SessionsTyped
<1>5. SessionsTyped'
  BY <1>1, BlacklistFacts DEF SessionsInv, SessionsTyped, RequestOK
<1>6. /\ \A x \in Workers : req'[x].at \in {"login", "refresh.blacklist", "refresh.issue"} =>
           /\ req[x].at \in {"login", "refresh.blacklist", "refresh.issue"}
           /\ req'[x].tok = req[x].tok
           /\ x \in Refreshing' => x \in Refreshing
      /\ \A x \in Kicking' : x \in Kicking /\ req'[x].toks = req[x].toks
  BY <1>4 DEF Refreshing, Kicking, Idle
<1>7. \A r \in kicked' \ kicked :
         /\ r \in Tokens /\ Used(r)
         /\ \A t \in Tokens \ ts : token[t].state = "live" /\ token[t].root = r => r \in raced
         /\ \A x \in Refreshing : token[req[x].tok].root = r => r \in raced
  BY <1>2, <1>3
<1> QED BY <1>1, <1>5, <1>6, <1>7, BlacklistStep

LEMMA RefreshStep ==
  ASSUME SessionsInv, NEW w \in Workers, NEW t \in Tokens, Refresh(w, t)
  PROVE  SessionsInv'
<1>1. /\ req' = [req EXCEPT ![w] = [at |-> "refresh.blacklist", tok |-> t]] /\ req[w] = Idle
      /\ token[t].state = "live"
      /\ UNCHANGED <<token, held, kicked>>
      /\ raced \subseteq raced'
      /\ Kicking # {} => token[t].root \in raced'
  BY DEF Refresh, Begin, Usable
<1>2. SessionsTyped'
  BY <1>1 DEF SessionsInv, SessionsTyped, RequestOK
<1>3. Kicking' = Kicking /\ Refreshing' = Refreshing \cup {w} /\ \A x \in Workers \ {w} : req'[x] = req[x]
  BY <1>1 DEF SessionsInv, SessionsTyped, Kicking, Refreshing, Idle
<1>4. req'[w] = [at |-> "refresh.blacklist", tok |-> t] /\ w \notin Kicking
  BY <1>1 DEF SessionsInv, SessionsTyped, Kicking, Idle
<1>5. KnownUsed'
  BY <1>1, <1>3, <1>4 DEF SessionsInv, KnownUsed, Used, Kicking
<1>6. RootsUsed' /\ KickedUsed' /\ LoggedOutStays'
  BY <1>1 DEF SessionsInv, RootsUsed, KickedUsed, LoggedOutStays, Used
<1>7. UnlistedRaced'
  BY <1>1, <1>3, <1>4 DEF SessionsInv, UnlistedRaced, Kicking
<1>8. RotationRaced'
  BY <1>1, <1>3, <1>4 DEF SessionsInv, RotationRaced, Kicking, Refreshing, LoggedOutStays
<1> QED BY <1>2, <1>5, <1>6, <1>7, <1>8 DEF SessionsInv

LEMMA IssueStep ==
  ASSUME SessionsInv, NEW w \in Workers, IssueNext(w)
  PROVE  SessionsInv'
<1> DEFINE old == req[w].tok
<1>1. /\ req[w].at = "refresh.issue" /\ old \in Tokens /\ Used(old) /\ w \in Refreshing
      /\ req' = [req EXCEPT ![w] = Idle] /\ kicked' = kicked /\ raced' = raced
  BY SessionShapes DEF IssueNext, At, Answer, Proceed, SessionsInv, KnownUsed, Refreshing, Used
<1>2. PICK t \in Tokens : /\ token[t].state = "none"
                          /\ token' = [token EXCEPT ![t] = [state |-> "live", user |-> token[old].user, root |-> token[old].root]]
                          /\ held' = held \cup {t}
  BY DEF IssueNext, Issued
<1> HIDE DEF old
<1>3. SessionsTyped'
  BY <1>1, <1>2 DEF SessionsInv, SessionsTyped, RequestOK, Token
<1>4. \A s \in Tokens \ {t} : token'[s] = token[s] /\ (Used(s) => token[s].root # t)
  BY <1>2 DEF SessionsInv, SessionsTyped, RootsUsed, Used
<1>5. token'[t] = [state |-> "live", user |-> token[old].user, root |-> token[old].root] /\ t # old
  BY <1>1, <1>2 DEF SessionsInv, SessionsTyped, Used
<1>6. \A s \in Tokens : Used(s) => s # t /\ token'[s].state # "none"
  BY <1>2, <1>4 DEF Used
<1>7. /\ Refreshing' \subseteq Refreshing /\ Kicking' \subseteq Kicking
      /\ \A x \in Workers : req'[x] = req[x] \/ req'[x] = Idle
  BY <1>1 DEF SessionsInv, SessionsTyped, Refreshing, Kicking, Idle
<1>8. \A x \in Refreshing' \cup Kicking' : req'[x] = req[x]
  BY <1>7 DEF Refreshing, Kicking, Idle
<1>9. KnownUsed'
  <2>1. \A s \in held' : token'[s].state # "none"
    BY <1>2, <1>5, <1>6 DEF SessionsInv, KnownUsed, SessionsTyped, Used
  <2>2. \A x \in Workers : req'[x].at \in {"login", "refresh.blacklist", "refresh.issue"} => token'[req[x].tok].state # "none" /\ req'[x].tok = req[x].tok
    BY <1>6, <1>7, SessionShapes DEF SessionsInv, KnownUsed, SessionsTyped, Idle, Used
  <2>3. \A x \in Kicking' : \A s \in req'[x].toks : token'[s].state # "none"
    BY <1>6, <1>7, <1>8, SessionShapes DEF SessionsInv, KnownUsed, Kicking, Used
  <2>4. \A x \in Workers : req'[x].at \in {"login", "refresh.blacklist", "refresh.issue"} => token'[req'[x].tok].state # "none"
    BY <2>2, <1>6, <1>7, SessionShapes DEF SessionsInv, KnownUsed, SessionsTyped, Used, Idle
  <2> QED BY <2>1, <2>3, <2>4 DEF KnownUsed, Used
<1>10. token[old].root \in Tokens /\ Used(token[old].root) /\ token[old].user = token[token[old].root].user
  BY <1>1 DEF SessionsInv, RootsUsed, SessionsTyped, Token, Used
<1>11. RootsUsed'
  BY <1>2, <1>4, <1>5, <1>6, <1>10 DEF SessionsInv, RootsUsed, Used, SessionsTyped, Token
<1>12. KickedUsed'
  BY <1>1, <1>6 DEF SessionsInv, KickedUsed, Used
<1>13. \A x \in Kicking : \A s \in req[x].toks : token[s].root = token[old].root => token[old].root \in raced
  BY <1>1 DEF SessionsInv, RotationRaced, old
<1>14. token[old].root \in kicked => token[old].root \in raced
  BY <1>1 DEF SessionsInv, RotationRaced, old
<1>15. UnlistedRaced'
  BY <1>1, <1>2, <1>4, <1>5, <1>6, <1>7, <1>8, <1>13, SessionShapes DEF SessionsInv, UnlistedRaced, Kicking, KnownUsed, Used
<1>16. RotationRaced'
  BY <1>1, <1>2, <1>4, <1>5, <1>6, <1>7, <1>8, SessionShapes DEF SessionsInv, RotationRaced, Kicking, Refreshing, KnownUsed, Used
<1>17. LoggedOutStays'
  BY <1>1, <1>2, <1>4, <1>5, <1>14 DEF SessionsInv, LoggedOutStays
<1> QED BY <1>3, <1>9, <1>11, <1>12, <1>15, <1>16, <1>17 DEF SessionsInv

LEMMA ListStep ==
  ASSUME SessionsInv, NEW w \in Workers, NEW users, ListTokens(w, users)
  PROVE  SessionsInv'
<1> DEFINE toks == ActiveTokens(users)
<1>1. /\ req' = [req EXCEPT ![w] = [at |-> "kick.blacklist", toks |-> toks]] /\ req[w] = Idle
      /\ UNCHANGED <<token, held, kicked>>
      /\ raced' = raced \cup {token[req[x].tok].root : x \in Refreshing}
  BY DEF ListTokens, Begin
<1>2. /\ toks \subseteq Tokens
      /\ \A s \in toks : Used(s)
      /\ \A s \in toks, t \in Tokens : token[t].state = "live" /\ token[t].root = token[s].root => t \in toks
  BY DEF ActiveTokens, SessionsInv, RootsUsed, Used
<1> HIDE DEF toks
<1>3. SessionsTyped'
  BY <1>1, <1>2 DEF SessionsInv, SessionsTyped, RequestOK
<1>4. Kicking' = Kicking \cup {w} /\ Refreshing' = Refreshing /\ w \notin Kicking /\ w \notin Refreshing
  BY <1>1 DEF SessionsInv, SessionsTyped, Kicking, Refreshing, Idle
<1>5. req'[w] = [at |-> "kick.blacklist", toks |-> toks] /\ \A x \in Workers \ {w} : req'[x] = req[x]
  BY <1>1 DEF SessionsInv, SessionsTyped
<1>6. KnownUsed'
  BY <1>1, <1>2, <1>4, <1>5 DEF SessionsInv, KnownUsed, Used, Kicking
<1>7. RootsUsed' /\ KickedUsed' /\ LoggedOutStays'
  BY <1>1 DEF SessionsInv, RootsUsed, KickedUsed, LoggedOutStays, Used
<1>8. UnlistedRaced'
  BY <1>1, <1>2, <1>4, <1>5 DEF SessionsInv, UnlistedRaced, Kicking
<1>9. RotationRaced'
  BY <1>1, <1>2, <1>4, <1>5 DEF SessionsInv, RotationRaced, Refreshing, Kicking
<1> QED BY <1>3, <1>6, <1>7, <1>8, <1>9 DEF SessionsInv

LEMMA DeliverStep ==
  ASSUME SessionsInv, NEW w \in Workers, Deliver(w)
  PROVE  SessionsInv'
<1>1. /\ req[w].at = "login" /\ req[w].tok \in Tokens /\ Used(req[w].tok)
      /\ req' = [req EXCEPT ![w] = Idle]
      /\ held' = held \cup {req[w].tok}
      /\ UNCHANGED <<token, kicked, raced>>
  BY SessionShapes DEF Deliver, At, Answer, Proceed, SessionsInv, KnownUsed, Used
<1>2. /\ Refreshing' = Refreshing /\ Kicking' = Kicking
      /\ \A x \in Workers : req'[x] = req[x] \/ req'[x] = Idle
  BY <1>1 DEF SessionsInv, SessionsTyped, Refreshing, Kicking, Idle
<1>3. \A x \in Refreshing \cup Kicking : req'[x] = req[x]
  BY <1>2 DEF Refreshing, Kicking, Idle
<1>4. SessionsTyped'
  BY <1>1 DEF SessionsInv, SessionsTyped, RequestOK
<1>5. KnownUsed'
  BY <1>1, <1>2, <1>3 DEF SessionsInv, KnownUsed, Used, Idle
<1>6. UnlistedRaced' /\ RotationRaced'
  BY <1>1, <1>2, <1>3 DEF SessionsInv, UnlistedRaced, RotationRaced
<1> QED BY <1>1, <1>4, <1>5, <1>6 DEF SessionsInv, RootsUsed, KickedUsed, LoggedOutStays, Used

LEMMA SessionsStepOK == SessionsInv /\ [SessionsNext]_sessionSpecVars => SessionsInv'
<1> SUFFICES ASSUME SessionsInv, [SessionsNext]_sessionSpecVars PROVE SessionsInv'
  OBVIOUS
<1>1. CASE UNCHANGED sessionSpecVars
  BY <1>1, QuietSessionStep DEF sessionSpecVars, slots, sessionVars
<1>2. ASSUME NEW w \in Workers, NEW u \in Users, FailLogin(w, u) \/ CoolOff(w, u) \/ AccountSteps(w, u)
      PROVE SessionsInv'
  BY <1>2, QuietSessionStep DEF FailLogin, CoolOff, AccountSteps, Changed, AtOnce, SetUpSecond, VerifySecond,
       RegenerateCodes, DisableSecond, AdminDisableSecond, AdminClearSecond, RenewPassword, ChangePassword,
       SetActive, SetOpen
<1>3. ASSUME NEW w \in Workers, RefuseSuspended(w) \/ RefuseAddressOrCode(w) \/ DieInSession(w)
      PROVE SessionsInv'
  BY <1>3, QuietSessionStep DEF RefuseSuspended, RefuseAddressOrCode, Refuse, DieInSession, Crash, Answer, Proceed,
       sessionVars
<1> QED BY <1>1, <1>2, <1>3, LoginStep, DeliverStep, RefreshStep, LogoutStep, BlacklistOldStep, IssueStep,
          ListStep, KickStep DEF SessionsNext

\* After a kill switch no token of a login it listed is accepted again, unless a rotation of that
\* login was in flight: for any users, tokens and workers, whatever else they do to their accounts.
THEOREM KickedOut == SessionsSpec => []LoggedOutStays
<1>1. SessionsInv => LoggedOutStays
  BY DEF SessionsInv
<1>2. [SessionsNext]_sessionSpecVars <=> [SessionsNext]_<<slots, sessionVars>>
  BY DEF sessionSpecVars
<1> QED BY <1>1, <1>2, SessionsInitOK, SessionsStepOK, PTL DEF SessionsSpec

----------------------------------------------------------------------------
(* Limits: OvershootIsRaced.

   A request that counts finds room for itself beside what is in use; what it did not see is what
   others had counted and not yet inserted, and that is what `crowd` remembers. *)

limitSpecVars == <<slots, limitVars>>

LimitJob == [at : {"insert"}, res : Resources, size : Nat]

LimitsTyped ==
  /\ LimitsTypeOK
  /\ req \in [Workers -> {Idle} \cup LimitJob]

LimitsInv == LimitsTyped /\ OvershootIsRaced

\* What a request is going to insert of a resource.
SizeOf(job, r) == IF job.at = "insert" /\ job.res = r THEN job.size ELSE 0

LEMMA SizeType ==
  ASSUME NEW job \in {Idle} \cup LimitJob, NEW r \in Resources
  PROVE  SizeOf(job, r) \in Nat
BY DEF SizeOf, Idle, LimitJob

LEMMA PendingType ==
  ASSUME LimitsTyped, NEW r \in Resources
  PROVE  Pending(r) = SumFunction([w \in Workers |-> SizeOf(req[w], r)]) /\ Pending(r) \in Nat
<1> DEFINE F == [w \in Workers |-> SizeOf(req[w], r)]
<1>1. F \in [Workers -> Nat]
  BY SizeType DEF LimitsTyped
<1>2. Pending(r) = SumFunction(F)
  BY DEF Pending, SizeOf
<1>3. SumFunction(F) \in Nat
  <2> HIDE DEF F
  <2> QED BY <1>1, WorkersAssumption, SumOfNats
<1> QED BY <1>2, <1>3

PendingTyped == \A r \in Resources : Pending(r) \in Nat

LEMMA PendingStays == LimitsTyped' => PendingTyped'
<1>1. LimitsTyped => PendingTyped
  BY PendingType DEF PendingTyped
<1> QED BY <1>1, PTL

\* What is pending changes by what the slot that steps gives up and takes on.
LEMMA PendingChange ==
  ASSUME LimitsTyped, NEW w \in Workers, NEW job \in {Idle} \cup LimitJob,
         req' = [req EXCEPT ![w] = job], NEW r \in Resources
  PROVE  Pending(r)' = Pending(r) - SizeOf(req[w], r) + SizeOf(job, r)
<1>1. /\ req \in [Workers -> {Idle} \cup LimitJob] /\ req' \in [Workers -> {Idle} \cup LimitJob]
      /\ req'[w] = job /\ \A v \in Workers \ {w} : req'[v] = req[v]
  BY DEF LimitsTyped
<1>2. PICK F \in [Workers -> Int], G \in [Workers -> Int] :
        F = [v \in Workers |-> SizeOf(req[v], r)] /\ G = [v \in Workers |-> SizeOf(req'[v], r)]
  <2>1. [v \in Workers |-> SizeOf(req[v], r)] \in [Workers -> Int]
    BY <1>1, SizeType
  <2>2. [v \in Workers |-> SizeOf(req'[v], r)] \in [Workers -> Int]
    BY <1>1, SizeType
  <2> QED BY <2>1, <2>2, Zenon
<1>3. Pending(r) = SumFunction(F) /\ Pending(r)' = SumFunction(G)
  BY <1>2, Zenon DEF Pending, SizeOf
<1>4. \A v \in Workers \ {w} : G[v] = F[v]
  BY <1>1, <1>2
<1>5. SumFunction(G) = SumFunction(F) - F[w] + G[w]
  BY <1>4, WorkersAssumption, SumChanged
<1>6. F[w] = SizeOf(req[w], r) /\ G[w] = SizeOf(job, r)
  BY <1>1, <1>2
<1> QED BY <1>3, <1>5, <1>6

\* A step that leaves no resource further over its limit than it was.
LEMMA NoFurtherStep ==
  ASSUME LimitsInv, LimitsTyped',
         \A r \in Resources : Limit[r] # Unlimited =>
           \/ used'[r] + Pending(r)' - crowd'[r] - extra'[r] <= used[r] + Pending(r) - crowd[r] - extra[r]
           \/ used'[r] + Pending(r)' <= Limit[r] + crowd'[r] + extra'[r]
  PROVE  LimitsInv'
<1> SUFFICES ASSUME NEW r \in Resources, Limit[r] # Unlimited
             PROVE  used'[r] + Pending(r)' <= Limit[r] + crowd'[r] + extra'[r]
  BY DEF LimitsInv, OvershootIsRaced
<1>1. LimitsTyped /\ used[r] + Pending(r) <= Limit[r] + crowd[r] + extra[r] /\ Limit[r] \in Nat
  BY LimitsAssumption DEF LimitsInv, OvershootIsRaced
<1>2. /\ Pending(r) \in Nat /\ used[r] \in Nat /\ crowd[r] \in Nat /\ extra[r] \in Nat
      /\ used'[r] \in Nat /\ crowd'[r] \in Nat /\ extra'[r] \in Nat
  BY <1>1, PendingType DEF LimitsTyped, LimitsTypeOK
<1>3. Pending(r)' \in Nat
  BY PendingStays DEF PendingTyped
<1> QED BY <1>1, <1>2, <1>3

LEMMA LimitsInitOK == SlotsInit /\ LimitsInit => LimitsInv
<1> SUFFICES ASSUME SlotsInit, LimitsInit PROVE LimitsInv
  OBVIOUS
<1>1. LimitsTyped
  BY DEF SlotsInit, LimitsInit, LimitsTyped, LimitsTypeOK, Modes
<1>2. ASSUME NEW r \in Resources, Limit[r] # Unlimited
      PROVE  used[r] + Pending(r) <= Limit[r] + crowd[r] + extra[r]
  <2>1. PICK F \in [Workers -> Int] : F = [w \in Workers |-> SizeOf(req[w], r)]
    <3>1. [w \in Workers |-> SizeOf(req[w], r)] \in [Workers -> Int]
      BY <1>1, SizeType DEF LimitsTyped
    <3> QED BY <3>1, Zenon
  <2>2. \A w \in Workers : F[w] = 0
    BY <2>1 DEF SlotsInit, SizeOf, Idle
  <2>3. Pending(r) = 0
    BY <1>1, <2>1, <2>2, PendingType, WorkersAssumption, SumOfZeros
  <2> QED BY <1>2, <2>3, LimitsAssumption DEF LimitsInit
<1> QED BY <1>1, <1>2 DEF LimitsInv, OvershootIsRaced

LEMMA LimitsStepOK == LimitsInv /\ [LimitsNext]_limitSpecVars => LimitsInv'
<1> SUFFICES ASSUME LimitsInv, [LimitsNext]_limitSpecVars PROVE LimitsInv'
  OBVIOUS
<1>0. /\ LimitsTyped /\ LimitsTypeOK /\ req \in [Workers -> {Idle} \cup LimitJob]
      /\ used \in [Resources -> Nat] /\ out \in [Resources -> Nat]
      /\ crowd \in [Resources -> Nat] /\ extra \in [Resources -> Nat]
      /\ \A r \in Resources : Pending(r) \in Nat
  BY PendingType DEF LimitsInv, LimitsTyped, LimitsTypeOK
<1>1. ASSUME UNCHANGED req, LimitsTypeOK',
             \A r \in Resources : used'[r] - crowd'[r] - extra'[r] <= used[r] - crowd[r] - extra[r]
      PROVE  LimitsInv'
  <2>1. \A r \in Resources : Pending(r)' = Pending(r)
    BY <1>1 DEF Pending
  <2>2. LimitsTyped'
    BY <1>0, <1>1 DEF LimitsTyped
  <2>3. \A r \in Resources : /\ used[r] \in Nat /\ crowd[r] \in Nat /\ extra[r] \in Nat
                             /\ used'[r] \in Nat /\ crowd'[r] \in Nat /\ extra'[r] \in Nat
    BY <1>0, <2>2 DEF LimitsTyped, LimitsTypeOK
  <2>4. \A r \in Resources :
          used'[r] + Pending(r)' - crowd'[r] - extra'[r] <= used[r] + Pending(r) - crowd[r] - extra[r]
    BY <1>0, <1>1, <2>1, <2>3
  <2> QED BY <2>2, <2>4, NoFurtherStep
<1>2. CASE UNCHANGED limitSpecVars
  BY <1>0, <1>1, <1>2 DEF limitSpecVars, slots, limitVars, LimitsTypeOK
<1>3. ASSUME NEW w \in Workers, NEW r \in Resources, Leave(w, r) PROVE LimitsInv'
  <2>1. /\ used' = [used EXCEPT ![r] = @ - 1] /\ out' = [out EXCEPT ![r] = @ + 1] /\ used[r] > 0
        /\ UNCHANGED <<req, mode, crowd, extra>>
    BY <1>3 DEF Leave, AtOnce
  <2> QED BY <1>0, <1>1, <2>1 DEF LimitsTypeOK
<1>4. ASSUME NEW w \in Workers, NEW r \in Resources, Return(w, r) PROVE LimitsInv'
  <2>1. /\ used' = [used EXCEPT ![r] = @ + 1] /\ out' = [out EXCEPT ![r] = @ - 1] /\ out[r] > 0
        /\ extra' = [extra EXCEPT ![r] = @ + 1] /\ UNCHANGED <<req, mode, crowd>>
    BY <1>4 DEF Return, AtOnce
  <2> QED BY <1>0, <1>1, <2>1 DEF LimitsTypeOK
<1>5. ASSUME NEW w \in Workers, NEW r \in Resources, InsertUncounted(w, r) PROVE LimitsInv'
  <2>1. /\ used' = [used EXCEPT ![r] = @ + 1] /\ extra' = [extra EXCEPT ![r] = @ + 1]
        /\ UNCHANGED <<req, out, mode, crowd>>
    BY <1>5 DEF InsertUncounted, AtOnce
  <2> QED BY <1>0, <1>1, <2>1 DEF LimitsTypeOK
<1>6. ASSUME NEW w \in Workers, NEW m \in Modes, SetMode(w, m) PROVE LimitsInv'
  BY <1>0, <1>1, <1>6 DEF SetMode, AtOnce, LimitsTypeOK
<1>7. CASE NewMonth
  <2>1. /\ used' = [r \in Resources |-> IF r \in Monthly THEN 0 ELSE used[r]]
        /\ out' = [r \in Resources |-> IF r \in Monthly THEN 0 ELSE out[r]]
        /\ UNCHANGED <<req, mode, crowd, extra>>
    BY <1>7 DEF NewMonth, slots
  <2> QED BY <1>0, <1>1, <2>1 DEF LimitsTypeOK
<1>8. ASSUME NEW w \in Workers, NEW r \in Resources, NEW n \in Sizes[r],
             CountUsage(w, r, n) \/ SkipCount(w, r, n)
      PROVE  LimitsInv'
  <2> DEFINE job == [at |-> "insert", res |-> r, size |-> n]
  <2>1. n \in Nat
    BY LimitsAssumption
  <2>2. /\ job \in LimitJob /\ \A k \in Resources : SizeOf(job, k) = IF k = r THEN n ELSE 0
    BY <2>1 DEF LimitJob, SizeOf
  <2>3. req[w] = Idle /\ req' = [req EXCEPT ![w] = job] /\ UNCHANGED <<used, out, mode>>
    BY <1>8 DEF CountUsage, SkipCount, Begin
  <2> HIDE DEF job
  <2>4. \A k \in Resources : Pending(k)' = Pending(k) + (IF k = r THEN n ELSE 0)
    <3> SUFFICES ASSUME NEW k \in Resources PROVE Pending(k)' = Pending(k) + (IF k = r THEN n ELSE 0)
      OBVIOUS
    <3>1. Pending(k)' = Pending(k) - SizeOf(req[w], k) + SizeOf(job, k)
      BY <1>0, <2>2, <2>3, PendingChange
    <3>2. SizeOf(req[w], k) = 0
      BY <2>3 DEF SizeOf, Idle
    <3> QED BY <1>0, <2>1, <2>2, <3>1, <3>2
  <2>5. CASE CountUsage(w, r, n)
    <3>1. used[r] + n <= Limit[r] /\ Limit[r] # Unlimited /\ UNCHANGED extra
          /\ crowd' = [crowd EXCEPT ![r] = Larger(@, Pending(r))]
      BY <2>5 DEF CountUsage, Counts, HasRoom
    <3>2. /\ crowd' \in [Resources -> Nat] /\ crowd'[r] >= Pending(r)
          /\ \A k \in Resources \ {r} : crowd'[k] = crowd[k]
      BY <1>0, <3>1 DEF Larger
    <3>3. LimitsTyped'
      BY <1>0, <2>2, <2>3, <3>1, <3>2 DEF LimitsTyped, LimitsTypeOK
    <3>4. used'[r] + Pending(r)' <= Limit[r] + crowd'[r] + extra'[r]
      <4>1. Limit[r] \in Nat /\ used[r] \in Nat /\ extra[r] \in Nat /\ crowd'[r] \in Nat /\ Pending(r) \in Nat
        BY <1>0, <3>1, <3>2, LimitsAssumption
      <4>2. Pending(r)' = Pending(r) + n /\ used'[r] = used[r] /\ extra'[r] = extra[r]
        BY <2>3, <2>4, <3>1
      <4> QED BY <2>1, <3>1, <3>2, <4>1, <4>2
    <3>5. \A k \in Resources \ {r} :
            used'[k] + Pending(k)' - crowd'[k] - extra'[k] <= used[k] + Pending(k) - crowd[k] - extra[k]
      BY <1>0, <2>3, <2>4, <3>1, <3>2
    <3> QED BY <3>3, <3>4, <3>5, NoFurtherStep
  <2>6. CASE SkipCount(w, r, n)
    <3>1. UNCHANGED crowd /\ extra' = [extra EXCEPT ![r] = @ + n]
      BY <2>6 DEF SkipCount
    <3>2. /\ extra' \in [Resources -> Nat]
          /\ \A k \in Resources : extra'[k] = extra[k] + (IF k = r THEN n ELSE 0)
      BY <1>0, <2>1, <3>1
    <3>3. LimitsTyped'
      BY <1>0, <2>2, <2>3, <3>1, <3>2 DEF LimitsTyped, LimitsTypeOK
    <3>4. \A k \in Resources :
            used'[k] + Pending(k)' - crowd'[k] - extra'[k] <= used[k] + Pending(k) - crowd[k] - extra[k]
      BY <1>0, <2>1, <2>3, <2>4, <3>1, <3>2
    <3> QED BY <3>3, <3>4, NoFurtherStep
  <2> QED BY <1>8, <2>5, <2>6
<1>9. ASSUME NEW w \in Workers, Insert(w) PROVE LimitsInv'
  <2>1. PICK r \in Resources, n \in Nat : req[w] = [at |-> "insert", res |-> r, size |-> n]
    BY <1>0, <1>9 DEF Insert, At, LimitJob, Idle
  <2>2. /\ used' = [used EXCEPT ![r] = @ + n] /\ req' = [req EXCEPT ![w] = Idle]
        /\ UNCHANGED <<out, mode, crowd, extra>>
    BY <1>9, <2>1 DEF Insert, Answer, Proceed
  <2>3. LimitsTyped'
    BY <1>0, <2>2 DEF LimitsTyped, LimitsTypeOK
  <2>4. \A k \in Resources : Pending(k)' = Pending(k) - (IF k = r THEN n ELSE 0)
    <3> SUFFICES ASSUME NEW k \in Resources PROVE Pending(k)' = Pending(k) - (IF k = r THEN n ELSE 0)
      OBVIOUS
    <3>1. Pending(k)' = Pending(k) - SizeOf(req[w], k) + SizeOf(Idle, k)
      BY <1>0, <2>2, PendingChange
    <3>2. SizeOf(req[w], k) = (IF k = r THEN n ELSE 0) /\ SizeOf(Idle, k) = 0
      BY <2>1 DEF SizeOf, Idle
    <3> QED BY <1>0, <3>1, <3>2
  <2>5. \A k \in Resources :
          used'[k] + Pending(k)' - crowd'[k] - extra'[k] <= used[k] + Pending(k) - crowd[k] - extra[k]
    BY <1>0, <2>2, <2>4
  <2> QED BY <2>3, <2>5, NoFurtherStep
<1>10. ASSUME NEW w \in Workers, DieCounting(w) PROVE LimitsInv'
  <2>1. req' = [req EXCEPT ![w] = Idle] /\ UNCHANGED <<used, out, mode, crowd, extra>>
    BY <1>10 DEF DieCounting, Crash, Answer, Proceed, limitVars
  <2>2. LimitsTyped'
    BY <1>0, <2>1 DEF LimitsTyped, LimitsTypeOK
  <2>3. \A k \in Resources : Pending(k)' <= Pending(k) /\ Pending(k)' \in Int
    <3> SUFFICES ASSUME NEW k \in Resources PROVE Pending(k)' <= Pending(k) /\ Pending(k)' \in Int
      OBVIOUS
    <3>1. Pending(k)' = Pending(k) - SizeOf(req[w], k) + SizeOf(Idle, k)
      BY <1>0, <2>1, PendingChange
    <3>2. SizeOf(req[w], k) \in Nat /\ SizeOf(Idle, k) = 0
      BY <1>0, SizeType DEF SizeOf, Idle
    <3> QED BY <1>0, <3>1, <3>2
  <2>4. \A k \in Resources :
          used'[k] + Pending(k)' - crowd'[k] - extra'[k] <= used[k] + Pending(k) - crowd[k] - extra[k]
    BY <1>0, <2>1, <2>3
  <2> QED BY <2>2, <2>4, NoFurtherStep
<1> QED BY <1>2, <1>3, <1>4, <1>5, <1>6, <1>7, <1>8, <1>9, <1>10 DEF LimitsNext

\* For any plans, sizes and numbers of requests: a limit is overshot by no more than the
\* requests that were counted at the same time, and what came in uncounted.
THEOREM LimitsHold == LimitsSpec => []OvershootIsRaced
<1>1. LimitsInv => OvershootIsRaced
  BY DEF LimitsInv
<1>2. [LimitsNext]_limitSpecVars <=> [LimitsNext]_<<slots, limitVars>>
  BY DEF limitSpecVars
<1> QED BY <1>1, <1>2, LimitsInitOK, LimitsStepOK, PTL DEF LimitsSpec

----------------------------------------------------------------------------
(* Categories: TreeSound.
   First of climbing in any tree, one parent at a time: S gives the parent of each node, and of
   TopLevel itself, and U[n][c] is where n steps from c lead. *)

Climbs(S, U) ==
  /\ S \in [Parents -> Parents] /\ S[TopLevel] = TopLevel
  /\ U \in [Nat -> [Parents -> Parents]]
  /\ \A c \in Parents : U[0][c] = c
  /\ \A n \in Nat : \A c \in Parents : U[n + 1][c] = S[U[n][c]]

\* No node is below itself: from each one the top is reached.
Reaches(U) == \A c \in Parents : \E n \in Nat : U[n][c] = TopLevel

\* Through nodes of L alone, fewer than MaxDepth steps lead to any node.
Shallow(U, L) ==
  \A d \in Parents : \A n \in Nat :
    (\A k \in 0..(n - 1) : U[k][d] \in L) /\ U[n][d] # TopLevel => n < MaxDepth

\* The way from p to the top does not lead over c.
Clear(U, p, c) == \A n \in Nat : U[n][p] # c

\* Of M, only c may not be of L.
NothingNew(L, M, c) == M \subseteq L \cup {c}

\* However c is reached through L, and however far p is from the top, the way over both is short.
LeavesRoom(U, L, c, p) ==
  \A d \in Parents : \A m, n \in Nat :
    U[m][d] = c /\ (\A k \in 0..(m - 1) : U[k][d] \in L /\ U[k][d] # c) /\ U[n][p] # TopLevel =>
      n + (m + 1) < MaxDepth

\* S and T give the same parents outside C, none of C is among the first n nodes from d on, and
\* the first n steps of U and V from d lead the same way.
AlikeOff(C, S, T) == \A c \in Parents \ C : T[c] = S[c]
Avoids(U, d, n, C) == \A k \in 0..(n - 1) : U[k][d] \notin C
Together(U, V, d, n) == \A k \in 0..n : V[k][d] = U[k][d]

\* From wherever U first leads to c, V leads there too, and on as U does from p.
Rejoins(U, V, c, p) ==
  \A d \in Parents : \A m \in Nat :
    U[m][d] = c /\ (\A k \in 0..(m - 1) : U[k][d] # c) =>
      /\ \A k \in 0..m : V[k][d] = U[k][d]
      /\ \A n \in Nat : V[n + (m + 1)][d] = U[n][p]

LEMMA ClimbStep ==
  ASSUME NEW S, NEW U, Climbs(S, U), NEW n \in Nat, NEW c \in Parents
  PROVE  U[n + 1][c] = S[U[n][c]] /\ U[n][c] \in Parents /\ U[0][c] = c
BY DEF Climbs

LEMMA ClimbExists ==
  ASSUME NEW S \in [Parents -> Parents], S[TopLevel] = TopLevel
  PROVE  \E U : Climbs(S, U)
<1> DEFINE Rules(g, m) == /\ g \in [0..m -> [Parents -> Parents]]
                          /\ \A c \in Parents : g[0][c] = c
                          /\ \A n \in 0..(m - 1) : \A c \in Parents : g[n + 1][c] = S[g[n][c]]
           G == {m \in Nat : \E g : Rules(g, m)}
<1>1. 0 \in G
  <2> DEFINE g == [n \in 0..0 |-> [c \in Parents |-> c]]
  <2>1. g \in [0..0 -> [Parents -> Parents]] /\ \A c \in Parents : g[0][c] = c
    OBVIOUS
  <2>2. 0..(0 - 1) = {}
    OBVIOUS
  <2> HIDE DEF g
  <2> QED BY <2>1, <2>2
<1>2. ASSUME NEW m \in Nat, m \in G PROVE m + 1 \in G
  <2>1. PICK g : Rules(g, m)
    BY <1>2
  <2> DEFINE next == [c \in Parents |-> S[g[m][c]]]
             h == [n \in 0..(m + 1) |-> IF n <= m THEN g[n] ELSE next]
  <2>2. \A n \in 0..m : g[n] \in [Parents -> Parents]
    BY <2>1
  <2>3. next \in [Parents -> Parents] /\ \A c \in Parents : next[c] = S[g[m][c]]
    BY <2>2
  <2> HIDE DEF next
  <2>4. h \in [0..(m + 1) -> [Parents -> Parents]]
    BY <2>2, <2>3
  <2>5. \A n \in 0..(m + 1) : h[n] = IF n <= m THEN g[n] ELSE next
    OBVIOUS
  <2> HIDE DEF h
  <2>6. \A c \in Parents : h[0][c] = c
    BY <2>1, <2>5
  <2>7. \A n \in 0..((m + 1) - 1) : \A c \in Parents : h[n + 1][c] = S[h[n][c]]
    <3> SUFFICES ASSUME NEW n \in 0..m, NEW c \in Parents PROVE h[n + 1][c] = S[h[n][c]]
      OBVIOUS
    <3>1. CASE n < m
      <4>1. h[n + 1] = g[n + 1] /\ h[n] = g[n] /\ n \in 0..(m - 1)
        BY <2>5, <3>1
      <4> QED BY <2>1, <4>1
    <3>2. CASE n = m
      <4>1. h[n + 1] = next /\ h[n] = g[m]
        BY <2>5, <3>2
      <4> QED BY <2>3, <4>1
    <3> QED BY <3>1, <3>2
  <2>8. Rules(h, m + 1)
    BY <2>4, <2>6, <2>7
  <2>9. \E f : Rules(f, m + 1)
    BY <2>8, Zenon
  <2>10. m + 1 \in Nat
    OBVIOUS
  <2> QED BY <2>9, <2>10, Zenon
<1>3. Nat \subseteq G
  <2> HIDE DEF G
  <2> QED BY <1>1, <1>2, NatInductionOnSet
<1> DEFINE A(m) == CHOOSE g : Rules(g, m)
<1>4. \A m \in Nat : Rules(A(m), m)
  <2> SUFFICES ASSUME NEW m \in Nat PROVE Rules(A(m), m)
    OBVIOUS
  <2>1. \E g : Rules(g, m)
    BY <1>3
  <2> QED BY <2>1, Zenon
<1> HIDE DEF A, G
<1> DEFINE H == {n \in Nat : \A m \in Nat : n <= m => \A c \in Parents : A(m)[n][c] = A(n)[n][c]}
<1>5. 0 \in H
  BY <1>4
<1>6. ASSUME NEW n \in Nat, n \in H PROVE n + 1 \in H
  <2> SUFFICES ASSUME NEW m \in Nat, n + 1 <= m, NEW c \in Parents PROVE A(m)[n + 1][c] = A(n + 1)[n + 1][c]
    OBVIOUS
  <2>1. n \in 0..(m - 1) /\ n \in 0..((n + 1) - 1) /\ n <= m /\ n <= n + 1
    OBVIOUS
  <2>2. A(m)[n + 1][c] = S[A(m)[n][c]] /\ A(n + 1)[n + 1][c] = S[A(n + 1)[n][c]]
    BY <1>4, <2>1
  <2>3. A(m)[n][c] = A(n)[n][c] /\ A(n + 1)[n][c] = A(n)[n][c]
    BY <1>6, <2>1
  <2> QED BY <2>2, <2>3
<1>7. Nat \subseteq H
  <2> HIDE DEF H
  <2> QED BY <1>5, <1>6, NatInductionOnSet
<1> DEFINE U == [n \in Nat |-> A(n)[n]]
<1>8. \A n \in Nat : A(n)[n] \in [Parents -> Parents]
  BY <1>4
<1>9. U \in [Nat -> [Parents -> Parents]] /\ \A n \in Nat : U[n] = A(n)[n]
  BY <1>8
<1>10. ASSUME NEW n \in Nat, NEW c \in Parents PROVE A(n + 1)[n + 1][c] = S[A(n)[n][c]]
  <2>1. n \in 0..((n + 1) - 1) /\ n <= n + 1
    OBVIOUS
  <2>2. A(n + 1)[n + 1][c] = S[A(n + 1)[n][c]]
    BY <1>4, <2>1
  <2>3. A(n + 1)[n][c] = A(n)[n][c]
    BY <1>7, <2>1
  <2> QED BY <2>2, <2>3
<1> HIDE DEF U
<1>11. Climbs(S, U)
  <2>1. \A c \in Parents : U[0][c] = c
    BY <1>4, <1>9
  <2>2. ASSUME NEW n \in Nat, NEW c \in Parents PROVE U[n + 1][c] = S[U[n][c]]
    <3>1. U[n + 1] = A(n + 1)[n + 1] /\ U[n] = A(n)[n]
      BY <1>9
    <3> QED BY <1>10, <3>1
  <2> QED BY <1>9, <2>1, <2>2 DEF Climbs
<1> QED BY <1>11

\* The first step may as well be taken before the others.
LEMMA ClimbBelow ==
  ASSUME NEW S, NEW U, Climbs(S, U)
  PROVE  \A n \in Nat : \A c \in Parents : U[n + 1][c] = U[n][S[c]]
<1> DEFINE G == {n \in Nat : \A c \in Parents : U[n + 1][c] = U[n][S[c]]}
<1>0. \A c \in Parents : S[c] \in Parents
  BY DEF Climbs
<1>1. 0 \in G
  BY <1>0 DEF Climbs
<1>2. ASSUME NEW n \in Nat, n \in G PROVE n + 1 \in G
  BY <1>0, <1>2 DEF Climbs
<1>3. Nat \subseteq G
  <2> HIDE DEF G
  <2> QED BY <1>1, <1>2, NatInductionOnSet
<1> QED BY <1>3

LEMMA ClimbSum ==
  ASSUME NEW S, NEW U, Climbs(S, U)
  PROVE  \A m, n \in Nat : \A c \in Parents : U[m + n][c] = U[m][U[n][c]] /\ U[n][c] \in Parents
<1>0. \A n \in Nat : \A c \in Parents : U[n][c] \in Parents
  BY DEF Climbs
<1> DEFINE G == {m \in Nat : \A n \in Nat : \A c \in Parents : U[m + n][c] = U[m][U[n][c]]}
<1>1. 0 \in G
  BY <1>0 DEF Climbs
<1>2. ASSUME NEW m \in Nat, m \in G PROVE m + 1 \in G
  <2> SUFFICES ASSUME NEW n \in Nat, NEW c \in Parents PROVE U[(m + 1) + n][c] = U[m + 1][U[n][c]]
    OBVIOUS
  <2>1. U[(m + n) + 1][c] = S[U[m + n][c]] /\ U[m + 1][U[n][c]] = S[U[m][U[n][c]]]
    BY <1>0 DEF Climbs
  <2>2. (m + n) + 1 = (m + 1) + n
    OBVIOUS
  <2> QED BY <1>2, <2>1, <2>2
<1>3. Nat \subseteq G
  <2> HIDE DEF G
  <2> QED BY <1>1, <1>2, NatInductionOnSet
<1> QED BY <1>0, <1>3

LEMMA ClimbTop ==
  ASSUME NEW S, NEW U, Climbs(S, U)
  PROVE  \A n \in Nat : U[n][TopLevel] = TopLevel
<1> DEFINE G == {n \in Nat : U[n][TopLevel] = TopLevel}
<1>0. TopLevel \in Parents
  BY DEF Parents
<1>1. 0 \in G /\ \A n \in Nat : n \in G => n + 1 \in G
  BY <1>0 DEF Climbs
<1>2. Nat \subseteq G
  <2> HIDE DEF G
  <2> QED BY <1>1, NatInductionOnSet
<1> QED BY <1>2

\* The first step at which something of C is met.
LEMMA FirstMeeting ==
  ASSUME NEW U, NEW d, NEW C, NEW n \in Nat, U[n][d] \in C
  PROVE  \E m \in 0..n : U[m][d] \in C /\ Avoids(U, d, m, C)
<1> DEFINE G == {i \in Nat : \A j \in 0..i : U[j][d] \notin C}
<1> USE DEF Avoids
<1> SUFFICES ASSUME ~ \E m \in 0..n : U[m][d] \in C /\ \A k \in 0..(m - 1) : U[k][d] \notin C
             PROVE  FALSE
  OBVIOUS
<1>1. \A m \in 0..n : (\A k \in 0..(m - 1) : U[k][d] \notin C) => U[m][d] \notin C
  OBVIOUS
<1> DEFINE H == {i \in Nat : i <= n => i \in G}
<1>2. 0 \in H
  BY <1>1
<1>3. ASSUME NEW i \in Nat, i \in H PROVE i + 1 \in H
  <2> SUFFICES ASSUME i + 1 <= n PROVE i + 1 \in G
    OBVIOUS
  <2>1. \A k \in 0..i : U[k][d] \notin C
    BY <1>3
  <2>2. U[i + 1][d] \notin C
    BY <1>1, <2>1
  <2> QED BY <2>1, <2>2
<1>4. Nat \subseteq H
  <2> HIDE DEF H
  <2> QED BY <1>2, <1>3, NatInductionOnSet
<1> QED BY <1>4

\* The top is reached before there are more steps than categories, and after it nothing comes.
LEMMA ClimbTime ==
  ASSUME CategoriesAssumption, NEW S, NEW U, Climbs(S, U), Reaches(U), NEW c \in Parents
  PROVE  \E last \in 0..Cardinality(Categories) : \A n \in Nat : U[n][c] = TopLevel <=> n >= last
<1>1. PICK any \in Nat : U[any][c] \in {TopLevel}
  BY DEF Reaches
<1>2. PICK last \in 0..any : U[last][c] \in {TopLevel} /\ \A k \in 0..(last - 1) : U[k][c] \notin {TopLevel}
  BY <1>1, FirstMeeting DEF Avoids
<1>3. last \in Nat /\ U[last][c] = TopLevel /\ \A k \in 0..(last - 1) : U[k][c] # TopLevel
  BY <1>2
<1>4. ASSUME NEW n \in Nat, n >= last PROVE U[n][c] = TopLevel
  <2>1. PICK rest \in Nat : rest + last = n
    <3>1. n - last \in Nat /\ (n - last) + last = n
      BY <1>3, <1>4
    <3> QED BY <3>1
  <2>2. U[rest + last][c] = U[rest][U[last][c]]
    BY <1>3, ClimbSum
  <2> QED BY <1>3, <2>1, <2>2, ClimbTop
<1>5. \A n \in Nat : n < last => U[n][c] # TopLevel
  BY <1>3
<1>6. last <= Cardinality(Categories)
  <2>1. IsFiniteSet(Categories) /\ Cardinality(Categories) \in Nat
    BY FS_CardinalityType DEF CategoriesAssumption
  <2>2. SUFFICES ASSUME Cardinality(Categories) < last PROVE FALSE
    BY <1>3, <2>1
  <2>3. IsFiniteSet(0..(last - 1)) /\ Cardinality(0..(last - 1)) = last
    <3>1. 0 \in Int /\ last - 1 \in Int /\ ~(0 > last - 1) /\ (last - 1) - 0 + 1 = last
      BY <1>3, <2>1, <2>2
    <3> QED BY <3>1, FS_Interval
  <2>4. \A k \in 0..(last - 1) : k \in Nat /\ U[k][c] \in Categories
    BY <1>3, ClimbSum DEF Parents
  <2>5. [k \in 0..(last - 1) |-> U[k][c]] \in [0..(last - 1) -> Categories]
    BY <2>4
  <2>6. PICK f \in [0..(last - 1) -> Categories] : f = [k \in 0..(last - 1) |-> U[k][c]]
    BY <2>5, Zenon
  <2>7. PICK x \in 0..(last - 1), y \in 0..(last - 1) : x # y /\ f[x] = f[y]
    BY <2>1, <2>2, <2>3, FS_PigeonHole
  <2>8. ASSUME NEW i \in 0..(last - 1), NEW j \in 0..(last - 1), i < j, U[i][c] = U[j][c] PROVE FALSE
    <3>1. PICK rest \in Nat : rest + j = last /\ rest + i \in 0..(last - 1)
      <4>1. (last - j) \in Nat /\ (last - j) + j = last /\ (last - j) + i \in 0..(last - 1)
        BY <1>3, <2>8
      <4> QED BY <4>1
    <3>2. i \in Nat /\ j \in Nat /\ rest \in Nat
      BY <1>3, <3>1
    <3>3. U[rest + j][c] = U[rest][U[j][c]] /\ U[rest + i][c] = U[rest][U[i][c]]
      BY <3>2, ClimbSum
    <3> QED BY <1>3, <2>8, <3>1, <3>2, <3>3
  <2> QED BY <2>6, <2>7, <2>8
<1>7. last \in 0..Cardinality(Categories)
  BY <1>3, <1>6
<1>8. \A n \in Nat : U[n][c] = TopLevel <=> n >= last
  BY <1>3, <1>4, <1>5
<1> QED BY <1>7, <1>8

LEMMA NoLoop ==
  ASSUME NEW S, NEW U, Climbs(S, U), Reaches(U), NEW c \in Categories, NEW n \in Nat \ {0}, TopLevel \notin Categories
  PROVE  U[n][c] # c
<1> SUFFICES ASSUME U[n][c] = c PROVE FALSE
  OBVIOUS
<1>1. c \in Parents /\ c # TopLevel
  BY DEF Parents
<1> DEFINE G == {m \in Nat : \A k \in 0..(m * n) : U[k][c] # TopLevel}
<1>2. PICK any \in Nat : U[any][c] \in {TopLevel}
  BY <1>1 DEF Reaches
<1>3. PICK last \in 0..any : U[last][c] \in {TopLevel} /\ \A k \in 0..(last - 1) : U[k][c] \notin {TopLevel}
  BY <1>2, FirstMeeting DEF Avoids
<1>4. CASE last >= n
  <2>1. last - n \in 0..(last - 1) /\ last - n \in Nat /\ (last - n) + n = last
    BY <1>4
  <2>2. U[(last - n) + n][c] = U[last - n][U[n][c]]
    BY <1>1, <2>1, ClimbSum
  <2> QED BY <1>3, <2>1, <2>2
<1>5. CASE last < n
  <2>1. PICK rest \in Nat : rest + last = n /\ last \in Nat
    <3>1. last \in Nat /\ n - last \in Nat /\ (n - last) + last = n
      BY <1>5
    <3> QED BY <3>1
  <2>2. U[rest + last][c] = U[rest][U[last][c]]
    BY <1>1, <2>1, ClimbSum
  <2> QED BY <1>1, <1>3, <2>1, <2>2, ClimbTop
<1> QED BY <1>4, <1>5

\* Trees that differ only in C are climbed alike until C is met.
LEMMA ClimbApart ==
  ASSUME NEW S, NEW U, Climbs(S, U), NEW T, NEW V, Climbs(T, V), NEW C,
         AlikeOff(C, S, T), NEW d \in Parents, NEW n \in Nat, Avoids(U, d, n, C)
  PROVE  Together(U, V, d, n)
<1> USE DEF AlikeOff, Avoids, Together
<1> DEFINE G == {k \in Nat : k <= n => V[k][d] = U[k][d]}
<1>1. 0 \in G
  BY DEF Climbs
<1>2. ASSUME NEW k \in Nat, k \in G PROVE k + 1 \in G
  <2> SUFFICES ASSUME k + 1 <= n PROVE V[k + 1][d] = U[k + 1][d]
    OBVIOUS
  <2>1. V[k][d] = U[k][d] /\ U[k][d] \in Parents \ C
    BY <1>2, ClimbSum
  <2>2. V[k + 1][d] = T[V[k][d]] /\ U[k + 1][d] = S[U[k][d]]
    BY DEF Climbs
  <2> QED BY <2>1, <2>2
<1>3. Nat \subseteq G
  <2> HIDE DEF G
  <2> QED BY <1>1, <1>2, NatInductionOnSet
<1> QED BY <1>3

\* A node that is given another parent, whose way to the top does not lead over the node.
LEMMA ReparentedReaches ==
  ASSUME NEW S, NEW U, Climbs(S, U), Reaches(U), NEW c \in Categories, NEW p \in Parents, TopLevel \notin Categories,
         NEW T, NEW V, Climbs(T, V), T[c] = p, AlikeOff({c}, S, T),
         Clear(U, p, c)
  PROVE  /\ Reaches(V)
         /\ Rejoins(U, V, c, p)
<1>1. ASSUME NEW d \in Parents, NEW n \in Nat, \A k \in 0..(n - 1) : U[k][d] # c
      PROVE  \A k \in 0..n : V[k][d] = U[k][d]
  <2>1. Avoids(U, d, n, {c})
    BY <1>1 DEF Avoids
  <2>2. Together(U, V, d, n)
    BY <2>1, ClimbApart
  <2> QED BY <2>2 DEF Together
<1>2. ASSUME NEW n \in Nat PROVE V[n][p] = U[n][p]
  BY <1>1 DEF Clear
<1>3. ASSUME NEW d \in Parents, NEW m \in Nat, U[m][d] = c, \A k \in 0..(m - 1) : U[k][d] # c
      PROVE  /\ \A k \in 0..m : V[k][d] = U[k][d]
             /\ \A n \in Nat : V[n + (m + 1)][d] = U[n][p]
  <2>1. \A k \in 0..m : V[k][d] = U[k][d]
    BY <1>1, <1>3
  <2>2. V[m][d] = c /\ m + 1 \in Nat
    BY <1>3, <2>1
  <2>3. V[m + 1][d] = p
    BY <2>2, ClimbStep
  <2>4. ASSUME NEW n \in Nat PROVE V[n + (m + 1)][d] = U[n][p]
    <3>1. V[n + (m + 1)][d] = V[n][V[m + 1][d]]
      BY <2>2, ClimbSum
    <3> QED BY <1>2, <2>3, <3>1
  <2> QED BY <2>1, <2>4
<1>4. ASSUME NEW d \in Parents PROVE \E n \in Nat : V[n][d] = TopLevel
  <2>1. CASE \E n \in Nat : U[n][d] \in {c}
    <3>1. PICK n \in Nat : U[n][d] \in {c}
      BY <2>1
    <3>2. PICK m \in 0..n : U[m][d] \in {c} /\ \A k \in 0..(m - 1) : U[k][d] \notin {c}
      BY <3>1, FirstMeeting DEF Avoids
    <3>3. m \in Nat /\ U[m][d] = c /\ \A k \in 0..(m - 1) : U[k][d] # c
      BY <3>2
    <3>4. PICK top \in Nat : U[top][p] = TopLevel
      BY DEF Reaches
    <3>5. V[top + (m + 1)][d] = TopLevel
      BY <1>3, <3>3, <3>4
    <3> QED BY <3>3, <3>5
  <2>2. CASE \A n \in Nat : U[n][d] # c
    <3>1. PICK top \in Nat : U[top][d] = TopLevel
      BY DEF Reaches
    <3>2. V[top][d] = U[top][d]
      BY <1>1, <2>2
    <3> QED BY <3>1, <3>2
  <2> QED BY <2>1, <2>2
<1> QED BY <1>3, <1>4 DEF Reaches, Rejoins

\* The nodes of M may have c in them, when from each node that reaches c through L there are
\* few enough steps to the top over the new parent.
LEMMA ReparentedShallow ==
  ASSUME NEW S, NEW U, Climbs(S, U), Reaches(U), NEW c \in Categories, NEW p \in Parents, TopLevel \notin Categories,
         NEW T, NEW V, Climbs(T, V), T[c] = p, AlikeOff({c}, S, T),
         Clear(U, p, c),
         NEW L, NEW M, Shallow(U, L), NothingNew(L, M, c),
         p # TopLevel /\ c \in M => LeavesRoom(U, L, c, p)
  PROVE  Shallow(V, M)
<1> SUFFICES ASSUME NEW d \in Parents, NEW n \in Nat, \A k \in 0..(n - 1) : V[k][d] \in M, V[n][d] # TopLevel
             PROVE  n < MaxDepth
  BY DEF Shallow
<1>1. CASE \A k \in 0..(n - 1) : U[k][d] \notin {c}
  <2>1. \A k \in 0..n : V[k][d] = U[k][d]
    <3>1. Avoids(U, d, n, {c})
      BY <1>1 DEF Avoids
    <3>2. Together(U, V, d, n)
      BY <3>1, ClimbApart
    <3> QED BY <3>2 DEF Together
  <2>2. (\A k \in 0..(n - 1) : U[k][d] \in L) /\ U[n][d] # TopLevel
    BY <1>1, <2>1 DEF NothingNew
  <2> QED BY <2>2 DEF Shallow
<1>2. CASE \E k \in 0..(n - 1) : U[k][d] \in {c}
  <2>1. PICK any \in 0..(n - 1) : U[any][d] \in {c}
    BY <1>2
  <2>2. PICK m \in 0..any : U[m][d] \in {c} /\ \A k \in 0..(m - 1) : U[k][d] \notin {c}
    <3>1. any \in Nat /\ U[any][d] \in {c}
      BY <2>1
    <3>2. PICK C : C = {c}
      OBVIOUS
    <3>3. U[any][d] \in C
      BY <3>1, <3>2
    <3>4. \E m \in 0..any : U[m][d] \in C /\ Avoids(U, d, m, C)
      BY <3>1, <3>3, FirstMeeting
    <3> QED BY <3>2, <3>4 DEF Avoids
  <2>3. m \in Nat /\ m \in 0..(n - 1) /\ U[m][d] = c /\ \A k \in 0..(m - 1) : U[k][d] # c
    BY <2>2
  <2>4. /\ \A k \in 0..m : V[k][d] = U[k][d]
        /\ \A i \in Nat : V[i + (m + 1)][d] = U[i][p]
    <3>1. Rejoins(U, V, c, p)
      BY ReparentedReaches
    <3> QED BY <2>3, <3>1 DEF Rejoins
  <2>5. PICK rest \in Nat : rest + (m + 1) = n
    <3>1. n - (m + 1) \in Nat /\ (n - (m + 1)) + (m + 1) = n
      BY <2>3
    <3> QED BY <3>1
  <2>6. U[rest][p] # TopLevel
    BY <2>4, <2>5
  <2>7. \A k \in 0..(m - 1) : U[k][d] \in L /\ U[k][d] # c
    <3> SUFFICES ASSUME NEW k \in 0..(m - 1) PROVE U[k][d] \in L
      BY <2>3
    <3>1. V[k][d] \in M /\ V[k][d] = U[k][d]
      BY <2>3, <2>4
    <3> QED BY <2>3, <3>1 DEF NothingNew
  <2>8. c \in M
    BY <2>3, <2>4
  <2>9. p # TopLevel
    BY <2>6, ClimbTop
  <2> QED BY <2>3, <2>5, <2>6, <2>7, <2>8, <2>9 DEF LeavesRoom
<1> QED BY <1>1, <1>2

\* The nodes of K, all below c, are lifted to its parent p: each way over them is one step shorter.
LEMMA Lifted ==
  ASSUME NEW S, NEW U, Climbs(S, U), Reaches(U), NEW c \in Categories, NEW p \in Parents, TopLevel \notin Categories,
         S[c] = p, NEW K, K \subseteq Categories, \A e \in K : S[e] = c,
         NEW T, NEW V, Climbs(T, V), \A e \in K : T[e] = p, AlikeOff(K, S, T),
         NEW L, NEW M, Shallow(U, L), c \in L, M \subseteq L
  PROVE  Reaches(V) /\ Shallow(V, M)
<1>1. ASSUME NEW n \in Nat PROVE U[n][p] \notin K
  <2> SUFFICES ASSUME U[n][p] \in K PROVE FALSE
    OBVIOUS
  <2>1. p \in Parents /\ c \in Parents /\ n + 1 \in Nat /\ (n + 1) + 1 \in Nat
    BY DEF Parents
  <2>2. U[n + 1][p] = c
    BY <2>1, ClimbStep
  <2>3. U[(n + 1) + 1][c] = U[n + 1][p]
    BY <2>1, ClimbBelow
  <2> QED BY <2>2, <2>3, NoLoop
<1>2. ASSUME NEW d \in Parents, NEW n \in Nat, \A k \in 0..(n - 1) : U[k][d] \notin K
      PROVE  \A k \in 0..n : V[k][d] = U[k][d]
  <2>1. Avoids(U, d, n, K)
    BY <1>2 DEF Avoids
  <2>2. Together(U, V, d, n)
    BY <2>1, ClimbApart
  <2> QED BY <2>2 DEF Together
<1>3. ASSUME NEW n \in Nat PROVE V[n][p] = U[n][p]
  BY <1>1, <1>2
<1>4. ASSUME NEW d \in Parents, NEW m \in Nat, U[m][d] \in K, \A k \in 0..(m - 1) : U[k][d] \notin K
      PROVE  /\ \A k \in 0..m : V[k][d] = U[k][d]
             /\ U[m + 1][d] = c
             /\ \A n \in Nat : V[n + (m + 1)][d] = U[n + (m + 2)][d]
  <2>1. \A k \in 0..m : V[k][d] = U[k][d]
    BY <1>2, <1>4
  <2>2. V[m][d] \in K /\ m + 1 \in Nat /\ m + 2 \in Nat /\ m + 2 = (m + 1) + 1
    BY <1>4, <2>1
  <2>3. V[m + 1][d] = p
    BY <2>2, ClimbStep
  <2>4. U[m + 1][d] = c
    BY <1>4, ClimbStep
  <2>5. U[m + 2][d] = p
    BY <2>2, <2>4, ClimbStep
  <2>6. ASSUME NEW n \in Nat PROVE V[n + (m + 1)][d] = U[n + (m + 2)][d]
    <3>1. V[n + (m + 1)][d] = V[n][V[m + 1][d]] /\ U[n + (m + 2)][d] = U[n][U[m + 2][d]]
      BY <2>2, ClimbSum
    <3> QED BY <1>3, <2>3, <2>5, <3>1
  <2> QED BY <2>1, <2>4, <2>6
<1>5. ASSUME NEW d \in Parents PROVE \E n \in Nat : V[n][d] = TopLevel
  <2>1. PICK top \in Nat : U[top][d] = TopLevel
    BY DEF Reaches
  <2>2. CASE \E n \in Nat : U[n][d] \in K
    <3>1. PICK n \in Nat : U[n][d] \in K
      BY <2>2
    <3>2. PICK m \in 0..n : U[m][d] \in K /\ \A k \in 0..(m - 1) : U[k][d] \notin K
      BY <3>1, FirstMeeting DEF Avoids
    <3>3. m \in Nat /\ m + 2 \in Nat
      BY <3>2
    <3>4. U[top + (m + 2)][d] = TopLevel
      <4>1. U[(m + 2) + top][d] = U[m + 2][U[top][d]] /\ (m + 2) + top = top + (m + 2)
        BY <3>3, ClimbSum
      <4> QED BY <2>1, <3>3, <4>1, ClimbTop
    <3>5. V[top + (m + 1)][d] = TopLevel
      BY <1>4, <3>2, <3>3, <3>4
    <3> QED BY <3>3, <3>5
  <2>3. CASE \A n \in Nat : U[n][d] \notin K
    BY <1>2, <2>1, <2>3
  <2> QED BY <2>2, <2>3
<1>6. ASSUME NEW d \in Parents, NEW n \in Nat, \A k \in 0..(n - 1) : V[k][d] \in M, V[n][d] # TopLevel
      PROVE  n < MaxDepth
  <2>1. CASE \A k \in 0..(n - 1) : U[k][d] \notin K
    <3>1. \A k \in 0..n : V[k][d] = U[k][d]
      BY <1>2, <2>1
    <3>2. (\A k \in 0..(n - 1) : U[k][d] \in L) /\ U[n][d] # TopLevel
      BY <1>6, <3>1
    <3> QED BY <3>2 DEF Shallow
  <2>2. CASE \E k \in 0..(n - 1) : U[k][d] \in K
    <3>1. PICK any \in 0..(n - 1) : U[any][d] \in K
      BY <2>2
    <3>2. PICK m \in 0..any : U[m][d] \in K /\ \A k \in 0..(m - 1) : U[k][d] \notin K
      <4>1. any \in Nat
        BY <3>1
      <4> QED BY <3>1, <4>1, FirstMeeting DEF Avoids
    <3>3. m \in Nat /\ m \in 0..(n - 1)
      BY <3>2
    <3>4. /\ \A k \in 0..m : V[k][d] = U[k][d]
          /\ U[m + 1][d] = c
          /\ \A i \in Nat : V[i + (m + 1)][d] = U[i + (m + 2)][d]
      BY <1>4, <3>2, <3>3
    <3>5. \A j \in (m + 1)..n : U[j + 1][d] = V[j][d]
      <4> SUFFICES ASSUME NEW j \in (m + 1)..n PROVE U[j + 1][d] = V[j][d]
        OBVIOUS
      <4>1. PICK i \in Nat : i + (m + 1) = j /\ i + (m + 2) = j + 1
        <5>1. j - (m + 1) \in Nat /\ (j - (m + 1)) + (m + 1) = j /\ (j - (m + 1)) + (m + 2) = j + 1
          BY <3>3
        <5> QED BY <5>1
      <4> QED BY <3>4, <4>1
    <3>6. ASSUME NEW k \in 0..n PROVE U[k][d] \in L
      <4>1. CASE k <= m
        <5>1. k \in 0..(n - 1) /\ k \in 0..m
          BY <3>3, <4>1
        <5> QED BY <1>6, <3>4, <5>1
      <4>2. CASE k = m + 1
        BY <3>4, <4>2
      <4>3. CASE k > m + 1
        <5>1. PICK j \in (m + 1)..n : j + 1 = k /\ j \in 0..(n - 1)
          <6>1. k - 1 \in (m + 1)..n /\ (k - 1) + 1 = k /\ k - 1 \in 0..(n - 1)
            BY <3>3, <4>3
          <6> QED BY <6>1
        <5> QED BY <1>6, <3>5, <5>1
      <4> QED BY <3>3, <4>1, <4>2, <4>3
    <3>7. U[n + 1][d] # TopLevel /\ n + 1 \in Nat /\ \A k \in 0..((n + 1) - 1) : U[k][d] \in L
      <4>1. n \in (m + 1)..n
        BY <3>3
      <4> QED BY <1>6, <3>5, <3>6, <4>1
    <3>8. n + 1 < MaxDepth
      BY <3>7 DEF Shallow
    <3>9. MaxDepth \in Nat
      BY CategoriesAssumption DEF CategoriesAssumption
    <3> QED BY <3>8, <3>9
  <2> QED BY <2>1, <2>2
<1> QED BY <1>5, <1>6 DEF Reaches, Shallow

----------------------------------------------------------------------------
(* The tree of the rows. *)

Above == [c \in Parents |-> IF c = TopLevel THEN TopLevel ELSE cat[c].parent]

LEMMA UpClimbs == CategoriesTypeOK => Climbs(Above, Up)
<1> SUFFICES ASSUME CategoriesTypeOK PROVE Climbs(Above, Up)
  OBVIOUS
<1>1. /\ Above \in [Parents -> Parents] /\ Above[TopLevel] = TopLevel
      /\ \A c \in Parents \ {TopLevel} : Above[c] = cat[c].parent
  BY DEF Above, CategoriesTypeOK, CatRow, Parents
<1>2. PICK U : Climbs(Above, U)
  BY <1>1, ClimbExists
<1> DEFINE Solves1(f) == f = [n \in Nat |-> [c \in Parents |-> IF n = 0 \/ c = TopLevel THEN c ELSE f[n - 1][cat[c].parent]]]
<1>3. Solves1(U)
  <2>1. U \in [Nat -> [Parents -> Parents]]
    BY <1>2 DEF Climbs
  <2>2. ASSUME NEW n \in Nat, NEW c \in Parents
        PROVE  U[n][c] = IF n = 0 \/ c = TopLevel THEN c ELSE U[n - 1][cat[c].parent]
    <3>1. CASE n = 0
      BY <1>2, <3>1, ClimbStep
    <3>2. CASE n # 0 /\ c = TopLevel
      BY <1>2, <3>2, ClimbTop
    <3>3. CASE n # 0 /\ c # TopLevel
      <4>1. PICK m \in Nat : m + 1 = n /\ m = n - 1
        <5>1. n - 1 \in Nat /\ (n - 1) + 1 = n
          BY <3>3
        <5> QED BY <5>1
      <4>2. U[m + 1][c] = U[m][Above[c]]
        BY <1>2, <4>1, ClimbBelow
      <4> QED BY <1>1, <3>3, <4>1, <4>2
    <3> QED BY <3>1, <3>2, <3>3
  <2> DEFINE row(n) == [c \in Parents |-> IF n = 0 \/ c = TopLevel THEN c ELSE U[n - 1][cat[c].parent]]
  <2>3. ASSUME NEW n \in Nat PROVE U[n] = row(n)
    BY <2>1, <2>2
  <2>4. U = [n \in Nat |-> U[n]]
    BY <2>1
  <2> HIDE DEF row
  <2>5. U = [n \in Nat |-> row(n)]
    BY <2>3, <2>4
  <2> QED BY <2>5, Zenon DEF row
<1>4. Solves1(Up)
  <2>1. Up = CHOOSE f : Solves1(f)
    BY Zenon DEF Up
  <2> HIDE DEF Solves1
  <2> QED BY <1>3, <2>1, Zenon
<1>5. ASSUME NEW f, Solves1(f)
      PROVE  /\ f = [n \in Nat |-> f[n]] /\ \A n \in Nat : f[n] = [c \in Parents |-> f[n][c]]
             /\ \A n \in Nat : \A c \in Parents : f[n][c] = IF n = 0 \/ c = TopLevel THEN c ELSE f[n - 1][cat[c].parent]
  <2> DEFINE row(n) == [c \in Parents |-> IF n = 0 \/ c = TopLevel THEN c ELSE f[n - 1][cat[c].parent]]
  <2>1. f = [n \in Nat |-> row(n)]
    BY <1>5, Zenon
  <2>2. \A n \in Nat : row(n) = [c \in Parents |-> row(n)[c]]
    OBVIOUS
  <2>3. \A n \in Nat : \A c \in Parents : row(n)[c] = IF n = 0 \/ c = TopLevel THEN c ELSE f[n - 1][cat[c].parent]
    OBVIOUS
  <2> HIDE DEF row
  <2>4. \A n \in Nat : f[n] = row(n)
    BY <2>1
  <2> QED BY <2>1, <2>2, <2>3, <2>4
<1> DEFINE G == {n \in Nat : \A c \in Parents : Up[n][c] = U[n][c]}
<1> HIDE DEF Solves1
<1>6. 0 \in G
  BY <1>3, <1>4, <1>5
<1>7. ASSUME NEW n \in Nat, n \in G PROVE n + 1 \in G
  <2> SUFFICES ASSUME NEW c \in Parents PROVE Up[n + 1][c] = U[n + 1][c]
    OBVIOUS
  <2>1. \A f : Solves1(f) => f[n + 1][c] = IF n + 1 = 0 \/ c = TopLevel THEN c ELSE f[(n + 1) - 1][cat[c].parent]
    <3>1. n + 1 \in Nat
      OBVIOUS
    <3> QED BY <1>5, <3>1
  <2>2. (n + 1) - 1 = n
    OBVIOUS
  <2>3. c # TopLevel => cat[c].parent \in Parents
    BY DEF CategoriesTypeOK, CatRow, Parents
  <2>4. Up[n + 1][c] = IF c = TopLevel THEN c ELSE Up[n][cat[c].parent]
    BY <1>4, <2>1, <2>2
  <2>5. U[n + 1][c] = IF c = TopLevel THEN c ELSE U[n][cat[c].parent]
    BY <1>3, <2>1, <2>2
  <2> QED BY <1>7, <2>3, <2>4, <2>5
<1>8. Nat \subseteq G
  <2> HIDE DEF G
  <2> QED BY <1>6, <1>7, NatInductionOnSet
<1>9. \A n \in Nat : Up[n] = U[n]
  <2> SUFFICES ASSUME NEW n \in Nat PROVE Up[n] = U[n]
    OBVIOUS
  <2>1. Up[n] = [c \in Parents |-> Up[n][c]]
    BY <1>4, <1>5
  <2>2. U[n] = [c \in Parents |-> U[n][c]]
    BY <1>3, <1>5
  <2>3. \A c \in Parents : Up[n][c] = U[n][c]
    BY <1>8
  <2> HIDE DEF G
  <2> QED BY <2>1, <2>2, <2>3
<1>10. Up = U
  <2>1. Up = [n \in Nat |-> Up[n]]
    BY <1>4, <1>5
  <2>2. U = [n \in Nat |-> U[n]]
    BY <1>3, <1>5
  <2> QED BY <1>9, <2>1, <2>2
<1> QED BY <1>2, <1>10

\* What Fits says of a tree without loops.
Grafts(U, L, kind, c, p) ==
  /\ Clear(U, p, c)
  /\ kind = "one" /\ p # TopLevel => LeavesRoom(U, L, c, p)

LEMMA ChainLong ==
  ASSUME CategoriesAssumption, CategoriesTypeOK, Reaches(Up), NEW p \in Parents
  PROVE  /\ Cardinality(Chain(p)) \in Nat
         /\ \A n \in Nat : Up[n][p] # TopLevel => n + 1 <= Cardinality(Chain(p))
         /\ \A n \in Nat : \A c \in Categories : Up[n][p] = c => n \in Guard /\ OnChain(p, c)
<1>1. Climbs(Above, Up)
  BY UpClimbs
<1>2. PICK last \in 0..Cardinality(Categories) : \A n \in Nat : Up[n][p] = TopLevel <=> n >= last
  BY <1>1, ClimbTime
<1>3. Cardinality(Categories) \in Nat /\ last \in Nat /\ last <= Cardinality(Categories)
  BY <1>2, FS_CardinalityType DEF CategoriesAssumption
<1>4. Chain(p) = 0..(last - 1)
  BY <1>2, <1>3 DEF Chain, Guard
<1>5. Cardinality(Chain(p)) = last
  <2>1. CASE last = 0
    BY <1>4, <2>1, FS_EmptySet
  <2>2. CASE last # 0
    <3>1. 0 \in Int /\ last - 1 \in Int /\ ~(0 > last - 1) /\ (last - 1) - 0 + 1 = last
      BY <1>3, <2>2
    <3> QED BY <1>4, <3>1, FS_Interval
  <2> QED BY <2>1, <2>2
<1>6. ASSUME NEW n \in Nat, Up[n][p] # TopLevel PROVE n + 1 <= last /\ n \in Chain(p) /\ n \in Guard
  <2>1. n < last
    BY <1>2, <1>3, <1>6
  <2> QED BY <1>3, <1>4, <2>1 DEF Guard
<1>7. \A c \in Categories : c # TopLevel
  BY DEF CategoriesAssumption
<1> QED BY <1>3, <1>5, <1>6, <1>7 DEF OnChain

LEMMA FitsGrafts ==
  ASSUME CategoriesAssumption, CategoriesTypeOK, Reaches(Up), NEW c \in Categories, NEW p \in Parents,
         NEW kind, Fits(c, p, HeightsAfter(kind, c))
  PROVE  Grafts(Up, Live, kind, c, p)
<1>1. Climbs(Above, Up) /\ c # TopLevel
  BY UpClimbs DEF CategoriesAssumption
<1>2. CASE p = TopLevel
  BY <1>1, <1>2, ClimbTop DEF Grafts, Clear
<1>3. CASE p # TopLevel
  <2>1. ~OnChain(p, c) /\ \A h \in HeightsAfter(kind, c) : Cardinality(Chain(p)) + 1 + h <= MaxDepth
    BY <1>3 DEF Fits
  <2>2. /\ Cardinality(Chain(p)) \in Nat
        /\ \A n \in Nat : Up[n][p] # TopLevel => n + 1 <= Cardinality(Chain(p))
        /\ \A n \in Nat : Up[n][p] = c => OnChain(p, c)
    BY ChainLong
  <2>3. ASSUME kind = "one", NEW d \in Parents, NEW m \in Nat, NEW n \in Nat,
               Up[m][d] = c, \A k \in 0..(m - 1) : Up[k][d] \in Live /\ Up[k][d] # c, Up[n][p] # TopLevel
        PROVE  n + (m + 1) < MaxDepth
    <3>1. m \in Guard
      BY <2>3, ChainLong
    <3>2. d # TopLevel
      BY <1>1, <2>3, ClimbTop
    <3>3. m \in Heights(c)
      BY <2>3, <3>1, <3>2 DEF Heights, Parents
    <3>4. Cardinality(Chain(p)) + 1 + m <= MaxDepth
      BY <2>1, <2>3, <3>3 DEF HeightsAfter
    <3>5. n + 1 <= Cardinality(Chain(p)) /\ MaxDepth \in Nat
      BY <2>2, <2>3 DEF CategoriesAssumption
    <3> QED BY <2>2, <3>4, <3>5
  <2> QED BY <2>1, <2>2, <2>3 DEF Grafts, Clear, LeavesRoom
<1> QED BY <1>2, <1>3

Sound == Reaches(Up) /\ Shallow(Up, Live)

LEMMA SoundIsSound ==
  ASSUME CategoriesAssumption, CategoriesTypeOK, Sound,
         \A c \in Categories : cat[c].parent # TopLevel => cat[cat[c].parent].state # "none"
  PROVE  /\ \A c \in Categories : Up[Cardinality(Categories)][c] = TopLevel
         /\ \A c \in Live : Up[MaxDepth][c] = TopLevel \/ \E n \in 0..MaxDepth : Up[n][c] \in Gone
<1>1. Climbs(Above, Up)
  BY UpClimbs
<1>2. ASSUME NEW c \in Categories PROVE Up[Cardinality(Categories)][c] = TopLevel
  <2>1. PICK last \in 0..Cardinality(Categories) : \A n \in Nat : Up[n][c] = TopLevel <=> n >= last
    BY <1>1, ClimbTime DEF Sound, Parents
  <2>2. Cardinality(Categories) \in Nat
    BY FS_CardinalityType DEF CategoriesAssumption
  <2> QED BY <2>1, <2>2
<1>3. ASSUME NEW c \in Live, Up[MaxDepth][c] # TopLevel PROVE \E n \in 0..MaxDepth : Up[n][c] \in Gone
  <2>1. c \in Categories /\ c \in Parents /\ MaxDepth \in Nat
    BY DEF Live, Parents, CategoriesAssumption
  <2>2. PICK n \in 0..(MaxDepth - 1) : Up[n][c] \notin Live
    BY <1>3, <2>1 DEF Sound, Shallow
  <2>3. Up[n][c] # TopLevel
    <3>1. PICK last \in 0..Cardinality(Categories) : \A k \in Nat : Up[k][c] = TopLevel <=> k >= last
      BY <1>1, <2>1, ClimbTime DEF Sound
    <3> QED BY <1>3, <2>1, <2>2, <3>1
  <2>4. n # 0
    BY <1>1, <2>1, <2>2, ClimbStep
  <2>5. PICK m \in Nat : m + 1 = n
    <3>1. n - 1 \in Nat /\ (n - 1) + 1 = n
      BY <2>1, <2>2, <2>4
    <3> QED BY <3>1
  <2>6. Up[m + 1][c] = Above[Up[m][c]] /\ Up[m][c] \in Parents
    BY <1>1, <2>1, <2>5, ClimbStep
  <2>7. Up[m][c] # TopLevel
    BY <1>1, <2>3, <2>5, <2>6 DEF Climbs
  <2>8. Up[m][c] \in Categories /\ Up[n][c] = cat[Up[m][c]].parent
    BY <2>5, <2>6, <2>7 DEF Above, Parents
  <2>9. cat[Up[n][c]].state # "none" /\ Up[n][c] \in Categories
    BY <2>3, <2>8 DEF CategoriesTypeOK, CatRow, Parents
  <2>10. Up[n][c] \in Gone
    BY <2>2, <2>9 DEF CategoriesTypeOK, CatRow, Live, Gone
  <2> QED BY <2>1, <2>2, <2>10
<1> QED BY <1>2, <1>3

----------------------------------------------------------------------------
(* What the requests under way have read. *)

categorySpecVars == <<slots, categoryVars>>

CatJob == [at : {"category.check", "category.save"}, mode : {"one", "move", "purge"}, cat : Categories,
           copy : CatRow, with : SUBSET Categories]

CategoriesTyped ==
  /\ CategoriesTypeOK
  /\ req \in [Workers -> {Idle} \cup CatJob]

\* A parent is a row that was written once; rows are deleted softly.
IsRow(p) == p = TopLevel \/ cat[p].state # "none"
Rooted == \A c \in Categories : IsRow(cat[c].parent)

CopyOK(j) ==
  /\ j.copy.state # "none"
  /\ j.mode # "one" => j.copy.state = "gone"
  /\ IsRow(j.copy.parent)

\* Until somebody is overtaken the children found are moved to the parent that their category has,
\* and what was checked still holds when it is saved.
ReadyToSave(j) ==
  /\ j.mode = "move" => j.cat \in Live /\ cat[j.cat].parent = j.copy.parent
  /\ j.at = "category.save" =>
       /\ Grafts(Up, Live, j.mode, j.cat, j.copy.parent)
       /\ j.mode = "one" => j.with = {}
       /\ j.mode = "move" => j.with = Children(j.cat)

CategoriesInv ==
  /\ CategoriesTyped /\ Rooted
  /\ \A w \in Workers : req[w] # Idle => CopyOK(req[w])
  /\ ~overtaken => Sound /\ \A w \in Workers : req[w] # Idle => ReadyToSave(req[w])

\* The rows after a save.
Saved(c, copy, kind, with) ==
  [d \in Categories |->
     IF d = c THEN copy
     ELSE IF d \notin with THEN cat[d]
     ELSE IF kind = "move" THEN [cat[d] EXCEPT !.parent = copy.parent]
     ELSE [cat[d] EXCEPT !.state = "gone"]]

LEMMA SavedTree ==
  ASSUME CategoriesAssumption, CategoriesTypeOK, CategoriesTypeOK', Sound,
         NEW c \in Categories, NEW copy \in CatRow, NEW kind, NEW with \in SUBSET Categories,
         Grafts(Up, Live, kind, c, copy.parent),
         kind # "one" => copy.state = "gone",
         kind = "one" => with = {},
         kind = "move" => c \in Live /\ cat[c].parent = copy.parent /\ with = Children(c),
         cat' = Saved(c, copy, kind, with)
  PROVE  Sound'
<1>1. Climbs(Above, Up) /\ Climbs(Above, Up)'
  BY UpClimbs, PTL
<1>2. PICK S, U, L : S = Above /\ U = Up /\ L = Live
  OBVIOUS
<1>3. PICK T, V, M : T = Above' /\ V = Up' /\ M = Live'
  OBVIOUS
<1>4. PICK p : p = copy.parent
  OBVIOUS
<1>5. p \in Parents /\ c \in Parents /\ c # TopLevel /\ TopLevel \notin Categories
  BY <1>4 DEF CatRow, Parents, CategoriesAssumption
<1>6. Climbs(S, U) /\ Climbs(T, V) /\ Reaches(U) /\ Shallow(U, L) /\ Grafts(U, L, kind, c, p)
  BY <1>1, <1>2, <1>3, <1>4, Zenon DEF Sound
<1>7. SUFFICES Reaches(V) /\ Shallow(V, M)
  BY <1>3, Zenon DEF Sound
<1>8. /\ \A d \in Categories : S[d] = cat[d].parent /\ T[d] = cat'[d].parent
      /\ S[TopLevel] = TopLevel /\ T[TopLevel] = TopLevel
  BY <1>2, <1>3 DEF Above, Parents, CategoriesAssumption
<1>9. \A d \in Categories :
        /\ d = c => cat'[d] = copy
        /\ d # c /\ (d \notin with \/ kind # "move") => cat'[d].parent = cat[d].parent
        /\ d # c /\ d \in with /\ kind = "move" => cat'[d].parent = p
        /\ d # c /\ (d \notin with \/ kind = "move") => cat'[d].state = cat[d].state
        /\ d # c /\ d \in with /\ kind # "move" => cat'[d].state = "gone"
  BY <1>4 DEF Saved, CategoriesTypeOK, CatRow
<1>10. NothingNew(L, M, c) /\ (c \in M => kind = "one")
  BY <1>2, <1>3, <1>9 DEF Live, NothingNew
<1>11. CASE kind # "move"
  <2>1. T[c] = p /\ AlikeOff({c}, S, T)
    BY <1>4, <1>5, <1>8, <1>9, <1>11 DEF AlikeOff, Parents
  <2>2. Clear(U, p, c)
    BY <1>6 DEF Grafts
  <2>3. p # TopLevel /\ c \in M => LeavesRoom(U, L, c, p)
    BY <1>6, <1>10 DEF Grafts
  <2>4. Reaches(V)
    <3>1. Climbs(S, U) /\ Climbs(T, V) /\ Reaches(U)
      BY <1>6
    <3>2. T[c] = p /\ AlikeOff({c}, S, T) /\ c \in Categories /\ p \in Parents /\ TopLevel \notin Categories
      BY <1>5, <2>1
    <3>3. Reaches(V) /\ Rejoins(U, V, c, p)
      BY <2>2, <3>1, <3>2, ReparentedReaches
    <3> QED BY <3>3
  <2>5. Shallow(V, M)
    <3>1. Climbs(S, U) /\ Climbs(T, V) /\ Reaches(U) /\ Shallow(U, L) /\ NothingNew(L, M, c)
      BY <1>6, <1>10
    <3>2. T[c] = p /\ AlikeOff({c}, S, T) /\ c \in Categories /\ p \in Parents /\ TopLevel \notin Categories
      BY <1>5, <2>1
    <3> QED BY <2>2, <2>3, <3>1, <3>2, ReparentedShallow
  <2> QED BY <2>4, <2>5
<1>12. CASE kind = "move"
  <2>1. PICK K : K = Children(c)
    OBVIOUS
  <2>2. K \subseteq Categories /\ \A e \in K : S[e] = c
    BY <1>8, <2>1 DEF Children, Live
  <2>3. c \notin K
    <3>1. U[0 + 1][c] = S[U[0][c]] /\ U[0][c] = c
      BY <1>5, <1>6, ClimbStep
    <3>2. U[1][c] # c
      BY <1>5, <1>6, NoLoop
    <3> QED BY <2>2, <3>1, <3>2
  <2>4. S[c] = p /\ c \in L /\ M \subseteq L
    BY <1>2, <1>4, <1>8, <1>10, <1>12 DEF NothingNew
  <2>5. \A e \in K : T[e] = p
    BY <1>8, <1>9, <1>12, <2>1, <2>2, <2>3
  <2>6. AlikeOff(K, S, T)
    BY <1>4, <1>5, <1>8, <1>9, <1>12, <2>1, <2>4 DEF AlikeOff, Parents
  <2> QED BY <1>5, <1>6, <2>2, <2>4, <2>5, <2>6, Lifted
<1> QED BY <1>11, <1>12

----------------------------------------------------------------------------

\* The forest that the rows may make at the start.
LEMMA FirstTree == CategoriesInit => CategoriesTypeOK /\ Rooted /\ Sound
<1> SUFFICES ASSUME CategoriesInit PROVE CategoriesTypeOK /\ Rooted /\ Sound
  OBVIOUS
<1>1. CategoriesTypeOK /\ Rooted
  BY DEF CategoriesInit, CategoriesTypeOK, Rooted, IsRow, SoundForest, CatRow, Parents
<1>2. Climbs(Above, Up) /\ MaxDepth \in Nat
  BY <1>1, UpClimbs, CategoriesAssumption DEF CategoriesAssumption
<1>3. \A d \in Parents : Up[MaxDepth][d] = TopLevel
  BY <1>2, ClimbTop DEF CategoriesInit, Parents
<1>4. ASSUME NEW d \in Parents, NEW n \in Nat, n >= MaxDepth PROVE Up[n][d] = TopLevel
  <2>1. PICK rest \in Nat : rest + MaxDepth = n
    <3>1. n - MaxDepth \in Nat /\ (n - MaxDepth) + MaxDepth = n
      BY <1>2, <1>4
    <3> QED BY <3>1
  <2>2. Up[rest + MaxDepth][d] = Up[rest][Up[MaxDepth][d]]
    BY <1>2, ClimbSum
  <2> QED BY <1>2, <1>3, <2>1, <2>2, ClimbTop
<1>5. Reaches(Up)
  BY <1>2, <1>3 DEF Reaches
<1>6. Shallow(Up, Live)
  BY <1>2, <1>4 DEF Shallow
<1> QED BY <1>1, <1>5, <1>6 DEF Sound

LEMMA CategoriesInitOK == SlotsInit /\ CategoriesInit => CategoriesInv
<1> SUFFICES ASSUME SlotsInit, CategoriesInit PROVE CategoriesInv
  OBVIOUS
<1>1. CategoriesTypeOK /\ Rooted /\ Sound
  BY FirstTree
<1>2. CategoriesTyped /\ \A w \in Workers : req[w] = Idle
  BY <1>1 DEF SlotsInit, CategoriesTyped
<1> QED BY <1>1, <1>2 DEF CategoriesInv

LEMMA TreeStays ==
  ASSUME UNCHANGED cat
  PROVE  Up' = Up /\ Live' = Live /\ (\A c : Children(c)' = Children(c)) /\ \A p : IsRow(p)' <=> IsRow(p)
<1>1. Up' = Up
  BY Zenon DEF Up
<1> QED BY <1>1 DEF Live, Children, IsRow

\* A request begins, goes on or ends, and no row is written.
LEMMA JobTaken ==
  ASSUME CategoriesInv, NEW w \in Workers, NEW job, req' = [req EXCEPT ![w] = job], UNCHANGED categoryVars,
         job = Idle \/ (job \in CatJob /\ CopyOK(job) /\ (~overtaken => ReadyToSave(job)))
  PROVE  CategoriesInv'
<1>1. /\ CategoriesTyped /\ Rooted /\ cat' = cat /\ overtaken' = overtaken
      /\ req \in [Workers -> {Idle} \cup CatJob]
  BY DEF CategoriesInv, CategoriesTyped, categoryVars
<1>2. CategoriesTyped'
  BY <1>1 DEF CategoriesTyped, CategoriesTypeOK
<1>3. Rooted'
  BY <1>1 DEF Rooted, IsRow
<1>4. Up' = Up /\ Live' = Live
  BY <1>1, TreeStays
<1>5. \A v \in Workers : req'[v] = IF v = w THEN job ELSE req[v]
  BY <1>1
<1>6. ASSUME NEW v \in Workers, req'[v] # Idle PROVE CopyOK(req[v])'
  <2>1. PICK j : j = req'[v]
    OBVIOUS
  <2>2. CopyOK(j)
    BY <1>5, <1>6, <2>1, Zenon DEF CategoriesInv
  <2> QED BY <1>1, <2>1, <2>2 DEF CopyOK, IsRow
<1>7. ASSUME ~overtaken', NEW v \in Workers, req'[v] # Idle PROVE ReadyToSave(req[v])'
  <2>1. PICK j : j = req'[v]
    OBVIOUS
  <2>2. ~overtaken
    BY <1>1, <1>7
  <2>3. ReadyToSave(j)
    BY <1>5, <1>7, <2>1, <2>2, Zenon DEF CategoriesInv
  <2> QED BY <1>1, <1>4, <2>1, <2>3 DEF ReadyToSave, Children
<1>8. ~overtaken' => Sound'
  BY <1>1, <1>4, Zenon DEF CategoriesInv, Sound
<1> QED BY <1>2, <1>3, <1>6, <1>7, <1>8 DEF CategoriesInv

LEMMA SaveCategoryStep ==
  ASSUME CategoriesInv, NEW w \in Workers, SaveCategory(w)
  PROVE  CategoriesInv'
<1>1. /\ CategoriesTyped /\ CategoriesTypeOK /\ Rooted
      /\ req \in [Workers -> {Idle} \cup CatJob]
      /\ CategoriesAssumption
  BY CategoriesAssumption DEF CategoriesInv, CategoriesTyped
<1>2. req[w] # Idle /\ req[w] \in CatJob
  BY <1>1 DEF SaveCategory, At, Idle
<1>3. PICK job \in CatJob : job = req[w]
  BY <1>2
<1>4. job.at = "category.save" /\ job.cat \in Categories /\ job.copy \in CatRow /\ job.with \in SUBSET Categories
  BY <1>3 DEF CatJob, SaveCategory, At
<1>5. cat' = Saved(job.cat, job.copy, job.mode, job.with)
  BY <1>3, Zenon DEF SaveCategory, Saved
<1>6. req' = [req EXCEPT ![w] = Idle] /\ overtaken' = (overtaken \/ Saving(w) # {})
  BY DEF SaveCategory, Answer, Proceed
<1>7. CopyOK(job)
  BY <1>2, <1>3, Zenon DEF CategoriesInv
<1>8. CategoriesTypeOK'
  <2>1. cat' \in [Categories -> CatRow]
    BY <1>1, <1>4, <1>5 DEF Saved, CategoriesTypeOK, CatRow
  <2>2. overtaken' \in BOOLEAN
    BY <1>6, Zenon
  <2> QED BY <2>1, <2>2 DEF CategoriesTypeOK
<1>9. CategoriesTyped'
  BY <1>1, <1>6, <1>8 DEF CategoriesTyped
<1>10. \A d \in Categories :
         /\ cat[d].state # "none" => cat'[d].state # "none"
         /\ cat'[d].parent \in {cat[d].parent, job.copy.parent}
  BY <1>1, <1>4, <1>5, <1>7 DEF Saved, CopyOK, CategoriesTypeOK, CatRow
<1>11. \A p \in Parents : IsRow(p) => (p = TopLevel \/ cat'[p].state # "none")
  BY <1>10 DEF IsRow, Parents
<1>12. Rooted'
  <2> SUFFICES ASSUME NEW d \in Categories PROVE cat'[d].parent = TopLevel \/ cat'[cat'[d].parent].state # "none"
    BY DEF Rooted, IsRow
  <2>1. cat'[d].parent \in Parents
    BY <1>8 DEF CategoriesTypeOK, CatRow
  <2>2. IsRow(cat'[d].parent)
    <3>1. IsRow(cat[d].parent) /\ IsRow(job.copy.parent)
      BY <1>1, <1>7 DEF Rooted, CopyOK
    <3>2. cat'[d].parent = cat[d].parent \/ cat'[d].parent = job.copy.parent
      BY <1>10
    <3> QED BY <3>1, <3>2, Zenon
  <2> QED BY <1>11, <2>1, <2>2
<1>13. \A v \in Workers : req'[v] = IF v = w THEN Idle ELSE req[v]
  BY <1>1, <1>6
<1>14. ASSUME NEW v \in Workers, req'[v] # Idle PROVE CopyOK(req[v])'
  <2>1. PICK j \in CatJob : j = req'[v] /\ j = req[v] /\ v # w
    BY <1>1, <1>13, <1>14
  <2>2. CopyOK(j)
    BY <1>14, <1>13, <2>1, Zenon DEF CategoriesInv
  <2>3. j.copy.parent \in Parents
    BY DEF CatJob, CatRow
  <2> QED BY <1>11, <2>1, <2>2, <2>3 DEF CopyOK, IsRow
<1>15. CASE overtaken'
  BY <1>9, <1>12, <1>14, <1>15 DEF CategoriesInv
<1>16. CASE ~overtaken'
  <2>1. ~overtaken /\ Saving(w) = {}
    BY <1>6, <1>16, Zenon
  <2>2. Sound /\ ReadyToSave(job)
    BY <1>2, <1>3, <2>1, Zenon DEF CategoriesInv
  <2>3. Sound'
    <3> DEFINE c == job.cat
               copy == job.copy
               kind == job.mode
               with == job.with
    <3>1. /\ Grafts(Up, Live, kind, c, copy.parent)
          /\ kind # "one" => copy.state = "gone"
          /\ kind = "one" => with = {}
          /\ kind = "move" => c \in Live /\ cat[c].parent = copy.parent /\ with = Children(c)
      BY <1>4, <1>7, <2>2 DEF ReadyToSave, CopyOK
    <3>2. c \in Categories /\ copy \in CatRow /\ with \in SUBSET Categories /\ cat' = Saved(c, copy, kind, with)
      BY <1>4, <1>5
    <3> HIDE DEF c, copy, kind, with
    <3> QED BY <1>1, <1>8, <2>2, <3>1, <3>2, SavedTree
  <2>4. ASSUME NEW v \in Workers, req'[v] # Idle PROVE ReadyToSave(req[v])'
    <3>1. PICK j \in CatJob : j = req'[v] /\ j = req[v] /\ v # w
      BY <1>1, <1>13, <2>4
    <3>2. j.at \in {"category.check", "category.save"}
      BY DEF CatJob
    <3>3. j.at # "category.save" /\ j.mode # "move"
      BY <2>1, <3>1, <3>2 DEF Saving, Others, At
    <3> QED BY <3>1, <3>3 DEF ReadyToSave
  <2> QED BY <1>9, <1>12, <1>14, <2>3, <2>4 DEF CategoriesInv
<1> QED BY <1>15, <1>16

LEMMA CheckCategoryStep ==
  ASSUME CategoriesInv, NEW w \in Workers, CheckCategory(w)
  PROVE  CategoriesInv'
<1>1. /\ CategoriesTyped /\ CategoriesTypeOK /\ req \in [Workers -> {Idle} \cup CatJob] /\ CategoriesAssumption
  BY CategoriesAssumption DEF CategoriesInv, CategoriesTyped
<1>2. req[w] # Idle /\ req[w] \in CatJob
  BY <1>1 DEF CheckCategory, At, Idle
<1>3. PICK job \in CatJob : job = req[w]
  BY <1>2
<1>4. job.cat \in Categories /\ job.copy.parent \in Parents
  BY DEF CatJob, CatRow
<1>5. PICK next : next = [job EXCEPT !.at = "category.save", !.with = FoundWith(job.mode, job.cat)]
  OBVIOUS
<1>6. /\ req' = [req EXCEPT ![w] = next] /\ UNCHANGED categoryVars
      /\ Fits(job.cat, job.copy.parent, HeightsAfter(job.mode, job.cat))
  BY <1>3, <1>5 DEF CheckCategory, Proceed
<1>7. FoundWith(job.mode, job.cat) \subseteq Categories
  BY DEF FoundWith, Children, Below, Live
<1>8. /\ next \in CatJob /\ next.at = "category.save" /\ next.with = FoundWith(job.mode, job.cat)
      /\ next.mode = job.mode /\ next.cat = job.cat /\ next.copy = job.copy
  BY <1>5, <1>7 DEF CatJob
<1>9. CopyOK(job) /\ (~overtaken => Sound /\ ReadyToSave(job))
  BY <1>2, <1>3, Zenon DEF CategoriesInv
<1>10. CopyOK(next)
  BY <1>8, <1>9 DEF CopyOK
<1>11. ASSUME ~overtaken PROVE ReadyToSave(next)
  <2>1. Grafts(Up, Live, job.mode, job.cat, job.copy.parent)
    BY <1>1, <1>4, <1>6, <1>9, <1>11, FitsGrafts DEF Sound
  <2>2. /\ job.mode = "one" => FoundWith(job.mode, job.cat) = {}
        /\ job.mode = "move" => FoundWith(job.mode, job.cat) = Children(job.cat)
    BY DEF FoundWith
  <2> QED BY <1>8, <1>9, <1>11, <2>1, <2>2 DEF ReadyToSave
<1> QED BY <1>6, <1>8, <1>10, <1>11, JobTaken

LEMMA BeginSaveCategoryStep ==
  ASSUME CategoriesInv, NEW w \in Workers, NEW kind \in {"one", "move", "purge"}, NEW c \in Categories,
         NEW copy \in CatRow, BeginSave(w, kind, c, copy),
         copy.state # "none", IsRow(copy.parent),
         kind # "one" => copy.state = "gone",
         kind = "move" => c \in Live /\ cat[c].parent = copy.parent
  PROVE  CategoriesInv'
<1>1. PICK job : job = [at |-> "category.check", mode |-> kind, cat |-> c, copy |-> copy, with |-> {}]
  OBVIOUS
<1>2. req' = [req EXCEPT ![w] = job] /\ UNCHANGED categoryVars
  BY <1>1 DEF BeginSave, Begin
<1>3. /\ job \in CatJob /\ job.at = "category.check" /\ job.mode = kind /\ job.cat = c /\ job.copy = copy
  BY <1>1 DEF CatJob
<1>4. CopyOK(job) /\ ReadyToSave(job)
  BY <1>3 DEF CopyOK, ReadyToSave
<1> QED BY <1>2, <1>3, <1>4, JobTaken

LEMMA CategoriesStepOK == CategoriesInv /\ [CategoriesNext]_categorySpecVars => CategoriesInv'
<1> SUFFICES ASSUME CategoriesInv, [CategoriesNext]_categorySpecVars PROVE CategoriesInv'
  OBVIOUS
<1>1. CategoriesTypeOK /\ Rooted /\ req \in [Workers -> {Idle} \cup CatJob]
  BY DEF CategoriesInv, CategoriesTyped
<1>2. \A c \in Categories : cat[c] \in CatRow /\ IsRow(cat[c].parent)
  BY <1>1 DEF CategoriesTypeOK, Rooted
<1>3. \A p \in Live \cup {TopLevel} : p \in Parents /\ IsRow(p)
  BY DEF Live, Parents, IsRow
<1>4. ASSUME NEW w \in Workers, NEW c \in Categories, AddCategory(w, c) \/ MoveCategory(w, c) PROVE CategoriesInv'
  <2>1. PICK p \in Live \cup {TopLevel, cat[c].parent} : BeginSave(w, "one", c, Under(p))
    BY <1>4 DEF AddCategory, MoveCategory
  <2>2. p \in Parents /\ IsRow(p)
    BY <1>2, <1>3, <2>1 DEF CatRow
  <2>3. Under(p) \in CatRow /\ Under(p).state # "none" /\ Under(p).parent = p
    BY <2>2 DEF Under, CatRow
  <2> QED BY <2>1, <2>2, <2>3, BeginSaveCategoryStep
<1>5. ASSUME NEW w \in Workers, NEW c \in Categories, RestoreCategory(w, c) PROVE CategoriesInv'
  <2>1. PICK p : p = cat[c].parent
    OBVIOUS
  <2>2. p \in Parents /\ IsRow(p) /\ BeginSave(w, "one", c, Under(p))
    BY <1>2, <1>5, <2>1 DEF CatRow, RestoreCategory
  <2>3. Under(p) \in CatRow /\ Under(p).state # "none" /\ Under(p).parent = p
    BY <2>2 DEF Under, CatRow
  <2> QED BY <2>2, <2>3, BeginSaveCategoryStep
<1>6. ASSUME NEW w \in Workers, NEW c \in Categories,
             DestroyCategory(w, c) \/ MoveContentsUp(w, c) \/ PurgeCategories(w, c)
      PROVE  CategoriesInv'
  <2>1. PICK copy : copy = Deleted(c)
    OBVIOUS
  <2>2. copy \in CatRow /\ copy.state = "gone" /\ copy.parent = cat[c].parent /\ IsRow(copy.parent)
    BY <1>2, <2>1 DEF Deleted, CatRow
  <2>3. c \in Live /\ \E kind \in {"one", "move", "purge"} : BeginSave(w, kind, c, copy)
    BY <1>6, <2>1 DEF DestroyCategory, MoveContentsUp, PurgeCategories
  <2> QED BY <2>2, <2>3, BeginSaveCategoryStep
<1>7. ASSUME NEW w \in Workers, RefuseCategory(w) \/ DieCategorizing(w) PROVE CategoriesInv'
  <2>1. req' = [req EXCEPT ![w] = Idle] /\ UNCHANGED categoryVars
    BY <1>7 DEF RefuseCategory, DieCategorizing, Crash, Answer, Proceed
  <2> QED BY <2>1, JobTaken
<1>8. CASE UNCHANGED categorySpecVars
  <2>1. req' = req /\ UNCHANGED categoryVars
    BY <1>8 DEF categorySpecVars, slots
  <2>2. CASE Workers = {}
    <3>1. cat' = cat /\ overtaken' = overtaken /\ Up' = Up /\ Live' = Live
      BY <2>1, TreeStays DEF categoryVars
    <3>2. Rooted' /\ CategoriesTyped' /\ (Sound <=> Sound')
      BY <1>1, <2>1, <3>1 DEF CategoriesTyped, CategoriesTypeOK, Rooted, IsRow, Sound
    <3> QED BY <2>2, <3>1, <3>2 DEF CategoriesInv
  <2>3. ASSUME NEW w \in Workers PROVE CategoriesInv'
    <3>1. PICK job : job = req[w]
      OBVIOUS
    <3>2. req' = [req EXCEPT ![w] = job]
      BY <1>1, <2>1, <3>1
    <3>3. job = Idle \/ (job \in CatJob /\ CopyOK(job) /\ (~overtaken => ReadyToSave(job)))
      BY <1>1, <3>1, Zenon DEF CategoriesInv
    <3> QED BY <2>1, <3>2, <3>3, JobTaken
  <2> QED BY <2>2, <2>3
<1> QED BY <1>4, <1>5, <1>6, <1>7, <1>8, SaveCategoryStep, CheckCategoryStep DEF CategoriesNext

\* The invariant read as TreeSound states it.
LEMMA TreeIsSound == CategoriesTypeOK /\ Rooted /\ Sound => TreeSound
<1> SUFFICES ASSUME CategoriesTypeOK, Rooted, Sound PROVE TreeSound
  OBVIOUS
<1>1. CategoriesAssumption
  BY CategoriesAssumption
<1>2. \A c \in Categories : cat[c].parent # TopLevel => cat[cat[c].parent].state # "none"
  BY DEF Rooted, IsRow
<1> QED BY <1>1, <1>2, SoundIsSound DEF TreeSound

LEMMA UntilOvertaken == CategoriesInv => TreeSound
  BY TreeIsSound DEF CategoriesInv, CategoriesTyped, TreeSound

\* For any number of categories, any depth and any number of requests: no cycle, and no active
\* category below more than MaxDepth tiers of active ones, until a request is overtaken.
THEOREM TreeStaysSound == CategoriesSpec => []TreeSound
<1>1. [CategoriesNext]_categorySpecVars <=> [CategoriesNext]_<<slots, categoryVars>>
  BY DEF categorySpecVars
<1> QED BY UntilOvertaken, <1>1, CategoriesInitOK, CategoriesStepOK, PTL DEF CategoriesSpec

----------------------------------------------------------------------------
(* The search index: IndexAgrees.

   A request that is apart is the only one at its products, so the documents it has yet to send
   are those of the rows it leaves, and nothing of either changes under it.  Where two requests
   meet, neither is apart and the product has strayed.  What no request has touched the index for
   still agrees. *)

indexSpecVars == <<slots, indexVars>>

ProductSteps == {"product.save", "product.commit", "product.alone", "product.tell"}

DocText == Text \cup {Absent}

Change == [state : {"live", "gone", "kept"}, name : Words \cup {"kept"}, attr : Words \cup {Absent, "kept"}]

ChangeSets == UNION {[ps -> Change] : ps \in SUBSET Products}
Sayings == UNION {[ps -> DocText] : ps \in SUBSET Products}

IndexJob == [at : IndexSteps, ps : SUBSET Products, set : ChangeSets, says : Seq(Sayings),
             ok : BOOLEAN, called : BOOLEAN, apart : BOOLEAN]

IndexTyped ==
  /\ rows \in [Products -> ProductRow]
  /\ req \in [Workers -> {Idle} \cup IndexJob]

\* What a request writes and says is about its products; the last it says comes before it commits.
IndexShape(j) ==
  /\ j.at \in ProductSteps => DOMAIN j.set = j.ps /\ \A n \in 1..Len(j.says) : DOMAIN j.says[n] = j.ps
  /\ j.at = "product.save" => Len(j.says) > 0
  /\ j.at \in {"product.alone", "product.tell"} => (\E p \in Products : j.ps = {p}) /\ Len(j.says) \in {0, 1}
  /\ j.at \notin ProductSteps => j.ps = Products
  /\ j.at \in {"index.create", "index.read", "index.build", "index.import"} => j.called
  /\ j.at \in {"index.build", "index.import"} =>
       Len(j.says) = 3 /\ \A p \in DOMAIN j.says[1] : j.says[1][p] \in Text
  /\ j.at \notin {"product.save", "product.commit"} => j.ok

Adds(j, p, row) == row.state = "live" /\ row.attr = Absent /\ j.set[p].attr \in Words

Reads(say, p, row) == row.state = "live" /\ say[p] = TextOf(row)

\* Of a request that is apart: what it says of p last fits the row that it leaves, unless it adds
\* an attribute; and once it has said it, the document does.
OnTrack(j, p, row, doc) ==
  LET aim == Shown(Written(row, j.set[p])) IN
  /\ j.at = "product.save" => j.says[Len(j.says)][p] = aim \/ Adds(j, p, row)
  /\ j.at = "product.commit" => doc = aim \/ Adds(j, p, row)
  /\ j.at = "product.alone" /\ Len(j.says) = 1 => j.says[1][p] = aim
  /\ j.at = "product.alone" /\ Len(j.says) = 0 =>
       j.set[p].state = "live" /\ j.set[p].name # "kept" /\ j.set[p].attr = "kept"
  /\ j.at = "product.tell" /\ Len(j.says) = 1 => j.says[1][p] = Shown(row)
  /\ j.at = "product.tell" /\ Len(j.says) = 0 => row.state = "live" /\ j.set[p].name = row.name
  /\ j.at \in {"index.create", "index.read"} => doc = Absent
  /\ j.at \in {"index.build", "index.import"} /\ p \in DOMAIN j.says[1] => Reads(j.says[1], p, row)
  /\ j.at = "index.build" /\ p \notin DOMAIN j.says[1] => p \in DOMAIN j.says[3] \/ doc = Shown(row)
  /\ j.at = "index.import" /\ p \notin DOMAIN j.says[1] =>
       IF p \in DOMAIN j.says[2] THEN Reads(j.says[2], p, row) ELSE p \in DOMAIN j.says[3] \/ doc = Shown(row)

AtIt(w, p) == req[w] \in IndexJob /\ p \in req[w].ps

MeetingsNoted ==
  \A w, x \in Workers : \A p \in Products :
    w # x /\ AtIt(w, p) /\ AtIt(x, p) => ~req[w].apart /\ p \in strayed

AllOnTrack ==
  \A w \in Workers : req[w] \in IndexJob /\ req[w].apart /\ req[w].ok =>
    \A p \in req[w].ps : OnTrack(req[w], p, rows[p], docs[p])

Untouched(p) == \A w \in Workers : AtIt(w, p) => ~req[w].called

Trusted == \A p \in Products : p \notin strayed /\ Untouched(p) => docs[p] = Shown(rows[p])

IndexInv ==
  /\ IndexTyped
  /\ \A w \in Workers : req[w] \in IndexJob => IndexShape(req[w])
  /\ MeetingsNoted /\ AllOnTrack /\ Trusted
----------------------------------------------------------------------------

LEMMA IdleIsNoJob == /\ Idle \notin IndexJob /\ Idle.at \notin IndexSteps
                     /\ \A j \in IndexJob : j.at \in IndexSteps /\ j # Idle
  BY DEF Idle, IndexJob, IndexSteps

LEMMA IndexInitOK == SlotsInit /\ IndexInit => IndexInv
<1> SUFFICES ASSUME SlotsInit, IndexInit PROVE IndexInv
  OBVIOUS
<1>1. \A w \in Workers : req[w] = Idle /\ req[w] \notin IndexJob
  BY IdleIsNoJob DEF SlotsInit
<1>2. rows \in [Products -> ProductRow] /\ \A p \in Products : docs[p] = Shown(rows[p])
  <2>1. PICK word : word = CHOOSE v \in Words : TRUE
    OBVIOUS
  <2>2. rows \in [Products -> {NoProduct(word)} \cup {r \in ProductRow : r.state = "live" /\ r.name = word}]
    BY <2>1 DEF IndexInit
  <2>3. docs = [p \in Products |-> Shown(rows[p])]
    BY DEF IndexInit, Indexed
  <2>4. word \in Words
    BY <2>1, SearchIndexAssumption
  <2>5. NoProduct(word) \in ProductRow
    BY <2>4 DEF NoProduct, ProductRow
  <2> QED BY <2>2, <2>3, <2>5
<1>3. IndexTyped
  BY <1>1, <1>2 DEF IndexTyped, SlotsInit
<1> QED BY <1>1, <1>2, <1>3 DEF IndexInv, MeetingsNoted, AllOnTrack, Trusted, AtIt

\* What the shape of a request says of its sequence.
LEMMA JobFacts ==
  ASSUME NEW j \in IndexJob
  PROVE  /\ j.at \in IndexSteps /\ j # Idle /\ j.ps \in SUBSET Products /\ j.set \in ChangeSets /\ j.says \in Seq(Sayings)
         /\ j.ok \in BOOLEAN /\ j.called \in BOOLEAN /\ j.apart \in BOOLEAN /\ Len(j.says) \in Nat
<1>1. j.says \in Seq(Sayings)
  BY DEF IndexJob
<1> QED BY <1>1, IdleIsNoJob DEF IndexJob

\* Request w goes on as job, or ends, and the products it is not at keep their rows and documents.
LEMMA OneIndexStep ==
  ASSUME IndexInv, NEW w \in Workers, req[w] \in IndexJob, NEW job \in {Idle} \cup IndexJob,
         req' = [req EXCEPT ![w] = job],
         job # Idle => job.ps = req[w].ps /\ job.apart = req[w].apart /\ IndexShape(job),
         rows' \in [Products -> ProductRow],
         \A p \in Products \ req[w].ps :
           rows'[p] = rows[p] /\ docs'[p] = docs[p] /\ (p \in strayed' <=> p \in strayed),
         \A p \in req[w].ps : p \in strayed => p \in strayed' \/ req[w].apart,
         job # Idle /\ job.apart /\ job.ok => \A p \in req[w].ps : OnTrack(job, p, rows'[p], docs'[p]),
         \A p \in req[w].ps :
           \/ p \in strayed'
           \/ job # Idle /\ job.called
           \/ docs'[p] = Shown(rows'[p])
           \/ p \notin strayed /\ ~req[w].called /\ docs'[p] = docs[p] /\ rows'[p] = rows[p]
  PROVE  IndexInv'
<1>1. \A v \in Workers : req'[v] = IF v = w THEN job ELSE req[v]
  BY DEF IndexInv, IndexTyped
<1>2. IndexTyped'
  BY <1>1 DEF IndexInv, IndexTyped
<1>3. ASSUME NEW v \in Workers, req'[v] \in IndexJob PROVE IndexShape(req[v])'
  BY <1>1, <1>3, IdleIsNoJob DEF IndexInv, IndexShape
<1>4. \A v \in Workers : \A p \in Products : AtIt(v, p)' => AtIt(v, p) /\ req'[v].apart = req[v].apart
  BY <1>1, IdleIsNoJob DEF AtIt
<1>5. MeetingsNoted'
  <2> SUFFICES ASSUME NEW v \in Workers, NEW x \in Workers, NEW p \in Products, v # x, AtIt(v, p)', AtIt(x, p)'
               PROVE  ~req'[v].apart /\ p \in strayed'
    BY DEF MeetingsNoted
  <2>1. AtIt(v, p) /\ AtIt(x, p) /\ req'[v].apart = req[v].apart
    BY <1>4
  <2>2. ~req[v].apart /\ p \in strayed
    BY <2>1 DEF IndexInv, MeetingsNoted
  <2>3. CASE p \notin req[w].ps
    BY <2>1, <2>2, <2>3
  <2>4. CASE p \in req[w].ps
    <3>1. AtIt(w, p) /\ (w # v \/ w # x)
      BY <2>4 DEF AtIt
    <3>2. ~req[w].apart
      BY <2>1, <3>1 DEF IndexInv, MeetingsNoted
    <3> QED BY <2>1, <2>2, <2>4, <3>2
  <2> QED BY <2>3, <2>4
<1>6. AllOnTrack'
  <2> SUFFICES ASSUME NEW v \in Workers, req'[v] \in IndexJob, req'[v].apart, req'[v].ok, NEW p \in req'[v].ps
               PROVE  OnTrack(req'[v], p, rows'[p], docs'[p])
    BY DEF AllOnTrack
  <2>1. CASE v = w
    BY <1>1, <2>1, IdleIsNoJob
  <2>2. CASE v # w
    <3>1. req'[v] = req[v] /\ p \in Products /\ AtIt(v, p)
      BY <1>1, <2>2, JobFacts DEF AtIt
    <3>2. ~AtIt(w, p)
      BY <2>2, <3>1 DEF IndexInv, MeetingsNoted
    <3>3. rows'[p] = rows[p] /\ docs'[p] = docs[p]
      BY <3>1, <3>2 DEF AtIt
    <3>4. OnTrack(req[v], p, rows[p], docs[p])
      BY <3>1 DEF IndexInv, AllOnTrack
    <3> QED BY <3>1, <3>3, <3>4
  <2> QED BY <2>1, <2>2
<1>7. Trusted'
  <2> SUFFICES ASSUME NEW p \in Products, p \notin strayed', Untouched(p)' PROVE docs'[p] = Shown(rows'[p])
    BY DEF Trusted
  <2>1. \A v \in Workers : v # w /\ AtIt(v, p) => ~req[v].called
    BY <1>1 DEF Untouched, AtIt
  <2>2. job # Idle /\ job.called => p \notin req[w].ps
    <3>1. SUFFICES ASSUME job # Idle, job.called, p \in req[w].ps PROVE FALSE
      OBVIOUS
    <3>2. AtIt(w, p)' /\ req'[w] = job
      BY <1>1, <3>1 DEF AtIt
    <3> QED BY <3>1, <3>2 DEF Untouched
  <2>3. p \notin strayed /\ ~(AtIt(w, p) /\ req[w].called) /\ docs'[p] = docs[p] /\ rows'[p] = rows[p] => docs'[p] = Shown(rows'[p])
    BY <2>1 DEF IndexInv, Trusted, Untouched
  <2> QED BY <2>2, <2>3 DEF AtIt
<1> QED BY <1>2, <1>3, <1>5, <1>6, <1>7 DEF IndexInv

Crowded(j) == [j EXCEPT !.apart = FALSE]

LEMMA CrowdedJob ==
  ASSUME NEW j \in IndexJob
  PROVE  /\ Crowded(j) \in IndexJob /\ ~Crowded(j).apart
         /\ Crowded(j).ps = j.ps /\ Crowded(j).called = j.called
         /\ IndexShape(j) => IndexShape(Crowded(j))
<1> DEFINE k == Crowded(j)
<1>1. /\ k.at = j.at /\ k.ps = j.ps /\ k.set = j.set /\ k.says = j.says /\ k.ok = j.ok /\ k.called = j.called
      /\ k.apart = FALSE
  BY DEF Crowded, IndexJob
<1>2. k \in IndexJob
  BY DEF Crowded, IndexJob
<1> HIDE DEF k
<1>3. IndexShape(j) => IndexShape(k)
  BY <1>1 DEF IndexShape
<1> QED BY <1>1, <1>2, <1>3 DEF k

LEMMA WhoIsAt ==
  ASSUME IndexInv, NEW ps \in SUBSET Products
  PROVE  \A x \in Workers : x \in AtProducts(ps) <=> \E p \in ps : AtIt(x, p)
<1> SUFFICES ASSUME NEW x \in Workers PROVE x \in AtProducts(ps) <=> \E p \in ps : AtIt(x, p)
  OBVIOUS
<1>1. req[x].at \in IndexSteps <=> req[x] \in IndexJob
  BY IdleIsNoJob DEF IndexInv, IndexTyped
<1> QED BY <1>1 DEF AtProducts, AtIt

\* Request w begins as job, or writes the rows of ps without a signal; those it meets are crowded.
LEMMA MeetStep ==
  ASSUME IndexInv, NEW w \in Workers, req[w] = Idle, NEW ps \in SUBSET Products, NEW job \in {Idle} \cup IndexJob,
         req' = [x \in Workers |-> IF x = w THEN job ELSE IF x \in AtProducts(ps) THEN Crowded(req[x]) ELSE req[x]],
         job # Idle => job.ps = ps /\ ~job.called /\ IndexShape(job) /\ (job.apart => AtProducts(ps) = {}),
         job # Idle => \A p \in ps : OnTrack(job, p, rows'[p], docs'[p]),
         rows' \in [Products -> ProductRow],
         docs' = docs,
         \A p \in Products \ ps : rows'[p] = rows[p],
         strayed \subseteq strayed',
         \A p \in ps : p \in strayed' \/ (rows'[p] = rows[p] /\ \A x \in Workers : ~AtIt(x, p))
  PROVE  IndexInv'
<1>1. \A x \in Workers : req'[x] = IF x = w THEN job ELSE IF x \in AtProducts(ps) THEN Crowded(req[x]) ELSE req[x]
  OBVIOUS
<1>2. \A x \in AtProducts(ps) : x \in Workers /\ x # w /\ req[x] \in IndexJob
  BY WhoIsAt, IdleIsNoJob DEF AtIt, AtProducts
<1>3. IndexTyped'
  BY <1>1, <1>2, CrowdedJob DEF IndexInv, IndexTyped
<1>4. ASSUME NEW x \in Workers, x # w, req'[x] \in IndexJob
      PROVE  /\ req[x] \in IndexJob /\ req'[x].ps = req[x].ps /\ req'[x].called = req[x].called
             /\ req'[x].apart => req'[x] = req[x] /\ x \notin AtProducts(ps)
             /\ IndexShape(req'[x])
  BY <1>1, <1>2, <1>4, CrowdedJob DEF IndexInv
<1>5. ASSUME NEW x \in Workers, req'[x] \in IndexJob PROVE IndexShape(req'[x])
  BY <1>1, <1>4, <1>5, IdleIsNoJob
<1>6. \A x \in Workers : req'[x] \in IndexJob => IndexShape(req[x])'
  BY <1>5 DEF IndexShape
<1>7. MeetingsNoted'
  <2> SUFFICES ASSUME NEW v \in Workers, NEW x \in Workers, NEW p \in Products, v # x, AtIt(v, p)', AtIt(x, p)'
               PROVE  ~req'[v].apart /\ p \in strayed'
    BY DEF MeetingsNoted
  <2>1. CASE v = w
    <3>1. AtIt(x, p) /\ p \in ps /\ job # Idle /\ req'[v] = job
      BY <1>1, <1>4, <2>1, IdleIsNoJob DEF AtIt
    <3>2. x \in AtProducts(ps)
      BY <3>1, WhoIsAt
    <3> QED BY <3>1, <3>2
  <2>2. CASE x = w
    <3>1. AtIt(v, p) /\ p \in ps
      BY <1>1, <1>4, <2>2, IdleIsNoJob DEF AtIt
    <3>2. v \in AtProducts(ps)
      BY <3>1, WhoIsAt
    <3> QED BY <1>4, <2>2, <3>1, <3>2 DEF AtIt
  <2>3. CASE v # w /\ x # w
    <3>1. AtIt(v, p) /\ AtIt(x, p)
      BY <1>4, <2>3 DEF AtIt
    <3>2. ~req[v].apart /\ p \in strayed
      BY <3>1 DEF IndexInv, MeetingsNoted
    <3> QED BY <1>4, <2>3, <3>2 DEF AtIt
  <2> QED BY <2>1, <2>2, <2>3
<1>8. AllOnTrack'
  <2> SUFFICES ASSUME NEW v \in Workers, req'[v] \in IndexJob, req'[v].apart, req'[v].ok, NEW p \in req'[v].ps
               PROVE  OnTrack(req'[v], p, rows'[p], docs'[p])
    BY DEF AllOnTrack
  <2>1. CASE v = w
    BY <1>1, <2>1, IdleIsNoJob
  <2>2. CASE v # w
    <3>1. req'[v] = req[v] /\ v \notin AtProducts(ps) /\ req[v] \in IndexJob
      BY <1>4, <2>2
    <3>2. p \in Products /\ p \notin ps
      BY <3>1, WhoIsAt, JobFacts DEF AtIt
    <3>3. OnTrack(req[v], p, rows[p], docs[p])
      BY <3>1 DEF IndexInv, AllOnTrack
    <3> QED BY <3>1, <3>2, <3>3
  <2> QED BY <2>1, <2>2
<1>9. Trusted'
  <2> SUFFICES ASSUME NEW p \in Products, p \notin strayed', Untouched(p)' PROVE docs'[p] = Shown(rows'[p])
    BY DEF Trusted
  <2>1. rows'[p] = rows[p] /\ p \notin strayed
    OBVIOUS
  <2>2. ASSUME NEW x \in Workers, AtIt(x, p) PROVE ~req[x].called
    <3>1. x # w /\ req[x] \in IndexJob
      BY <2>2, IdleIsNoJob DEF AtIt
    <3>2. req'[x] \in IndexJob /\ req'[x].ps = req[x].ps /\ req'[x].called = req[x].called
      BY <1>1, <3>1, CrowdedJob
    <3>3. AtIt(x, p)'
      BY <2>2, <3>2 DEF AtIt
    <3> QED BY <3>2, <3>3 DEF Untouched
  <2> QED BY <2>1, <2>2 DEF IndexInv, Trusted, Untouched
<1> QED BY <1>3, <1>6, <1>7, <1>8, <1>9 DEF IndexInv

LEMMA BeginIndexedStep ==
  ASSUME IndexInv, NEW w \in Workers, NEW at, NEW ps, NEW set, NEW says, BeginIndexed(w, at, ps, set, says),
         NEW job \in IndexJob,
         job = [at |-> at, ps |-> ps, set |-> set, says |-> says,
                ok |-> TRUE, called |-> FALSE, apart |-> AtProducts(ps) = {}],
         IndexShape(job),
         \A p \in ps : OnTrack(job, p, rows[p], docs[p])
  PROVE  IndexInv'
<1>1. /\ req[w] = Idle /\ req' = Mixed(w, job)
      /\ strayed' = strayed \cup Overlap(ps)
      /\ rows' = rows /\ docs' = docs
  BY DEF BeginIndexed
<1>2. job.ps = ps /\ ~job.called /\ (job.apart => AtProducts(ps) = {}) /\ job # Idle /\ ps \in SUBSET Products
  BY IdleIsNoJob, JobFacts
<1>3. req' = [x \in Workers |-> IF x = w THEN job ELSE IF x \in AtProducts(ps) THEN Crowded(req[x]) ELSE req[x]]
  BY <1>1, <1>2 DEF Mixed, Crowded
<1>4. \A p \in ps : p \in strayed' \/ (rows'[p] = rows[p] /\ \A x \in Workers : ~AtIt(x, p))
  <2> SUFFICES ASSUME NEW p \in ps, NEW x \in Workers, AtIt(x, p) PROVE p \in strayed'
    BY <1>1
  <2>1. x \in AtProducts(ps) /\ p \in req[x].ps \cap ps
    BY <1>2, WhoIsAt DEF AtIt
  <2>2. p \in Overlap(ps)
    BY <2>1 DEF Overlap
  <2> QED BY <1>1, <2>2
<1>5. rows' \in [Products -> ProductRow]
  BY <1>1 DEF IndexInv, IndexTyped
<1>6. \A p \in ps : OnTrack(job, p, rows'[p], docs'[p])
  BY <1>1
<1>7. strayed \subseteq strayed'
  BY <1>1
<1>8. job # Idle => job.ps = ps /\ ~job.called /\ IndexShape(job) /\ (job.apart => AtProducts(ps) = {})
  BY <1>2
<1>9. job # Idle => \A p \in ps : OnTrack(job, p, rows'[p], docs'[p])
  BY <1>6
<1>10. docs' = docs /\ \A p \in Products \ ps : rows'[p] = rows[p]
  BY <1>1
<1>11. req[w] = Idle /\ ps \in SUBSET Products /\ job \in {Idle} \cup IndexJob
  BY <1>1, <1>2
<1> QED BY <1>3, <1>4, <1>5, <1>7, <1>8, <1>9, <1>10, <1>11, MeetStep

LEMMA BeginOneStep ==
  ASSUME IndexInv, NEW w \in Workers, NEW at \in {"product.save", "product.alone"}, NEW p \in Products,
         NEW set \in Change, NEW says \in Seq([{p} -> DocText]), BeginOne(w, at, p, set, says),
         at = "product.save" =>
           /\ Len(says) > 0
           /\ \/ says[Len(says)][p] = Shown(Written(rows[p], set))
              \/ rows[p].state = "live" /\ rows[p].attr = Absent /\ set.attr \in Words,
         at = "product.alone" =>
           /\ Len(says) \in {0, 1}
           /\ Len(says) = 1 => says[1][p] = Shown(Written(rows[p], set))
           /\ Len(says) = 0 => set.state = "live" /\ set.name # "kept" /\ set.attr = "kept"
  PROVE  IndexInv'
<1>1. PICK sets : sets = [q \in {p} |-> set]
  OBVIOUS
<1>2. PICK ps : ps = {p}
  OBVIOUS
<1>3. PICK job : job = [at |-> at, ps |-> ps, set |-> sets, says |-> says,
                        ok |-> TRUE, called |-> FALSE, apart |-> AtProducts(ps) = {}]
  OBVIOUS
<1>4. ps \in SUBSET Products /\ sets \in [ps -> Change] /\ sets[p] = set
  BY <1>1, <1>2
<1>5. sets \in ChangeSets
  BY <1>4 DEF ChangeSets
<1>6. says \in Seq(Sayings)
  <2>1. PICK S : S = [{p} -> DocText]
    OBVIOUS
  <2>2. S \subseteq Sayings /\ says \in Seq(S)
    BY <1>2, <1>4, <2>1 DEF Sayings
  <2> HIDE DEF Sayings
  <2> QED BY <2>2
<1>7. job \in IndexJob
  BY <1>3, <1>4, <1>5, <1>6 DEF IndexJob, IndexSteps
<1>8. job.at = at /\ job.ps = ps /\ job.set = sets /\ job.says = says /\ job.ok
  BY <1>3
<1>9. IndexShape(job)
  BY <1>2, <1>4, <1>8 DEF IndexShape, ProductSteps
<1>10. \A q \in ps : OnTrack(job, q, rows[q], docs[q])
  BY <1>2, <1>4, <1>8 DEF OnTrack, Adds
<1>11. BeginIndexed(w, at, ps, sets, says)
  BY <1>1, <1>2 DEF BeginOne
<1> QED BY <1>3, <1>7, <1>9, <1>10, <1>11, BeginIndexedStep

\* What UPDATEs make of rows, and what documents may say.
LEMMA WrittenType ==
  /\ \A row \in ProductRow, set \in Change : Written(row, set) \in ProductRow
  /\ \A row \in ProductRow : TextOf(row) \in DocText /\ Shown(row) \in DocText /\ Written(row, Keep) = row
<1>1. \A row \in ProductRow, set \in Change : Written(row, set) \in ProductRow
  BY SearchIndexAssumption DEF ProductRow, Change, Written, Column
<1>2. ASSUME NEW row \in ProductRow
      PROVE  TextOf(row) \in DocText /\ Shown(row) \in DocText /\ Written(row, Keep) = row
  BY <1>2 DEF ProductRow, TextOf, Shown, Text, DocText, Written, Column, Keep
<1> QED BY <1>1, <1>2

LEMMA AddProductStep ==
  ASSUME IndexInv, NEW w \in Workers, NEW p \in Products, AddProduct(w, p)
  PROVE  IndexInv'
<1>1. PICK name \in Words, attr \in Words \cup {Absent} :
        BeginOne(w, "product.save", p, [state |-> "live", name |-> name, attr |-> attr],
                 IF attr = Absent THEN <<Doc(p, [name |-> name, attr |-> Absent])>>
                 ELSE <<Doc(p, [name |-> name, attr |-> Absent]), Doc(p, [name |-> name, attr |-> attr])>>)
  BY DEF AddProduct
<1>2. PICK set : set = [state |-> "live", name |-> name, attr |-> attr]
  OBVIOUS
<1>3. PICK bare : bare = Doc(p, [name |-> name, attr |-> Absent])
  OBVIOUS
<1>4. PICK whole : whole = Doc(p, [name |-> name, attr |-> attr])
  OBVIOUS
<1>5. PICK says : says = IF attr = Absent THEN <<bare>> ELSE <<bare, whole>>
  OBVIOUS
<1>6. set \in Change /\ set.state = "live" /\ set.name = name /\ set.attr = attr
  BY <1>2 DEF Change
<1>0. PICK D : D = [{p} -> DocText]
  OBVIOUS
<1>7. /\ bare \in D /\ whole \in D
      /\ bare[p] = [name |-> name, attr |-> Absent] /\ whole[p] = [name |-> name, attr |-> attr]
  BY <1>0, <1>3, <1>4 DEF Doc, DocText, Text
<1>8. says \in Seq(D) /\ Len(says) > 0 /\ says[Len(says)] = IF attr = Absent THEN bare ELSE whole
  BY <1>5, <1>7
<1>9. Shown(Written(rows[p], set)) = [name |-> name, attr |-> attr]
  BY <1>6, SearchIndexAssumption DEF Written, Shown, TextOf, Column
<1>10. says[Len(says)][p] = Shown(Written(rows[p], set))
  BY <1>7, <1>8, <1>9
<1>11. BeginOne(w, "product.save", p, set, says)
  BY <1>1, <1>2, <1>3, <1>4, <1>5
<1> QED BY <1>0, <1>6, <1>8, <1>10, <1>11, BeginOneStep

LEMMA EditProductStep ==
  ASSUME IndexInv, NEW w \in Workers, NEW p \in Products, EditProduct(w, p)
  PROVE  IndexInv'
<1>1. PICK name \in Words, attr \in Words \cup {Absent, "kept"} :
        /\ attr # rows[p].attr
        /\ BeginOne(w, "product.save", p, [state |-> "live", name |-> name, attr |-> attr],
                    SaysOfEdit(p, name, rows[p].attr, attr))
  BY DEF EditProduct
<1>2. PICK row \in ProductRow : row = rows[p] /\ row.state = "live"
  BY DEF EditProduct, LiveProducts, IndexInv, IndexTyped
<1>3. PICK set : set = [state |-> "live", name |-> name, attr |-> attr]
  OBVIOUS
<1>4. PICK first : first = Doc(p, [name |-> name, attr |-> row.attr])
  OBVIOUS
<1>5. PICK second : second = IF row.attr = Absent THEN first ELSE Doc(p, [name |-> name, attr |-> attr])
  OBVIOUS
<1>6. PICK says : says = IF attr = "kept" THEN <<first>> ELSE <<first, second>>
  OBVIOUS
<1>7. set \in Change /\ set.state = "live" /\ set.name = name /\ set.attr = attr
  BY <1>3 DEF Change
<1>8. row.attr \in Words \cup {Absent}
  BY DEF ProductRow
<1>0. PICK D : D = [{p} -> DocText]
  OBVIOUS
<1>9. first \in D /\ first[p] = [name |-> name, attr |-> row.attr]
  BY <1>0, <1>4, <1>8 DEF Doc, DocText, Text
<1>10. ASSUME attr # "kept"
       PROVE  second \in D /\ (row.attr # Absent => second[p] = [name |-> name, attr |-> attr])
  BY <1>0, <1>5, <1>9, <1>10 DEF Doc, DocText, Text
<1>11. says \in Seq(D) /\ Len(says) > 0 /\ says[Len(says)] = IF attr = "kept" THEN first ELSE second
  BY <1>6, <1>9, <1>10
<1>12. Shown(Written(row, set)) = [name |-> name, attr |-> IF attr = "kept" THEN row.attr ELSE attr]
  BY <1>7, SearchIndexAssumption DEF Written, Shown, TextOf, Column
<1>13. \/ says[Len(says)][p] = Shown(Written(rows[p], set))
       \/ rows[p].state = "live" /\ rows[p].attr = Absent /\ set.attr \in Words
  <2>1. CASE attr = "kept"
    BY <1>2, <1>9, <1>11, <1>12, <2>1
  <2>2. CASE attr # "kept" /\ row.attr = Absent
    BY <1>1, <1>2, <1>7, <2>2
  <2>3. CASE attr # "kept" /\ row.attr # Absent
    BY <1>2, <1>10, <1>11, <1>12, <2>3
  <2> QED BY <2>1, <2>2, <2>3
<1>14. BeginOne(w, "product.save", p, set, says)
  BY <1>1, <1>2, <1>3, <1>4, <1>5, <1>6 DEF SaysOfEdit
<1> QED BY <1>0, <1>7, <1>11, <1>13, <1>14, BeginOneStep

LEMMA BeginAloneStep ==
  ASSUME IndexInv, NEW w \in Workers, NEW p \in Products,
         NEW set \in Change, NEW says \in Seq([{p} -> DocText]), BeginOne(w, "product.alone", p, set, says),
         Len(says) \in {0, 1},
         Len(says) = 1 => says[1][p] = Shown(Written(rows[p], set)),
         Len(says) = 0 => set.state = "live" /\ set.name # "kept" /\ set.attr = "kept"
  PROVE  IndexInv'
<1>1. PICK at : at = "product.alone"
  OBVIOUS
<1>2. at \in {"product.save", "product.alone"} /\ at # "product.save" /\ BeginOne(w, at, p, set, says)
  BY <1>1
<1> QED BY <1>2, BeginOneStep

LEMMA AloneStep ==
  ASSUME IndexInv, NEW w \in Workers, NEW p \in Products,
         TouchProduct(w, p) \/ DeleteProduct(w, p) \/ SaveAnew(w, p)
  PROVE  IndexInv'
<1>1. PICK row \in ProductRow : row = rows[p]
  BY DEF IndexInv, IndexTyped
<1>2. CASE TouchProduct(w, p)
  <2>1. PICK says : says = <<Doc(p, TextOf(row))>>
    OBVIOUS
  <2>2. row.state = "live" /\ BeginOne(w, "product.alone", p, Keep, says)
    BY <1>1, <1>2, <2>1 DEF TouchProduct, LiveProducts
  <2>3. Doc(p, TextOf(row)) \in [{p} -> DocText] /\ Doc(p, TextOf(row))[p] = TextOf(row)
    BY WrittenType DEF Doc
  <2>4. says \in Seq([{p} -> DocText]) /\ Len(says) = 1 /\ says[1][p] = Shown(Written(rows[p], Keep))
    BY <1>1, <2>1, <2>2, <2>3, WrittenType DEF Shown
  <2>5. Keep \in Change
    BY DEF Keep, Change
  <2>6. /\ Len(says) \in {0, 1}
        /\ Len(says) = 1 => says[1][p] = Shown(Written(rows[p], Keep))
        /\ Len(says) = 0 => Keep.state = "live" /\ Keep.name # "kept" /\ Keep.attr = "kept"
    BY <2>4
  <2> QED BY <2>2, <2>4, <2>5, <2>6, BeginAloneStep, Zenon
<1>3. CASE DeleteProduct(w, p)
  <2>1. PICK says : says = <<Doc(p, Absent)>>
    OBVIOUS
  <2>2. PICK set : set = [state |-> "gone", name |-> rows[p].name, attr |-> "kept"]
    OBVIOUS
  <2>3. BeginOne(w, "product.alone", p, set, says)
    BY <1>3, <2>1, <2>2 DEF DeleteProduct
  <2>4. Doc(p, Absent) \in [{p} -> DocText] /\ Doc(p, Absent)[p] = Absent
    BY DEF Doc, DocText
  <2>5. set \in Change /\ Shown(Written(rows[p], set)) = Absent
    BY <1>1, <2>2 DEF Change, ProductRow, Shown, Written, Column
  <2>6. says \in Seq([{p} -> DocText]) /\ Len(says) = 1 /\ says[1][p] = Shown(Written(rows[p], set))
    BY <2>1, <2>4, <2>5
  <2>7. /\ Len(says) \in {0, 1}
        /\ Len(says) = 1 => says[1][p] = Shown(Written(rows[p], set))
        /\ Len(says) = 0 => set.state = "live" /\ set.name # "kept" /\ set.attr = "kept"
    BY <2>6
  <2> QED BY <2>3, <2>5, <2>6, <2>7, BeginAloneStep, Zenon
<1>4. CASE SaveAnew(w, p)
  <2>1. PICK name \in Words : BeginOne(w, "product.alone", p, [state |-> "live", name |-> name, attr |-> "kept"], <<>>)
    BY <1>1, <1>4 DEF SaveAnew, ProductRow
  <2>2. PICK set : set = [state |-> "live", name |-> name, attr |-> "kept"]
    OBVIOUS
  <2>3. /\ set \in Change
        /\ set.state = "live" /\ set.name # "kept" /\ set.attr = "kept"
    BY <2>2, SearchIndexAssumption DEF Change
  <2>4. << >> \in Seq([{p} -> DocText]) /\ Len(<< >>) = 0
    OBVIOUS
  <2>5. BeginOne(w, "product.alone", p, set, << >>)
    BY <2>1, <2>2
  <2>6. /\ Len(<< >>) \in {0, 1}
        /\ Len(<< >>) = 1 => << >>[1][p] = Shown(Written(rows[p], set))
        /\ Len(<< >>) = 0 => set.state = "live" /\ set.name # "kept" /\ set.attr = "kept"
    BY <2>3, <2>4
  <2> QED BY <2>3, <2>4, <2>5, <2>6, BeginAloneStep, Zenon
<1> QED BY <1>2, <1>3, <1>4

LEMMA DeleteManyStep ==
  ASSUME IndexInv, NEW w \in Workers, DeleteMany(w)
  PROVE  IndexInv'
<1>1. PICK ps \in SUBSET LiveProducts :
        BeginIndexed(w, "product.save", ps, [p \in ps |-> [Keep EXCEPT !.state = "gone"]], <<[p \in ps |-> Absent]>>)
  BY DEF DeleteMany
<1>2. PICK set : set = [p \in ps |-> [Keep EXCEPT !.state = "gone"]]
  OBVIOUS
<1>3. PICK say : say = [p \in ps |-> Absent]
  OBVIOUS
<1>4. PICK job : job = [at |-> "product.save", ps |-> ps, set |-> set, says |-> <<say>>,
                        ok |-> TRUE, called |-> FALSE, apart |-> AtProducts(ps) = {}]
  OBVIOUS
<1>5. ps \in SUBSET Products
  BY DEF LiveProducts
<1>6. set \in [ps -> Change] /\ \A p \in ps : set[p] = [state |-> "gone", name |-> "kept", attr |-> "kept"]
  BY <1>2 DEF Keep, Change
<1>7. say \in Sayings /\ DOMAIN say = ps /\ \A p \in ps : say[p] = Absent
  <2>1. say \in [ps -> DocText]
    BY <1>3 DEF DocText
  <2> QED BY <1>3, <1>5, <2>1 DEF Sayings
<1>8. job \in IndexJob
  <2>1. set \in ChangeSets
    BY <1>5, <1>6 DEF ChangeSets
  <2>2. <<say>> \in Seq(Sayings)
    <3> HIDE DEF Sayings
    <3> QED BY <1>7
  <2> QED BY <1>4, <1>5, <2>1, <2>2 DEF IndexJob, IndexSteps
<1>9. /\ job.at = "product.save" /\ job.ps = ps /\ job.set = set
      /\ Len(job.says) = 1 /\ job.says[1] = say
  BY <1>4
<1>10. IndexShape(job)
  BY <1>6, <1>7, <1>9 DEF IndexShape, ProductSteps
<1>11. \A p \in ps : OnTrack(job, p, rows[p], docs[p])
  <2>1. \A p \in ps : Shown(Written(rows[p], set[p])) = Absent
    BY <1>6 DEF Shown, Written, Column
  <2> QED BY <1>7, <1>9, <2>1 DEF OnTrack
<1>12. BeginIndexed(w, "product.save", ps, set, <<say>>)
  BY <1>1, <1>2, <1>3
<1> QED BY <1>4, <1>8, <1>10, <1>11, <1>12, BeginIndexedStep

LEMMA ReindexStep ==
  ASSUME IndexInv, NEW w \in Workers, Reindex(w)
  PROVE  IndexInv'
<1>1. PICK set : set = [p \in Products |-> Keep]
  OBVIOUS
<1>2. PICK job : job = [at |-> "index.drop", ps |-> Products, set |-> set, says |-> << >>,
                        ok |-> TRUE, called |-> FALSE, apart |-> AtProducts(Products) = {}]
  OBVIOUS
<1>3. job \in IndexJob
  <2>1. set \in [Products -> Change]
    BY <1>1 DEF Keep, Change
  <2>2. set \in ChangeSets
    BY <2>1 DEF ChangeSets
  <2>3. << >> \in Seq(Sayings)
    <3> HIDE DEF Sayings
    <3> QED OBVIOUS
  <2> QED BY <1>2, <2>2, <2>3 DEF IndexJob, IndexSteps
<1>4. job.at = "index.drop" /\ job.ps = Products /\ job.ok
  BY <1>2
<1>5. IndexShape(job) /\ \A p \in Products : OnTrack(job, p, rows[p], docs[p])
  BY <1>4 DEF IndexShape, OnTrack, ProductSteps
<1>6. BeginIndexed(w, "index.drop", Products, set, << >>)
  BY <1>1 DEF Reindex
<1> QED BY <1>2, <1>3, <1>5, <1>6, BeginIndexedStep

LEMMA UnsignalledStep ==
  ASSUME IndexInv, NEW w \in Workers, NEW ps \in SUBSET Products, NEW now, Unsignalled(w, ps, now),
         \A p \in ps : now[p] \in ProductRow
  PROVE  IndexInv'
<1>1. /\ req[w] = Idle /\ docs' = docs /\ strayed' = strayed \cup ps
      /\ req' = [x \in Workers |-> IF x \in AtProducts(ps) THEN Crowded(req[x]) ELSE req[x]]
      /\ rows' = [p \in Products |-> IF p \in ps THEN now[p] ELSE rows[p]]
  BY DEF Unsignalled, Crowded
<1>2. w \notin AtProducts(ps)
  BY <1>1, IdleIsNoJob DEF AtProducts
<1>3. PICK job \in {Idle} \cup IndexJob : job = Idle
  OBVIOUS
<1>4. req' = [x \in Workers |-> IF x = w THEN job ELSE IF x \in AtProducts(ps) THEN Crowded(req[x]) ELSE req[x]]
  BY <1>1, <1>2, <1>3
<1>5. rows' \in [Products -> ProductRow]
  BY <1>1 DEF IndexInv, IndexTyped
<1>6. \A p \in Products \ ps : rows'[p] = rows[p]
  BY <1>1
<1>7. strayed \subseteq strayed' /\ \A p \in ps : p \in strayed' \/ (rows'[p] = rows[p] /\ \A x \in Workers : ~AtIt(x, p))
  BY <1>1
<1>8. /\ job # Idle => job.ps = ps /\ ~job.called /\ IndexShape(job) /\ (job.apart => AtProducts(ps) = {})
      /\ job # Idle => \A p \in ps : OnTrack(job, p, rows'[p], docs'[p])
  BY <1>3
<1> QED BY <1>1, <1>4, <1>5, <1>6, <1>7, <1>8, MeetStep

LEMMA ManyRowsStep ==
  ASSUME IndexInv, NEW w \in Workers, PurgeProducts(w) \/ RenameValue(w) \/ MoveVariant(w) \/ RenameKey(w)
  PROVE  IndexInv'
<1>1. CASE PurgeProducts(w)
  <2>1. PICK ps \in SUBSET LiveProducts : Unsignalled(w, ps, [p \in ps |-> [rows[p] EXCEPT !.state = "gone"]])
    BY <1>1 DEF PurgeProducts
  <2>2. PICK now : now = [p \in ps |-> [rows[p] EXCEPT !.state = "gone"]]
    OBVIOUS
  <2>3. ps \in SUBSET Products
    BY DEF LiveProducts
  <2>4. \A p \in ps : now[p] \in ProductRow
    BY <2>2, <2>3 DEF IndexInv, IndexTyped, ProductRow
  <2> QED BY <2>1, <2>2, <2>3, <2>4, UnsignalledStep
<1>2. CASE RenameValue(w)
  <2>1. PICK old \in Words, new \in Words :
          Unsignalled(w, {p \in Products : rows[p].attr = old},
                      [p \in {q \in Products : rows[q].attr = old} |-> [rows[p] EXCEPT !.attr = new]])
    BY <1>2 DEF RenameValue
  <2>2. PICK ps \in SUBSET Products : ps = {p \in Products : rows[p].attr = old}
    OBVIOUS
  <2>3. PICK now : now = [p \in ps |-> [rows[p] EXCEPT !.attr = new]]
    OBVIOUS
  <2>4. Unsignalled(w, ps, now)
    BY <2>1, <2>2, <2>3
  <2>5. \A p \in ps : now[p] \in ProductRow
    BY <2>3 DEF IndexInv, IndexTyped, ProductRow
  <2> QED BY <2>4, <2>5, UnsignalledStep
<1>3. CASE MoveVariant(w)
  <2>1. PICK p \in Products, q \in Products, kept \in Words \cup {Absent}, brought \in Words :
          LET now == [r \in {p, q} |-> [rows[r] EXCEPT !.attr = IF r = p THEN kept ELSE brought]] IN
          Unsignalled(w, {r \in {p, q} : now[r] # rows[r]}, now)
    BY <1>3 DEF MoveVariant
  <2>2. PICK now : now = [r \in {p, q} |-> [rows[r] EXCEPT !.attr = IF r = p THEN kept ELSE brought]]
    OBVIOUS
  <2>3. PICK ps \in SUBSET Products : ps \subseteq {p, q} /\ Unsignalled(w, ps, now)
    BY <2>1, <2>2
  <2>4. \A r \in {p, q} : now[r] \in ProductRow
    BY <2>2 DEF IndexInv, IndexTyped, ProductRow
  <2>5. \A r \in ps : now[r] \in ProductRow
    BY <2>3, <2>4
  <2> QED BY <2>3, <2>5, UnsignalledStep
<1>4. CASE RenameKey(w)
  <2>1. CASE LET ps == {p \in Products : rows[p].attr # Absent} IN
             Unsignalled(w, ps, [p \in ps |-> [rows[p] EXCEPT !.attr = Absent]])
    <3>1. PICK ps \in SUBSET Products : ps = {p \in Products : rows[p].attr # Absent}
      OBVIOUS
    <3>2. PICK now : now = [p \in ps |-> [rows[p] EXCEPT !.attr = Absent]]
      OBVIOUS
    <3>3. Unsignalled(w, ps, now)
      BY <2>1, <3>1, <3>2
    <3>4. \A p \in ps : now[p] \in ProductRow
      BY <3>2 DEF IndexInv, IndexTyped, ProductRow
    <3> QED BY <3>3, <3>4, UnsignalledStep
  <2>2. CASE \E ps \in SUBSET {p \in Products : rows[p].state # "none" /\ rows[p].attr = Absent} :
               \E found \in [ps -> Words] : Unsignalled(w, ps, [p \in ps |-> [rows[p] EXCEPT !.attr = found[p]]])
    <3>1. PICK ps \in SUBSET Products :
            \E found \in [ps -> Words] : Unsignalled(w, ps, [p \in ps |-> [rows[p] EXCEPT !.attr = found[p]]])
      BY <2>2
    <3>2. PICK found \in [ps -> Words] : Unsignalled(w, ps, [p \in ps |-> [rows[p] EXCEPT !.attr = found[p]]])
      BY <3>1
    <3>3. PICK now : now = [p \in ps |-> [rows[p] EXCEPT !.attr = found[p]]]
      OBVIOUS
    <3>4. \A p \in ps : now[p] \in ProductRow
      BY <3>3 DEF IndexInv, IndexTyped, ProductRow
    <3>5. Unsignalled(w, ps, now)
      BY <3>2, <3>3, Zenon
    <3> QED BY <3>4, <3>5, UnsignalledStep
  <2> QED BY <1>4, <2>1, <2>2 DEF RenameKey
<1> QED BY <1>1, <1>2, <1>3, <1>4

LEMMA SentText ==
  ASSUME NEW say
  PROVE  \A p \in Products : Sent(say)[p] = IF p \in DOMAIN say THEN say[p] ELSE docs[p]
BY DEF Sent

LEMMA SaveInsideStep ==
  ASSUME IndexInv, NEW w \in Workers, SaveInside(w)
  PROVE  IndexInv'
<1>1. PICK j \in IndexJob : j = req[w] /\ j.at = "product.save"
  BY IdleIsNoJob DEF SaveInside, At, IndexInv, IndexTyped, Idle
<1>2. IndexShape(j) /\ j.says \in Seq(Sayings) /\ Len(j.says) \in Nat /\ j.ps \in SUBSET Products
  BY <1>1, JobFacts DEF IndexInv
<1>3. Len(j.says) > 0 /\ \A n \in 1..Len(j.says) : DOMAIN j.says[n] = j.ps
  BY <1>1, <1>2 DEF IndexShape, ProductSteps
<1>len. Len(j.says) \in Nat /\ (Len(j.says) = 1 \/ Len(j.says) > 1)
  <2>1. PICK m \in Nat : m = Len(j.says)
    BY <1>2
  <2>2. m > 0
    BY <1>3, <2>1
  <2>3. m = 1 \/ m > 1
    BY <2>2
  <2> QED BY <2>1, <2>3
<1>4. PICK next : next = [j EXCEPT !.says = Tail(@), !.at = IF Len(j.says) = 1 THEN "product.commit" ELSE @]
  OBVIOUS
<1>5. PICK done \in BOOLEAN :
        /\ docs' = IF done THEN Sent(Head(j.says)) ELSE docs
        /\ req' = [req EXCEPT ![w] = [next EXCEPT !.ok = @ /\ done, !.called = TRUE]]
        /\ UNCHANGED <<rows, strayed>>
  BY <1>1, <1>4 DEF SaveInside, CallIndex, Proceed
<1>6. PICK job : job = [next EXCEPT !.ok = @ /\ done, !.called = TRUE]
  OBVIOUS
<1>7. PICK rest : rest = Tail(j.says)
  OBVIOUS
<1>8. rest \in Seq(Sayings) /\ Len(rest) = Len(j.says) - 1 /\ \A n \in 1..Len(rest) : rest[n] = j.says[n + 1]
  <2> HIDE DEF Sayings
  <2> QED BY <1>2, <1>3, <1>7
<1>9. /\ next \in IndexJob /\ next.ps = j.ps /\ next.set = j.set /\ next.says = rest /\ next.apart = j.apart /\ next.ok = j.ok
      /\ next.at = IF Len(j.says) = 1 THEN "product.commit" ELSE "product.save"
  BY <1>1, <1>4, <1>7, <1>8 DEF IndexJob, IndexSteps
<1>10. /\ job \in IndexJob /\ job.ps = j.ps /\ job.set = j.set /\ job.says = rest /\ job.apart = j.apart /\ job.at = next.at
  BY <1>6, <1>9 DEF IndexJob
<1>11. job.called /\ (job.ok => j.ok /\ done)
  BY <1>6, <1>9 DEF IndexJob
<1>12. IndexShape(job)
  <2>1. Len(rest) \in Nat /\ \A n \in 1..Len(rest) : n + 1 \in 1..Len(j.says)
    BY <1>2, <1>8
  <2>2. \A n \in 1..Len(rest) : DOMAIN rest[n] = j.ps
    BY <1>3, <1>8, <2>1
  <2>3. Len(j.says) # 1 => Len(rest) > 0
    BY <1>8, <1>len
  <2>4. DOMAIN job.set = job.ps
    BY <1>1, <1>2, <1>10 DEF IndexShape, ProductSteps
  <2>5. job.at \in {"product.save", "product.commit"} /\ (job.at = "product.save" => Len(j.says) # 1)
    BY <1>9, <1>10
  <2> QED BY <1>10, <2>2, <2>3, <2>4, <2>5 DEF IndexShape, ProductSteps
<1>13. ASSUME NEW p \in j.ps, job.apart, job.ok PROVE OnTrack(job, p, rows'[p], docs'[p])
  <2>1. OnTrack(j, p, rows[p], docs[p])
    BY <1>1, <1>10, <1>11, <1>13 DEF IndexInv, AllOnTrack
  <2>2. \/ j.says[Len(j.says)][p] = Shown(Written(rows[p], j.set[p]))
        \/ Adds(j, p, rows[p])
    BY <1>1, <2>1 DEF OnTrack
  <2>3. Adds(job, p, rows[p]) <=> Adds(j, p, rows[p])
    BY <1>10 DEF Adds
  <2>4. CASE Len(j.says) = 1
    <3>1. docs'[p] = j.says[Len(j.says)][p]
      <4>1. done /\ Head(j.says) = j.says[1] /\ DOMAIN Head(j.says) = j.ps
        BY <1>2, <1>3, <1>11, <1>13, <2>4
      <4> QED BY <1>2, <1>5, <2>4, <4>1, SentText
    <3> QED BY <1>5, <1>9, <1>10, <2>2, <2>3, <2>4, <3>1 DEF OnTrack
  <2>5. CASE Len(j.says) # 1
    <3>1. Len(rest) \in 1..Len(rest) /\ rest[Len(rest)] = j.says[Len(j.says)]
      <4>1. PICK m \in Nat : m = Len(j.says) /\ m > 1
        BY <1>len, <2>5
      <4>2. PICK k \in Nat : k + 1 = m /\ k > 0 /\ Len(rest) = k
        <5>1. m - 1 \in Nat /\ (m - 1) + 1 = m /\ m - 1 > 0 /\ Len(rest) = m - 1
          BY <1>8, <4>1
        <5> QED BY <5>1
      <4> QED BY <1>8, <4>1, <4>2
    <3> QED BY <1>5, <1>9, <1>10, <2>2, <2>3, <2>5, <3>1 DEF OnTrack
  <2> QED BY <2>4, <2>5
<1>14. \A p \in Products \ j.ps : docs'[p] = docs[p]
  <2>1. DOMAIN Head(j.says) = j.ps
    BY <1>2, <1>3
  <2> QED BY <1>5, <2>1, SentText
<1>15. /\ job # Idle => job.ps = req[w].ps /\ job.apart = req[w].apart /\ IndexShape(job)
       /\ job \in {Idle} \cup IndexJob /\ req[w] \in IndexJob /\ job # Idle
       /\ rows' \in [Products -> ProductRow]
       /\ req' = [req EXCEPT ![w] = job]
  BY <1>1, <1>5, <1>6, <1>10, <1>12, IdleIsNoJob DEF IndexInv, IndexTyped
<1>16. \A p \in Products \ req[w].ps : rows'[p] = rows[p] /\ docs'[p] = docs[p] /\ (p \in strayed' <=> p \in strayed)
  BY <1>1, <1>5, <1>14
<1>17. \A p \in req[w].ps : p \in strayed => p \in strayed' \/ req[w].apart
  BY <1>5
<1>18. job # Idle /\ job.apart /\ job.ok => \A p \in req[w].ps : OnTrack(job, p, rows'[p], docs'[p])
  BY <1>1, <1>13
<1>19. \A p \in req[w].ps :
         \/ p \in strayed'
         \/ job # Idle /\ job.called
         \/ docs'[p] = Shown(rows'[p])
         \/ p \notin strayed /\ ~req[w].called /\ docs'[p] = docs[p] /\ rows'[p] = rows[p]
  BY <1>11, <1>15
<1> QED BY <1>15, <1>16, <1>17, <1>18, <1>19, OneIndexStep

\* Request w is answered, and settles what it was at.
LEMMA AnswerIndexStep ==
  ASSUME IndexInv, NEW w \in Workers, NEW j \in IndexJob, j = req[w],
         req' = [req EXCEPT ![w] = Idle],
         rows' \in [Products -> ProductRow],
         \A p \in Products \ j.ps :
           rows'[p] = rows[p] /\ docs'[p] = docs[p] /\ (p \in strayed' <=> p \in strayed),
         \A p \in j.ps : p \in strayed => p \in strayed' \/ j.apart,
         \A p \in j.ps :
           \/ p \in strayed'
           \/ docs'[p] = Shown(rows'[p])
           \/ p \notin strayed /\ ~j.called /\ docs'[p] = docs[p] /\ rows'[p] = rows[p]
  PROVE  IndexInv'
<1>1. PICK job \in {Idle} \cup IndexJob : job = Idle
  OBVIOUS
<1>2. req[w] \in IndexJob /\ req' = [req EXCEPT ![w] = job]
  BY <1>1
<1>3. job # Idle => job.ps = req[w].ps /\ job.apart = req[w].apart /\ IndexShape(job)
  BY <1>1
<1>4. job # Idle /\ job.apart /\ job.ok => \A p \in req[w].ps : OnTrack(job, p, rows'[p], docs'[p])
  BY <1>1
<1>5. \A p \in req[w].ps :
        \/ p \in strayed'
        \/ job # Idle /\ job.called
        \/ docs'[p] = Shown(rows'[p])
        \/ p \notin strayed /\ ~req[w].called /\ docs'[p] = docs[p] /\ rows'[p] = rows[p]
  OBVIOUS
<1>6. \A p \in Products \ req[w].ps : rows'[p] = rows[p] /\ docs'[p] = docs[p] /\ (p \in strayed' <=> p \in strayed)
  OBVIOUS
<1>7. \A p \in req[w].ps : p \in strayed => p \in strayed' \/ req[w].apart
  OBVIOUS
<1> QED BY <1>2, <1>3, <1>4, <1>5, <1>6, <1>7, OneIndexStep

LEMMA CommitProductsStep ==
  ASSUME IndexInv, NEW w \in Workers, CommitProducts(w)
  PROVE  IndexInv'
<1>1. PICK j \in IndexJob : j = req[w] /\ j.at = "product.commit"
  BY IdleIsNoJob DEF CommitProducts, At, IndexInv, IndexTyped, Idle
<1>2. j.ps \in SUBSET Products /\ j.set \in ChangeSets /\ IndexShape(j)
  BY <1>1, JobFacts DEF IndexInv
<1>3. \A p \in j.ps : j.set[p] \in Change
  BY <1>1, <1>2 DEF ChangeSets, IndexShape, ProductSteps
<1>4. /\ rows' = [p \in Products |-> IF p \in j.ps THEN Written(rows[p], j.set[p]) ELSE rows[p]]
      /\ req' = [req EXCEPT ![w] = Idle]
      /\ docs' = docs
  BY <1>1 DEF CommitProducts, Answer, Proceed
<1>5. strayed' = IF j.apart /\ j.ok THEN (strayed \ j.ps) \cup Unseen(w) ELSE strayed \cup j.ps
  BY <1>1 DEF CommitProducts, Settled
<1>6. \A p \in j.ps : p \in Unseen(w) <=> Adds(j, p, rows[p])
  BY <1>1 DEF Unseen, Adds
<1>7. Unseen(w) \subseteq j.ps
  BY <1>1 DEF Unseen
<1>8. rows' \in [Products -> ProductRow]
  BY <1>3, <1>4, WrittenType DEF IndexInv, IndexTyped
<1>9. ASSUME NEW p \in j.ps, p \notin strayed' PROVE docs'[p] = Shown(rows'[p])
  <2>1. j.apart /\ j.ok /\ p \notin Unseen(w)
    BY <1>5, <1>9
  <2>2. OnTrack(j, p, rows[p], docs[p])
    BY <1>1, <2>1 DEF IndexInv, AllOnTrack
  <2>3. docs[p] = Shown(Written(rows[p], j.set[p]))
    BY <1>1, <1>6, <2>1, <2>2 DEF OnTrack
  <2> QED BY <1>2, <1>4, <2>3
<1>10. \A p \in Products \ j.ps : rows'[p] = rows[p] /\ docs'[p] = docs[p] /\ (p \in strayed' <=> p \in strayed)
  <2>1. \A p \in Products \ j.ps : p \in strayed' <=> p \in strayed
    BY <1>5, <1>7
  <2> QED BY <1>4, <2>1
<1>11. \A p \in j.ps : p \in strayed => p \in strayed' \/ j.apart
  BY <1>5
<1> QED BY <1>1, <1>4, <1>8, <1>9, <1>10, <1>11, AnswerIndexStep

LEMMA SaveAloneStep ==
  ASSUME IndexInv, NEW w \in Workers, SaveAlone(w)
  PROVE  IndexInv'
<1>1. PICK j \in IndexJob : j = req[w] /\ j.at = "product.alone"
  BY IdleIsNoJob DEF SaveAlone, At, IndexInv, IndexTyped, Idle
<1>2. j.ps \in SUBSET Products /\ j.set \in ChangeSets /\ IndexShape(j)
  BY <1>1, JobFacts DEF IndexInv
<1>3. \A p \in j.ps : j.set[p] \in Change
  BY <1>1, <1>2 DEF ChangeSets, IndexShape, ProductSteps
<1>4. PICK job : job = [j EXCEPT !.at = "product.tell", !.called = TRUE]
  OBVIOUS
<1>5. /\ rows' = [p \in Products |-> IF p \in j.ps THEN Written(rows[p], j.set[p]) ELSE rows[p]]
      /\ req' = [req EXCEPT ![w] = job]
      /\ docs' = docs /\ strayed' = strayed
  BY <1>1, <1>4 DEF SaveAlone, Proceed
<1>6. /\ job \in IndexJob /\ job.at = "product.tell" /\ job.called
      /\ job.ps = j.ps /\ job.set = j.set /\ job.says = j.says /\ job.apart = j.apart /\ job.ok = j.ok
  BY <1>4 DEF IndexJob, IndexSteps
<1>7. IndexShape(job)
  BY <1>1, <1>2, <1>6 DEF IndexShape, ProductSteps
<1>8. rows' \in [Products -> ProductRow]
  BY <1>3, <1>5, WrittenType DEF IndexInv, IndexTyped
<1>9. ASSUME NEW p \in j.ps, job.apart, job.ok PROVE OnTrack(job, p, rows'[p], docs'[p])
  <2>1. OnTrack(j, p, rows[p], docs[p])
    BY <1>1, <1>6, <1>9 DEF IndexInv, AllOnTrack
  <2>2. rows'[p] = Written(rows[p], j.set[p])
    BY <1>2, <1>5
  <2>3. Len(j.says) = 1 => j.says[1][p] = Shown(rows'[p])
    BY <1>1, <2>1, <2>2 DEF OnTrack
  <2>4. Len(j.says) = 0 => rows'[p].state = "live" /\ j.set[p].name = rows'[p].name
    BY <1>1, <2>1, <2>2 DEF OnTrack, Written, Column
  <2> QED BY <1>6, <2>3, <2>4 DEF OnTrack
<1>10. /\ job # Idle => job.ps = req[w].ps /\ job.apart = req[w].apart /\ IndexShape(job)
       /\ job \in {Idle} \cup IndexJob /\ req[w] \in IndexJob /\ job # Idle
  BY <1>1, <1>6, <1>7, IdleIsNoJob
<1>11. \A p \in Products \ req[w].ps : rows'[p] = rows[p] /\ docs'[p] = docs[p] /\ (p \in strayed' <=> p \in strayed)
  BY <1>1, <1>5
<1>12. \A p \in req[w].ps : p \in strayed => p \in strayed' \/ req[w].apart
  BY <1>5
<1>13. job # Idle /\ job.apart /\ job.ok => \A p \in req[w].ps : OnTrack(job, p, rows'[p], docs'[p])
  BY <1>1, <1>9
<1>14. \A p \in req[w].ps :
         \/ p \in strayed'
         \/ job # Idle /\ job.called
         \/ docs'[p] = Shown(rows'[p])
         \/ p \notin strayed /\ ~req[w].called /\ docs'[p] = docs[p] /\ rows'[p] = rows[p]
  BY <1>6, <1>10
<1> QED BY <1>5, <1>8, <1>10, <1>11, <1>12, <1>13, <1>14, OneIndexStep

LEMMA TellIndexStep ==
  ASSUME IndexInv, NEW w \in Workers, TellIndex(w)
  PROVE  IndexInv'
<1>1. PICK j \in IndexJob : j = req[w] /\ j.at = "product.tell"
  BY IdleIsNoJob DEF TellIndex, At, IndexInv, IndexTyped, Idle
<1>2. j.says \in Seq(Sayings) /\ Len(j.says) \in {0, 1} /\ \A n \in 1..Len(j.says) : DOMAIN j.says[n] = j.ps
  BY <1>1, JobFacts DEF IndexInv, IndexShape, ProductSteps
<1>3. PICK p \in Products : j.ps = {p}
  BY <1>1 DEF IndexInv, IndexShape
<1>4. (CHOOSE q \in j.ps : TRUE) = p
  BY <1>3
<1>5. PICK say : say = IF j.says # <<>> THEN Head(j.says) ELSE Doc(p, [name |-> j.set[p].name, attr |-> rows[p].attr])
  OBVIOUS
<1>6. PICK done \in BOOLEAN :
        /\ docs' = IF done THEN Sent(say) ELSE docs
        /\ strayed' = IF done /\ j.apart THEN strayed \ {p} ELSE strayed \cup {p}
        /\ req' = [req EXCEPT ![w] = Idle]
        /\ rows' = rows
  BY <1>1, <1>4, <1>5 DEF TellIndex, Answer, Proceed
<1>7. /\ DOMAIN say = {p}
      /\ Len(j.says) = 1 => say = j.says[1]
      /\ Len(j.says) = 0 => say[p] = [name |-> j.set[p].name, attr |-> rows[p].attr]
  <2>1. CASE Len(j.says) = 1
    <3>1. j.says # << >> /\ Head(j.says) = j.says[1] /\ 1 \in 1..Len(j.says)
      BY <1>2, <2>1
    <3> QED BY <1>2, <1>3, <1>5, <2>1, <3>1
  <2>2. CASE Len(j.says) = 0
    <3>1. j.says = << >>
      BY <1>2, <2>2
    <3> QED BY <1>5, <2>2, <3>1 DEF Doc
  <2> QED BY <1>2, <2>1, <2>2
<1>8. ASSUME p \notin strayed' PROVE docs'[p] = Shown(rows'[p])
  <2>1. done /\ j.apart
    BY <1>6, <1>8
  <2>2. docs'[p] = say[p]
    BY <1>6, <1>7, <2>1, SentText
  <2>3. j.ok => OnTrack(j, p, rows[p], docs[p])
    BY <1>1, <1>3, <2>1 DEF IndexInv, AllOnTrack
  <2>4. j.ok
    BY <1>1 DEF IndexInv, IndexShape
  <2> QED BY <1>1, <1>2, <1>6, <1>7, <2>2, <2>3, <2>4 DEF OnTrack, Shown, TextOf
<1>9. \A q \in Products \ j.ps : rows'[q] = rows[q] /\ docs'[q] = docs[q] /\ (q \in strayed' <=> q \in strayed)
  <2>1. \A q \in Products \ {p} : docs'[q] = docs[q]
    BY <1>6, <1>7, SentText
  <2>2. \A q \in Products \ {p} : q \in strayed' <=> q \in strayed
    BY <1>6
  <2> QED BY <1>3, <1>6, <2>1, <2>2
<1>10. \A q \in j.ps : q \in strayed => q \in strayed' \/ j.apart
  BY <1>6
<1>11. rows' \in [Products -> ProductRow]
  BY <1>6 DEF IndexInv, IndexTyped
<1>12. \A q \in j.ps : q \in strayed' \/ docs'[q] = Shown(rows'[q])
  BY <1>3, <1>8
<1> QED BY <1>1, <1>6, <1>9, <1>10, <1>11, <1>12, AnswerIndexStep

LEMMA DieIndexingStep ==
  ASSUME IndexInv, NEW w \in Workers, DieIndexing(w)
  PROVE  IndexInv'
<1>1. PICK j \in IndexJob : j = req[w]
  BY DEF DieIndexing, Crash, IndexInv, IndexTyped
<1>2. /\ req' = [req EXCEPT ![w] = Idle]
      /\ strayed' = IF j.called THEN strayed \cup j.ps ELSE strayed
      /\ rows' = rows /\ docs' = docs
  BY <1>1 DEF DieIndexing, Crash, Answer, Proceed
<1>3. rows' \in [Products -> ProductRow]
  BY <1>2 DEF IndexInv, IndexTyped
<1>4. \A p \in Products \ j.ps : rows'[p] = rows[p] /\ docs'[p] = docs[p] /\ (p \in strayed' <=> p \in strayed)
  BY <1>2
<1>5. \A p \in j.ps : p \in strayed => p \in strayed' \/ j.apart
  BY <1>2
<1>6. \A p \in j.ps : p \in strayed' \/ (p \notin strayed /\ ~j.called /\ docs'[p] = docs[p] /\ rows'[p] = rows[p])
  BY <1>2
<1> QED BY <1>1, <1>2, <1>3, <1>4, <1>5, <1>6, AnswerIndexStep

LEMMA DropCollectionStep ==
  ASSUME IndexInv, NEW w \in Workers, DropCollection(w)
  PROVE  IndexInv'
<1>1. PICK j \in IndexJob : j = req[w] /\ j.at = "index.drop"
  BY IdleIsNoJob DEF DropCollection, At, IndexInv, IndexTyped, Idle
<1>2. j.ps = Products /\ j.ok
  BY <1>1 DEF IndexInv, IndexShape, ProductSteps
<1>3. PICK job : job = [j EXCEPT !.at = "index.create", !.called = TRUE]
  OBVIOUS
<1>4. /\ docs' = [p \in Products |-> Absent] /\ rows' = rows /\ strayed' = strayed
      /\ req' = [req EXCEPT ![w] = job]
  BY <1>1, <1>3 DEF DropCollection, Proceed
<1>5. /\ job \in IndexJob /\ job.at = "index.create" /\ job.called /\ job.ps = j.ps /\ job.apart = j.apart /\ job.ok = j.ok
  BY <1>3 DEF IndexJob, IndexSteps
<1>6. IndexShape(job)
  BY <1>2, <1>5 DEF IndexShape, ProductSteps
<1>7. \A p \in Products : OnTrack(job, p, rows'[p], docs'[p])
  BY <1>4, <1>5 DEF OnTrack
<1>8. /\ job # Idle => job.ps = req[w].ps /\ job.apart = req[w].apart /\ IndexShape(job)
      /\ job \in {Idle} \cup IndexJob /\ req[w] \in IndexJob /\ job # Idle /\ rows' \in [Products -> ProductRow]
  BY <1>1, <1>4, <1>5, <1>6, IdleIsNoJob DEF IndexInv, IndexTyped
<1>9. \A p \in Products \ req[w].ps : rows'[p] = rows[p] /\ docs'[p] = docs[p] /\ (p \in strayed' <=> p \in strayed)
  BY <1>1, <1>2
<1>10. \A p \in req[w].ps : p \in strayed => p \in strayed' \/ req[w].apart
  BY <1>4
<1>11. job # Idle /\ job.apart /\ job.ok => \A p \in req[w].ps : OnTrack(job, p, rows'[p], docs'[p])
  BY <1>1, <1>2, <1>7
<1>12. \A p \in req[w].ps :
         \/ p \in strayed'
         \/ job # Idle /\ job.called
         \/ docs'[p] = Shown(rows'[p])
         \/ p \notin strayed /\ ~req[w].called /\ docs'[p] = docs[p] /\ rows'[p] = rows[p]
  BY <1>5, <1>8
<1> QED BY <1>4, <1>8, <1>9, <1>10, <1>11, <1>12, OneIndexStep

\* A step of a reindex that writes neither rows nor documents.
LEMMA GoOnReindexing ==
  ASSUME IndexInv, NEW w \in Workers, NEW j \in IndexJob, j = req[w], NEW job \in IndexJob,
         job.ps = j.ps, job.apart = j.apart, job.called = j.called, job.ok = j.ok, IndexShape(job),
         req' = [req EXCEPT ![w] = job], rows' = rows, docs' = docs, strayed' = strayed,
         j.apart /\ j.ok => \A p \in j.ps : OnTrack(job, p, rows[p], docs[p])
  PROVE  IndexInv'
<1>1. job # Idle /\ job \in {Idle} \cup IndexJob /\ req[w] \in IndexJob
  BY IdleIsNoJob
<1>2. job # Idle => job.ps = req[w].ps /\ job.apart = req[w].apart /\ IndexShape(job)
  OBVIOUS
<1>3. rows' \in [Products -> ProductRow]
  BY DEF IndexInv, IndexTyped
<1>4. \A p \in Products \ req[w].ps : rows'[p] = rows[p] /\ docs'[p] = docs[p] /\ (p \in strayed' <=> p \in strayed)
  OBVIOUS
<1>5. \A p \in req[w].ps : p \in strayed => p \in strayed' \/ req[w].apart
  OBVIOUS
<1>6. job # Idle /\ job.apart /\ job.ok => \A p \in req[w].ps : OnTrack(job, p, rows'[p], docs'[p])
  OBVIOUS
<1>7. ASSUME NEW p \in req[w].ps, p \notin strayed, ~job.called
      PROVE  p \notin strayed /\ ~req[w].called /\ docs'[p] = docs[p] /\ rows'[p] = rows[p]
  BY <1>7
<1>8. \A p \in req[w].ps :
        \/ p \in strayed'
        \/ job # Idle /\ job.called
        \/ docs'[p] = Shown(rows'[p])
        \/ p \notin strayed /\ ~req[w].called /\ docs'[p] = docs[p] /\ rows'[p] = rows[p]
  BY <1>1, <1>7
<1> QED BY <1>1, <1>2, <1>3, <1>4, <1>5, <1>6, <1>8, OneIndexStep

LEMMA CreateCollectionStep ==
  ASSUME IndexInv, NEW w \in Workers, CreateCollection(w)
  PROVE  IndexInv'
<1>1. PICK j \in IndexJob : j = req[w] /\ j.at = "index.create"
  BY IdleIsNoJob DEF CreateCollection, At, IndexInv, IndexTyped, Idle
<1>2. j.ps = Products /\ j.ok /\ j.called
  BY <1>1 DEF IndexInv, IndexShape, ProductSteps
<1>3. PICK job : job = [j EXCEPT !.at = "index.read"]
  OBVIOUS
<1>4. req' = [req EXCEPT ![w] = job] /\ rows' = rows /\ docs' = docs /\ strayed' = strayed
  BY <1>1, <1>3 DEF CreateCollection, Proceed
<1>5. /\ job \in IndexJob /\ job.at = "index.read"
      /\ job.ps = j.ps /\ job.apart = j.apart /\ job.called = j.called /\ job.ok = j.ok
  BY <1>3 DEF IndexJob, IndexSteps
<1>6. IndexShape(job)
  BY <1>2, <1>5 DEF IndexShape, ProductSteps
<1>7. ASSUME j.apart, j.ok, NEW p \in j.ps PROVE OnTrack(job, p, rows[p], docs[p])
  <2>1. OnTrack(j, p, rows[p], docs[p])
    BY <1>1, <1>7 DEF IndexInv, AllOnTrack
  <2>2. docs[p] = Absent
    BY <1>1, <2>1 DEF OnTrack
  <2> QED BY <1>5, <2>2 DEF OnTrack
<1> QED BY <1>1, <1>4, <1>5, <1>6, <1>7, GoOnReindexing

LEMMA NothingSaid == Nothing \in Sayings
<1>1. Nothing \in [{} -> DocText]
  BY DEF Nothing
<1>2. {} \in SUBSET Products
  OBVIOUS
<1> QED BY <1>1, <1>2 DEF Sayings

LEMMA ReadProductsStep ==
  ASSUME IndexInv, NEW w \in Workers, ReadProducts(w)
  PROVE  IndexInv'
<1>1. PICK j \in IndexJob : j = req[w] /\ j.at = "index.read"
  BY IdleIsNoJob DEF ReadProducts, At, IndexInv, IndexTyped, Idle
<1>2. j.ps = Products /\ j.ok /\ j.called
  BY <1>1 DEF IndexInv, IndexShape, ProductSteps
<1>3. PICK say : say = [p \in LiveProducts |-> TextOf(rows[p])]
  OBVIOUS
<1>0. PICK says : says = <<say, Nothing, Nothing>>
  OBVIOUS
<1>4. PICK job : job = [j EXCEPT !.at = "index.build", !.says = says]
  OBVIOUS
<1>5. req' = [req EXCEPT ![w] = job] /\ rows' = rows /\ docs' = docs /\ strayed' = strayed
  BY <1>0, <1>1, <1>3, <1>4 DEF ReadProducts, Proceed, indexVars
<1>6. say \in Sayings
  <2>1. LiveProducts \in SUBSET Products
    BY DEF LiveProducts
  <2>2. \A p \in LiveProducts : TextOf(rows[p]) \in DocText
    BY <2>1, WrittenType DEF IndexInv, IndexTyped
  <2>3. say \in [LiveProducts -> DocText]
    BY <1>3, <2>2
  <2> QED BY <2>1, <2>3 DEF Sayings
<1>6a. \A p \in DOMAIN say : say[p] \in Text
  BY <1>3 DEF LiveProducts, IndexInv, IndexTyped, ProductRow, TextOf, Text
<1>7. says \in Seq(Sayings) /\ Len(says) = 3 /\ says[1] = say
  <2>1. Nothing \in Sayings
    BY NothingSaid
  <2> HIDE DEF Sayings
  <2> QED BY <1>0, <1>6, <2>1
<1>8. /\ job \in IndexJob /\ job.at = "index.build" /\ job.says = says
      /\ job.ps = j.ps /\ job.apart = j.apart /\ job.called = j.called /\ job.ok = j.ok
  BY <1>4, <1>7 DEF IndexJob, IndexSteps
<1>9. IndexShape(job)
  BY <1>2, <1>6a, <1>7, <1>8 DEF IndexShape, ProductSteps
<1>10. ASSUME j.apart, j.ok, NEW p \in j.ps PROVE OnTrack(job, p, rows[p], docs[p])
  <2>1. OnTrack(j, p, rows[p], docs[p])
    BY <1>1, <1>10 DEF IndexInv, AllOnTrack
  <2>2. docs[p] = Absent
    BY <1>1, <2>1 DEF OnTrack
  <2>3. (p \in DOMAIN say <=> rows[p].state = "live") /\ (rows[p].state = "live" => say[p] = TextOf(rows[p]))
    BY <1>2, <1>3 DEF LiveProducts
  <2>4. p \in DOMAIN say => Reads(say, p, rows[p])
    BY <2>3 DEF Reads
  <2>5. p \notin DOMAIN say => docs[p] = Shown(rows[p])
    BY <2>2, <2>3 DEF Shown
  <2> QED BY <1>7, <1>8, <2>4, <2>5 DEF OnTrack
<1> QED BY <1>1, <1>5, <1>8, <1>9, <1>10, GoOnReindexing

\* What the three sayings of a reindex are about.
LEMMA ReindexFacts ==
  ASSUME IndexInv, NEW w \in Workers, req[w].at \in {"index.build", "index.import"}
  PROVE  /\ req[w] \in IndexJob /\ req[w].ps = Products /\ req[w].ok /\ req[w].called /\ Len(req[w].says) = 3
         /\ \A p \in DOMAIN req[w].says[1] : req[w].says[1][p] \in Text
         /\ req[w].says[1] \in Sayings /\ req[w].says[2] \in Sayings /\ req[w].says[3] \in Sayings
<1>1. PICK j \in IndexJob : j = req[w]
  BY IdleIsNoJob DEF IndexInv, IndexTyped, Idle
<1>2. /\ j.ps = Products /\ j.ok /\ j.called
      /\ Len(j.says) = 3 /\ \A p \in DOMAIN j.says[1] : j.says[1][p] \in Text
  BY <1>1 DEF IndexInv, IndexShape, ProductSteps
<1>3. j.says \in Seq(Sayings)
  BY JobFacts
<1>4. j.says[1] \in Sayings /\ j.says[2] \in Sayings /\ j.says[3] \in Sayings
  <2> HIDE DEF Sayings
  <2> QED BY <1>2, <1>3
<1> QED BY <1>1, <1>2, <1>4

LEMMA BuildBatchStep ==
  ASSUME IndexInv, NEW w \in Workers, BuildBatch(w)
  PROVE  IndexInv'
<1>1. PICK j \in IndexJob : j = req[w] /\ j.at = "index.build"
  BY ReindexFacts DEF BuildBatch, At
<1>2. PICK todo \in Sayings, missed \in Sayings : todo = j.says[1] /\ missed = j.says[3]
  BY <1>1, ReindexFacts
<1>3. DOMAIN todo \in SUBSET Products /\ \A p \in DOMAIN todo : todo[p] \in Text
  BY <1>1, <1>2, ReindexFacts DEF Sayings
<1>4. PICK ps \in SUBSET DOMAIN todo :
        req' = [req EXCEPT ![w] =
                  [req[w] EXCEPT !.at = "index.import",
                                 !.says = <<[p \in DOMAIN todo \ ps |-> todo[p]],
                                            [p \in ps |-> [name |-> todo[p].name, attr |-> rows[p].attr]],
                                            missed>>]]
  <2>1. \E ps \in (SUBSET DOMAIN req[w].says[1]) \ {{}} :
          req' = [req EXCEPT ![w] =
                    [req[w] EXCEPT !.at = "index.import",
                                   !.says = <<[p \in DOMAIN req[w].says[1] \ ps |-> req[w].says[1][p]],
                                              [p \in ps |-> [name |-> req[w].says[1][p].name, attr |-> rows[p].attr]],
                                              req[w].says[3]>>]]
    BY Zenon DEF BuildBatch, Proceed
  <2>2. req[w].says[1] = todo /\ req[w].says[3] = missed
    BY <1>1, <1>2
  <2>3. PICK ps \in (SUBSET DOMAIN req[w].says[1]) \ {{}} :
          req' = [req EXCEPT ![w] =
                    [req[w] EXCEPT !.at = "index.import",
                                   !.says = <<[p \in DOMAIN req[w].says[1] \ ps |-> req[w].says[1][p]],
                                              [p \in ps |-> [name |-> req[w].says[1][p].name, attr |-> rows[p].attr]],
                                              req[w].says[3]>>]]
    BY <2>1, Zenon
  <2>4. ps \in SUBSET DOMAIN todo
    BY <2>2
  <2>5. [p \in DOMAIN req[w].says[1] \ ps |-> req[w].says[1][p]] = [p \in DOMAIN todo \ ps |-> todo[p]]
    BY <2>2
  <2>6. [p \in ps |-> [name |-> req[w].says[1][p].name, attr |-> rows[p].attr]]
          = [p \in ps |-> [name |-> todo[p].name, attr |-> rows[p].attr]]
    BY <2>2
  <2> QED BY <2>2, <2>3, <2>4, <2>5, <2>6, Zenon
<1>5. PICK rest : rest = [p \in DOMAIN todo \ ps |-> todo[p]]
  OBVIOUS
<1>6. PICK batch : batch = [p \in ps |-> [name |-> todo[p].name, attr |-> rows[p].attr]]
  OBVIOUS
<1>7. PICK says : says = <<rest, batch, missed>>
  OBVIOUS
<1>8. PICK job : job = [j EXCEPT !.at = "index.import", !.says = says]
  OBVIOUS
<1>9. req' = [req EXCEPT ![w] = job] /\ rows' = rows /\ docs' = docs /\ strayed' = strayed
  BY <1>1, <1>4, <1>5, <1>6, <1>7, <1>8 DEF BuildBatch, indexVars
<1>10. rest \in [DOMAIN todo \ ps -> Text] /\ batch \in [ps -> Text]
  <2>1. \A p \in ps : rows[p].attr \in Words \cup {Absent}
    BY <1>3 DEF IndexInv, IndexTyped, ProductRow
  <2>2. \A p \in ps : [name |-> todo[p].name, attr |-> rows[p].attr] \in Text
    BY <1>3, <2>1 DEF Text
  <2> QED BY <1>3, <1>5, <1>6, <2>2
<1>11. says \in Seq(Sayings) /\ Len(says) = 3 /\ says[1] = rest /\ says[2] = batch /\ says[3] = missed
  <2>1. rest \in [DOMAIN todo \ ps -> DocText] /\ batch \in [ps -> DocText]
    BY <1>10 DEF DocText
  <2>2. rest \in Sayings /\ batch \in Sayings
    BY <1>3, <2>1 DEF Sayings
  <2> HIDE DEF Sayings
  <2> QED BY <1>7, <2>2
<1>12. /\ job \in IndexJob /\ job.at = "index.import" /\ job.says = says
       /\ job.ps = j.ps /\ job.apart = j.apart /\ job.called = j.called /\ job.ok = j.ok
  BY <1>8, <1>11 DEF IndexJob, IndexSteps
<1>13. IndexShape(job)
  <2>1. j.ps = Products /\ j.ok /\ j.called
    BY <1>1, ReindexFacts
  <2> QED BY <1>10, <1>11, <1>12, <2>1 DEF IndexShape, ProductSteps
<1>14. ASSUME j.apart, j.ok, NEW p \in j.ps PROVE OnTrack(job, p, rows[p], docs[p])
  <2>1. OnTrack(j, p, rows[p], docs[p])
    BY <1>1, <1>14 DEF IndexInv, AllOnTrack
  <2>2. IF p \in DOMAIN todo THEN Reads(todo, p, rows[p]) ELSE p \in DOMAIN missed \/ docs[p] = Shown(rows[p])
    BY <1>1, <1>2, <2>1 DEF OnTrack
  <2>3. p \in DOMAIN rest => Reads(rest, p, rows[p])
    BY <1>5, <2>2 DEF Reads
  <2>4. p \in DOMAIN batch => Reads(batch, p, rows[p])
    BY <1>6, <2>2 DEF Reads, TextOf
  <2>5. p \notin DOMAIN rest /\ p \notin DOMAIN batch => p \in DOMAIN missed \/ docs[p] = Shown(rows[p])
    BY <1>5, <1>6, <2>2
  <2> QED BY <1>11, <1>12, <2>3, <2>4, <2>5 DEF OnTrack
<1> QED BY <1>1, <1>9, <1>12, <1>13, <1>14, GoOnReindexing

LEMMA ImportBatchStep ==
  ASSUME IndexInv, NEW w \in Workers, ImportBatch(w)
  PROVE  IndexInv'
<1>1. PICK j \in IndexJob : j = req[w] /\ j.at = "index.import"
  BY ReindexFacts DEF ImportBatch, At
<1>2. PICK todo \in Sayings, batch \in Sayings, missed \in Sayings :
        todo = j.says[1] /\ batch = j.says[2] /\ missed = j.says[3]
  BY <1>1, ReindexFacts
<1>3. PICK failed \in SUBSET DOMAIN batch :
        /\ docs' = Sent([p \in DOMAIN batch \ failed |-> batch[p]])
        /\ req' = [req EXCEPT ![w] =
                     [req[w] EXCEPT !.at = "index.build",
                                    !.says = <<todo, Nothing, [p \in DOMAIN missed \cup failed |-> Absent]>>]]
        /\ rows' = rows /\ strayed' = strayed
  BY <1>1, <1>2 DEF ImportBatch, Proceed
<1>4. PICK refused : refused = [p \in DOMAIN missed \cup failed |-> Absent]
  OBVIOUS
<1>5. PICK says : says = <<todo, Nothing, refused>>
  OBVIOUS
<1>6. PICK job : job = [j EXCEPT !.at = "index.build", !.says = says]
  OBVIOUS
<1>7. req' = [req EXCEPT ![w] = job]
  BY <1>1, <1>3, <1>4, <1>5, <1>6
<1>8. says \in Seq(Sayings) /\ Len(says) = 3 /\ says[1] = todo /\ says[3] = refused
  <2>1. DOMAIN missed \cup failed \in SUBSET Products
    BY <1>2 DEF Sayings
  <2>2. refused \in [DOMAIN missed \cup failed -> DocText]
    BY <1>4 DEF DocText
  <2>3. refused \in Sayings
    BY <2>1, <2>2 DEF Sayings
  <2>4. Nothing \in Sayings
    BY NothingSaid
  <2> HIDE DEF Sayings
  <2> QED BY <1>2, <1>5, <2>3, <2>4
<1>9. /\ job \in IndexJob /\ job.at = "index.build" /\ job.says = says
      /\ job.ps = j.ps /\ job.apart = j.apart /\ job.called = j.called /\ job.ok = j.ok
  BY <1>6, <1>8 DEF IndexJob, IndexSteps
<1>10. j.ps = Products /\ j.ok /\ j.called /\ \A p \in DOMAIN todo : todo[p] \in Text
  BY <1>1, <1>2, ReindexFacts
<1>11. IndexShape(job)
  BY <1>8, <1>9, <1>10 DEF IndexShape, ProductSteps
<1>12. ASSUME NEW p \in Products
       PROVE  docs'[p] = IF p \in DOMAIN batch /\ p \notin failed THEN batch[p] ELSE docs[p]
  BY <1>3, SentText
<1>13. ASSUME job.apart, job.ok, NEW p \in Products PROVE OnTrack(job, p, rows'[p], docs'[p])
  <2>1. OnTrack(j, p, rows[p], docs[p])
    BY <1>1, <1>9, <1>10, <1>13 DEF IndexInv, AllOnTrack
  <2>2. p \in DOMAIN todo => Reads(todo, p, rows[p])
    BY <1>1, <1>2, <2>1 DEF OnTrack
  <2>3. p \notin DOMAIN todo =>
          IF p \in DOMAIN batch THEN Reads(batch, p, rows[p]) ELSE p \in DOMAIN missed \/ docs[p] = Shown(rows[p])
    BY <1>1, <1>2, <2>1 DEF OnTrack
  <2>4. DOMAIN refused = DOMAIN missed \cup failed
    BY <1>4
  <2>5. p \notin DOMAIN todo => p \in DOMAIN refused \/ docs'[p] = Shown(rows[p])
    BY <1>12, <2>3, <2>4 DEF Reads, Shown
  <2> QED BY <1>3, <1>8, <1>9, <2>2, <2>5 DEF OnTrack
<1>14. /\ job # Idle => job.ps = req[w].ps /\ job.apart = req[w].apart /\ IndexShape(job)
       /\ job \in {Idle} \cup IndexJob /\ req[w] \in IndexJob /\ job # Idle /\ rows' \in [Products -> ProductRow]
  BY <1>1, <1>3, <1>9, <1>11, IdleIsNoJob DEF IndexInv, IndexTyped
<1>15. \A p \in Products \ req[w].ps : rows'[p] = rows[p] /\ docs'[p] = docs[p] /\ (p \in strayed' <=> p \in strayed)
  BY <1>1, <1>10
<1>16. \A p \in req[w].ps : p \in strayed => p \in strayed' \/ req[w].apart
  BY <1>3
<1>17. job # Idle /\ job.apart /\ job.ok => \A p \in req[w].ps : OnTrack(job, p, rows'[p], docs'[p])
  BY <1>1, <1>10, <1>13
<1>18. \A p \in req[w].ps :
         \/ p \in strayed'
         \/ job # Idle /\ job.called
         \/ docs'[p] = Shown(rows'[p])
         \/ p \notin strayed /\ ~req[w].called /\ docs'[p] = docs[p] /\ rows'[p] = rows[p]
  BY <1>9, <1>10, <1>14
<1> QED BY <1>7, <1>14, <1>15, <1>16, <1>17, <1>18, OneIndexStep

LEMMA EndReindexStep ==
  ASSUME IndexInv, NEW w \in Workers, EndReindex(w)
  PROVE  IndexInv'
<1>1. PICK j \in IndexJob : j = req[w] /\ j.at = "index.build"
  BY ReindexFacts DEF EndReindex, At
<1>2. PICK missed \in Sayings : missed = j.says[3]
  BY <1>1, ReindexFacts
<1>3. j.ps = Products /\ j.ok /\ DOMAIN j.says[1] = {}
  BY <1>1, ReindexFacts DEF EndReindex
<1>4. /\ docs' = docs /\ rows' = rows
      /\ req' = [req EXCEPT ![w] = Idle]
      /\ strayed' = IF j.apart /\ j.ok THEN (strayed \ j.ps) \cup DOMAIN missed ELSE strayed \cup j.ps
  BY <1>1, <1>2 DEF EndReindex, Settled, Answer, Proceed
<1>5. ASSUME NEW p \in j.ps, p \notin strayed' PROVE docs'[p] = Shown(rows'[p])
  <2>1. j.apart /\ j.ok /\ p \notin DOMAIN missed
    BY <1>4, <1>5
  <2>2. OnTrack(j, p, rows[p], docs[p])
    BY <1>1, <1>5, <2>1 DEF IndexInv, AllOnTrack
  <2>3. docs[p] = Shown(rows[p])
    BY <1>1, <1>2, <1>3, <2>1, <2>2 DEF OnTrack
  <2> QED BY <1>4, <2>3
<1>6. \A p \in Products \ j.ps : rows'[p] = rows[p] /\ docs'[p] = docs[p] /\ (p \in strayed' <=> p \in strayed)
  BY <1>3
<1>7. \A p \in j.ps : p \in strayed => p \in strayed' \/ j.apart
  BY <1>4
<1>8. rows' \in [Products -> ProductRow]
  BY <1>4 DEF IndexInv, IndexTyped
<1> QED BY <1>1, <1>4, <1>5, <1>6, <1>7, <1>8, AnswerIndexStep

LEMMA IndexStepOK == IndexInv /\ [IndexNext]_indexSpecVars => IndexInv'
<1> SUFFICES ASSUME IndexInv, [IndexNext]_indexSpecVars PROVE IndexInv'
  OBVIOUS
<1>1. ASSUME NEW w \in Workers, NEW p \in Products,
             AddProduct(w, p) \/ EditProduct(w, p) \/ TouchProduct(w, p) \/ DeleteProduct(w, p) \/ SaveAnew(w, p)
      PROVE  IndexInv'
  BY <1>1, AddProductStep, EditProductStep, AloneStep
<1>2. ASSUME NEW w \in Workers,
             \/ DeleteMany(w) \/ SaveInside(w) \/ CommitProducts(w) \/ SaveAlone(w) \/ TellIndex(w) \/ DieIndexing(w)
             \/ PurgeProducts(w) \/ RenameValue(w) \/ MoveVariant(w) \/ RenameKey(w)
      PROVE  IndexInv'
  BY <1>2, DeleteManyStep, SaveInsideStep, CommitProductsStep, SaveAloneStep, TellIndexStep, DieIndexingStep, ManyRowsStep
<1>3. ASSUME NEW w \in Workers,
             \/ Reindex(w) \/ DropCollection(w) \/ CreateCollection(w) \/ ReadProducts(w)
             \/ BuildBatch(w) \/ ImportBatch(w) \/ EndReindex(w)
      PROVE  IndexInv'
  BY <1>3, ReindexStep, DropCollectionStep, CreateCollectionStep, ReadProductsStep, BuildBatchStep, ImportBatchStep,
     EndReindexStep
<1>4. CASE UNCHANGED indexSpecVars
  BY <1>4 DEF indexSpecVars, slots, indexVars, IndexInv, IndexTyped, IndexShape, MeetingsNoted, AllOnTrack, OnTrack, Reads,
             Trusted, Untouched, AtIt
<1> QED BY <1>1, <1>2, <1>3, <1>4 DEF IndexNext

LEMMA DocumentsFit == IndexInv => IndexAgrees
<1> SUFFICES ASSUME IndexInv, NEW p \in Products, p \notin strayed, AtProducts({p}) = {}
             PROVE  docs[p] = Shown(rows[p])
  BY DEF IndexAgrees
<1>1. \A w \in Workers : ~AtIt(w, p)
  BY WhoIsAt
<1> QED BY <1>1 DEF IndexInv, Trusted, Untouched

\* A product that no request is at, and that nothing led astray, has the document its row calls for.
THEOREM DocumentsAgree == IndexSpec => []IndexAgrees
<1>1. [IndexNext]_indexSpecVars <=> [IndexNext]_<<slots, indexVars>>
  BY DEF indexSpecVars
<1> QED BY DocumentsFit, <1>1, IndexInitOK, IndexStepOK, PTL DEF IndexSpec

----------------------------------------------------------------------------
(* Platform as a whole: the component that plays keeps its invariant, and what the others have is
   what they began with.  Requests of one component are at no statement of another. *)

PlatformInv ==
  /\ scene \in Scenes
  /\ IF scene = "limits" THEN LimitsInv ELSE LimitsInit
  /\ IF scene = "flags" THEN FlagsInv ELSE FlagsInit
  /\ IF scene = "sessions" THEN SessionsInv ELSE SessionsInit
  /\ IF scene = "assistant" THEN TranscriptInv ELSE AssistantInit
  /\ scene = "audit" => AuditInv
  /\ IF scene = "categories" THEN CategoriesInv ELSE NoCategories
  /\ IF scene = "index" THEN IndexInv ELSE NoProducts

LEMMA PlatformInitOK == Init => PlatformInv
<1> SUFFICES ASSUME Init PROVE PlatformInv
  OBVIOUS
<1>1. /\ SlotsInit /\ scene \in Scenes
      /\ LimitsInit /\ FlagsInit /\ SessionsInit /\ TenancyInit /\ AssistantInit
  BY DEF Init
<1>2. LimitsInv /\ FlagsInv /\ SessionsInv /\ TranscriptInv /\ AuditInv
  BY <1>1, LimitsInitOK, FlagsInitOK, SessionsInitOK, TranscriptInit, InitServing DEF AuditInv
<1>3. IF scene = "categories" THEN CategoriesInv ELSE NoCategories
  BY <1>1, CategoriesInitOK DEF Init
<1>4. IF scene = "index" THEN IndexInv ELSE NoProducts
  BY <1>1, IndexInitOK DEF Init
<1> QED BY <1>1, <1>2, <1>3, <1>4 DEF PlatformInv

\* A component that does not play keeps what it began with.
LEMMA OthersWait ==
  /\ LimitsInit /\ UNCHANGED limitVars => LimitsInit'
  /\ FlagsInit /\ UNCHANGED flagVars => FlagsInit'
  /\ SessionsInit /\ UNCHANGED sessionVars => SessionsInit'
  /\ AssistantInit /\ UNCHANGED assistantVars => AssistantInit'
  /\ NoCategories /\ UNCHANGED categoryVars => NoCategories'
  /\ NoProducts /\ UNCHANGED indexVars => NoProducts'
<1>1. LimitsInit /\ UNCHANGED limitVars => LimitsInit'
  BY DEF LimitsInit, limitVars
<1>2. FlagsInit /\ UNCHANGED flagVars => FlagsInit'
  BY DEF FlagsInit, flagVars
<1>3. SessionsInit /\ UNCHANGED sessionVars => SessionsInit'
  BY DEF SessionsInit, sessionVars
<1>4. AssistantInit /\ UNCHANGED assistantVars => AssistantInit'
  BY DEF AssistantInit, assistantVars, turnVars
<1>5. NoCategories /\ UNCHANGED categoryVars => NoCategories'
  BY DEF NoCategories, categoryVars
<1>6. NoProducts /\ UNCHANGED indexVars => NoProducts'
  BY DEF NoProducts, Indexed, indexVars
<1> QED BY <1>1, <1>2, <1>3, <1>4, <1>5, <1>6

LEMMA PlatformStepOK == PlatformInv /\ [Next]_vars => PlatformInv'
<1> SUFFICES ASSUME PlatformInv, [Next]_vars PROVE PlatformInv'
  OBVIOUS
<1>1. CASE PlayLimits /\ UNCHANGED scene
  <2>1. LimitsInv'
    BY <1>1, LimitsStepOK DEF PlatformInv, PlayLimits
  <2> QED BY <1>1, <2>1, OthersWait DEF PlatformInv, PlayLimits
<1>2. CASE PlayFlags /\ UNCHANGED scene
  <2>1. FlagsInv'
    BY <1>2, FlagsStepOK DEF PlatformInv, PlayFlags
  <2> QED BY <1>2, <2>1, OthersWait DEF PlatformInv, PlayFlags
<1>3. CASE PlaySessions /\ UNCHANGED scene
  <2>1. SessionsInv'
    BY <1>3, SessionsStepOK DEF PlatformInv, PlaySessions
  <2> QED BY <1>3, <2>1, OthersWait DEF PlatformInv, PlaySessions
<1>4. CASE PlayAssistant /\ UNCHANGED scene
  <2>1. TranscriptInv'
    BY <1>4, TranscriptStepOK, AssistantStepOK DEF PlatformInv, PlayAssistant, TranscriptInv
  <2> QED BY <1>4, <2>1, OthersWait DEF PlatformInv, PlayAssistant
<1>5. CASE PlayAudit /\ UNCHANGED scene
  <2>1. AuditInv'
    BY <1>5, AuditStepOK DEF PlatformInv, PlayAudit
  <2> QED BY <1>5, <2>1, OthersWait DEF PlatformInv, PlayAudit
<1>6. CASE PlayCategories /\ UNCHANGED scene
  <2>1. CategoriesInv'
    BY <1>6, CategoriesStepOK DEF PlatformInv, PlayCategories
  <2> QED BY <1>6, <2>1, OthersWait DEF PlatformInv, PlayCategories
<1>7. CASE PlayIndex /\ UNCHANGED scene
  <2>1. IndexInv'
    BY <1>7, IndexStepOK DEF PlatformInv, PlayIndex
  <2> QED BY <1>7, <2>1, OthersWait DEF PlatformInv, PlayIndex
<1>8. CASE UNCHANGED vars
  <2>1. /\ UNCHANGED <<scene, limitVars, flagVars, sessionVars, assistantVars, categoryVars, indexVars>>
        /\ UNCHANGED limitSpecVars /\ UNCHANGED flagSpecVars /\ UNCHANGED sessionSpecVars /\ UNCHANGED assistantAll
        /\ UNCHANGED auditAll /\ UNCHANGED categorySpecVars /\ UNCHANGED indexSpecVars
    BY <1>8 DEF vars, limitSpecVars, flagSpecVars, sessionSpecVars, assistantAll, auditAll, categorySpecVars, indexSpecVars
  <2>2. /\ scene = "limits" => LimitsInv'
        /\ scene = "flags" => FlagsInv'
    BY <2>1, LimitsStepOK, FlagsStepOK DEF PlatformInv
  <2>3. /\ scene = "sessions" => SessionsInv'
        /\ scene = "assistant" => TranscriptInv'
        /\ scene = "audit" => AuditInv'
    BY <2>1, SessionsStepOK, TranscriptStepOK, AssistantStepOK, AuditStepOK DEF PlatformInv, TranscriptInv
  <2>4. /\ scene = "categories" => CategoriesInv'
        /\ scene = "index" => IndexInv'
    BY <2>1, CategoriesStepOK, IndexStepOK DEF PlatformInv
  <2>5. /\ scene # "limits" => LimitsInit'
        /\ scene # "flags" => FlagsInit'
        /\ scene # "sessions" => SessionsInit'
    BY <2>1, OthersWait DEF PlatformInv
  <2>6. /\ scene # "assistant" => AssistantInit'
        /\ scene # "categories" => NoCategories'
        /\ scene # "index" => NoProducts'
    BY <2>1, OthersWait DEF PlatformInv
  <2>7. scene' = scene /\ scene \in Scenes
    BY <2>1 DEF PlatformInv
  <2> QED BY <2>2, <2>3, <2>4, <2>5, <2>6, <2>7 DEF PlatformInv
<1> QED BY <1>1, <1>2, <1>3, <1>4, <1>5, <1>6, <1>7, <1>8 DEF Next

\* Whose statement a request is at.
LEMMA WhoPlays ==
  ASSUME PlatformInv, NEW w \in Workers
  PROVE  /\ req[w].at = "insert" => scene = "limits"
         /\ req[w].at \in Streaming => scene = "assistant"
         /\ req[w].at = "view" => scene \in {"assistant", "audit"}
         /\ req[w].at = "report" => scene = "audit"
<1>1. CASE scene = "limits"
  <2>1. req[w] \in {Idle} \cup LimitJob
    BY <1>1 DEF PlatformInv, LimitsInv, LimitsTyped
  <2> QED BY <1>1, <2>1 DEF Idle, LimitJob, Streaming
<1>2. CASE scene = "flags"
  <2>1. FlagJobOK(req[w])
    BY <1>2 DEF PlatformInv, FlagsInv, FlagsTyped
  <2> QED BY <1>2, <2>1 DEF FlagJobOK, Idle, FlagJob, FlagSteps, Streaming
<1>3. CASE scene = "sessions"
  <2>1. RequestOK(req[w])
    BY <1>3 DEF PlatformInv, SessionsInv, SessionsTyped
  <2> QED BY <1>3, <2>1 DEF RequestOK, Idle, Streaming
<1>4. CASE scene = "assistant"
  <2>1. AssistantOK(w)
    BY <1>4 DEF PlatformInv, TranscriptInv, AssistantInv
  <2> QED BY <1>4, <2>1 DEF AssistantOK, ServingOK, TurnOK, Idle, Streaming
<1>5. CASE scene = "audit"
  <2>1. ServingOK(w) \/ ReportOK(req[w])
    BY <1>5 DEF PlatformInv, AuditInv
  <2> QED BY <1>5, <2>1 DEF ServingOK, ReportOK, Idle, Streaming
<1>6. CASE scene = "categories"
  <2>1. req[w] \in {Idle} \cup CatJob
    BY <1>6 DEF PlatformInv, CategoriesInv, CategoriesTyped
  <2> QED BY <1>6, <2>1 DEF Idle, CatJob, Streaming
<1>7. CASE scene = "index"
  <2>1. req[w] = Idle \/ req[w].at \in IndexSteps
    BY <1>7, IdleIsNoJob DEF PlatformInv, IndexInv, IndexTyped
  <2> QED BY <1>7, <2>1 DEF Idle, IndexSteps, Streaming
<1> QED BY <1>1, <1>2, <1>3, <1>4, <1>5, <1>6, <1>7 DEF PlatformInv, Scenes

\* What a component begins with is as it should be.
LEMMA WaitingIsSound ==
  /\ FlagsInit => OneFlag
  /\ SessionsInit => LoggedOutStays
  /\ NoCategories => TreeSound
  /\ NoProducts => IndexAgrees
<1>1. FlagsInit => OneFlag
  <2> SUFFICES ASSUME FlagsInit, NEW p \in Places PROVE Cardinality(Carriers(p)) <= 1
    BY DEF OneFlag
  <2>1. Carriers(p) = {}
    BY DEF FlagsInit, Carriers
  <2> QED BY <2>1, FS_EmptySet
<1>2. SessionsInit => LoggedOutStays
  BY DEF SessionsInit, LoggedOutStays
<1>3. NoCategories => TreeSound
  <2> SUFFICES ASSUME NoCategories PROVE TreeSound
    OBVIOUS
  <2>1. CategoriesTypeOK /\ \A d \in Parents : Above[d] = TopLevel
    BY DEF NoCategories, CategoriesTypeOK, CatRow, Parents, Above
  <2>2. Climbs(Above, Up)
    BY <2>1, UpClimbs
  <2>3. PICK below \in Nat : MaxDepth = below + 1
    <3>1. MaxDepth - 1 \in Nat /\ MaxDepth = (MaxDepth - 1) + 1
      BY CategoriesAssumption
    <3> QED BY <3>1
  <2>4. \A d \in Parents : Up[MaxDepth][d] = TopLevel
    <3>1. \A d \in Parents : Up[below + 1][d] = Above[Up[below][d]] /\ Up[below][d] \in Parents
      BY <2>2, ClimbStep
    <3> QED BY <2>1, <2>3, <3>1
  <2>5. CategoriesInit
    BY <2>4 DEF NoCategories, CategoriesInit, SoundForest, CatRow, Parents
  <2> QED BY <2>5, FirstTree, TreeIsSound
<1>4. NoProducts => IndexAgrees
  BY DEF NoProducts, Indexed, IndexAgrees
<1> QED BY <1>1, <1>2, <1>3, <1>4

\* The limits hold of counts that are all zero, and the transcripts tell of no calls.
LEMMA NothingPends ==
  ASSUME PlatformInv
  PROVE  OvershootIsRaced /\ TurnsRecorded
<1>1. OvershootIsRaced
  <2>1. CASE scene = "limits"
    BY <2>1 DEF PlatformInv, LimitsInv
  <2>2. CASE scene # "limits"
    <3> SUFFICES ASSUME NEW r \in Resources, Limit[r] # Unlimited
                 PROVE  used[r] + Pending(r) <= Limit[r] + crowd[r] + extra[r]
      BY DEF OvershootIsRaced
    <3>1. \A w \in Workers : SizeOf(req[w], r) = 0
      BY <2>2, WhoPlays DEF SizeOf
    <3>2. PICK F \in [Workers -> Int] : F = [w \in Workers |-> SizeOf(req[w], r)]
      <4>1. [w \in Workers |-> SizeOf(req[w], r)] \in [Workers -> Int]
        BY <3>1
      <4> QED BY <4>1, Zenon
    <3>3. SumFunction(F) = 0
      BY <3>1, <3>2, WorkersAssumption, SumOfZeros
    <3>4. Pending(r) = SumFunction(F)
      BY <3>2, Zenon DEF Pending, SizeOf
    <3>5. LimitsInit /\ Limit[r] \in Nat
      BY <2>2, LimitsAssumption DEF PlatformInv
    <3> QED BY <3>3, <3>4, <3>5 DEF LimitsInit
  <2> QED BY <2>1, <2>2
<1>2. TurnsRecorded
  <2>1. CASE scene = "assistant"
    BY <2>1 DEF PlatformInv, TranscriptInv
  <2>2. CASE scene # "assistant"
    <3> SUFFICES ASSUME NEW c \in Conversations
                 PROVE  called[c] = told[c] + lost[c] + SumFunction([w \in Workers |-> CallsOf(req[w], c)])
      BY Zenon DEF TurnsRecorded, CallsOf
    <3>1. \A w \in Workers : CallsOf(req[w], c) = 0
      BY <2>2, WhoPlays DEF CallsOf
    <3>2. PICK F \in [Workers -> Int] : F = [w \in Workers |-> CallsOf(req[w], c)]
      <4>1. [w \in Workers |-> CallsOf(req[w], c)] \in [Workers -> Int]
        BY <3>1
      <4> QED BY <4>1, Zenon
    <3>3. SumFunction(F) = 0
      BY <3>1, <3>2, WorkersAssumption, SumOfZeros
    <3>4. AssistantInit
      BY <2>2 DEF PlatformInv
    <3> QED BY <3>2, <3>3, <3>4 DEF AssistantInit
  <2> QED BY <2>1, <2>2
<1> QED BY <1>1, <1>2

\* Whatever component plays, and however its requests interleave: each of the properties that the
\* components promise alone holds of the whole.
THEOREM PlatformSound ==
  Spec => [](/\ OvershootIsRaced /\ OneFlag /\ LoggedOutStays /\ EachSeesItsStore /\ TurnsRecorded
             /\ AuditHonest /\ TreeSound /\ IndexAgrees)
<1>1. PlatformInv => OvershootIsRaced /\ TurnsRecorded
  BY NothingPends
<1>2. PlatformInv => OneFlag /\ LoggedOutStays /\ TreeSound /\ IndexAgrees
  BY WaitingIsSound, FlagsGiveOne, UntilOvertaken, DocumentsFit DEF PlatformInv, SessionsInv
<1>3. PlatformInv => EachSeesItsStore
  <2> SUFFICES ASSUME PlatformInv PROVE EachSeesItsStore
    OBVIOUS
  <2>1. CASE scene = "assistant"
    BY <2>1, OwnStoreSeen DEF PlatformInv, TranscriptInv
  <2>2. CASE scene = "audit"
    <3>1. \A w \in Workers : ServingOK(w) \/ ReportOK(req[w])
      BY <2>2 DEF PlatformInv, AuditInv
    <3>2. \A w \in Workers : At(w, "view") => ViewKept(req[w])
      BY <3>1, ServingKept DEF At, ReportOK
    <3>3. \A w \in Workers : req[w].at \notin {"hop", "tools", "rest", "store"}
      BY <3>1 DEF ServingOK, ReportOK, Idle
    <3> QED BY <3>2, <3>3 DEF EachSeesItsStore, ViewKept, At
  <2>3. CASE scene \notin {"assistant", "audit"}
    BY <2>3, WhoPlays DEF EachSeesItsStore, Streaming, At
  <2> QED BY <2>1, <2>2, <2>3
<1>4. PlatformInv => AuditHonest
  <2> SUFFICES ASSUME PlatformInv PROVE AuditHonest
    OBVIOUS
  <2>1. CASE scene = "audit"
    BY <2>1, ReportsHonest DEF PlatformInv
  <2>2. CASE scene # "audit"
    BY <2>2, WhoPlays DEF AuditHonest, At
  <2> QED BY <2>1, <2>2
<1> QED BY <1>1, <1>2, <1>3, <1>4, PlatformInitOK, PlatformStepOK, PTL DEF Spec
=============================================================================
