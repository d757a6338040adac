--------------------------- MODULE StorageProofs ---------------------------
(***************************************************************************)
(* Storage implements Shelves: for every set of branches, requests and     *)
(* quantities, the row locks make each operation look as if it were done   *)
(* at once.                                                                *)
(***************************************************************************)
EXTENDS Storage, Sums

\* The operators of Layers, seen through the instance, are the operators of Layers.
LEMMA SameLayers ==
  ASSUME NEW left, NEW last, NEW qty
  PROVE  /\ Shelf!Parked(left, last) = Parked(left, last)
         /\ Shelf!Left(left, last, qty) = Left(left, last, qty)
<1>1. Shelf!UpTo(left, last) = UpTo(left, last)
  BY Zenon DEF Shelf!UpTo, UpTo
<1>2. QED BY <1>1, Zenon DEF Shelf!Parked, Parked, Shelf!Left, Left, Shelf!Least, Least

\* Types of what the locks are about. The quantities in the layers are typed further down:
\* the argument about locks does not need them.
Typed ==
  /\ level \in [Branches -> Int]
  /\ layers = [n \in Layer |-> layers[n]]
  /\ clock \in Nat
  /\ levelLock \in [Branches -> Requests \cup {Nobody}]
  /\ layerLock \in [Layer -> Requests \cup {Nobody}]
  /\ pc \in [Requests -> Points]
  /\ job \in [Requests -> Job \cup {NoJob}]
  /\ found \in [Requests -> SUBSET Layer]
  /\ seenLayers = [r \in Requests |-> seenLayers[r]]
  /\ seenLevel \in [Requests -> Int]
  /\ newLayer \in [Requests -> Nat]
  /\ \A r \in Requests : pc[r] # "idle" =>
       /\ job[r] \in Job
       /\ job[r].op = "adjust" => job[r].qty \in Changes
       /\ job[r].op # "adjust" => job[r].qty \in Quantities
  /\ \A r \in Requests : pc[r] \in {"find", "layers"} => Draws(r)

\* A request holds the locks of the rows it has read, and only those.
LocksOf(r) ==
  /\ \A b \in Branches : levelLock[b] = r => pc[r] = "commit" /\ job[r].branch = b
  /\ \A n \in Layer : layerLock[n] = r =>
       n \in found[r] /\ pc[r] \in {"level", "commit"} /\ Draws(r)

\* Under its locks, what it read is what is there.
ReadOf(r) ==
  /\ pc[r] = "commit" =>
       /\ levelLock[job[r].branch] = r
       /\ seenLevel[r] = level[job[r].branch]
       /\ Accepted(r, seenLevel[r])
  /\ pc[r] \in {"level", "commit"} /\ Draws(r) =>
       /\ \A n \in found[r] : layerLock[n] = r
       /\ seenLayers[r] = Listed(r)
       /\ Parked(seenLayers[r], MaxRequests) >= job[r].qty

\* A layer being created is nobody else's.
NewOf(r) ==
  /\ newLayer[r] <= clock
  /\ pc[r] = "commit" /\ job[r].op = "park" =>
       /\ newLayer[r] \in Layer
       /\ layers[newLayer[r]] = 0
       /\ \A q \in Requests : newLayer[r] \notin found[q] /\ (q # r => newLayer[q] # newLayer[r])

LockInv ==
  /\ Typed
  /\ \A n \in Layer : n > clock => layers[n] = 0 /\ \A r \in Requests : n \notin found[r]
  /\ \A r \in Requests : LocksOf(r) /\ ReadOf(r) /\ NewOf(r)

LEMMA InitLocked == Init => LockInv
<1> SUFFICES ASSUME Init PROVE LockInv
  OBVIOUS
<1>1. Typed
  BY StorageConstants DEF Init, Typed, NoLayers, Points
<1>2. \A r \in Requests : LocksOf(r) /\ ReadOf(r) /\ NewOf(r)
  BY StorageConstants DEF Init, LocksOf, ReadOf, NewOf
<1>3. \A n \in Layer : n > clock => layers[n] = 0 /\ \A r \in Requests : n \notin found[r]
  BY DEF Init, NoLayers
<1>4. QED BY <1>1, <1>2, <1>3 DEF LockInv

\* A request changes nothing of another request's memory.
LEMMA Local ==
  ASSUME LockInv, NEW r \in Requests, Begins(r) \/ Step(r) \/ Rollback(r),
         NEW q \in Requests, q # r
  PROVE  /\ pc'[q] = pc[q] /\ job'[q] = job[q] /\ found'[q] = found[q]
         /\ seenLayers'[q] = seenLayers[q] /\ seenLevel'[q] = seenLevel[q]
         /\ newLayer'[q] = newLayer[q]
<1>1. Typed
  BY DEF LockInv
<1>2. CASE Begins(r)
  BY <1>1, <1>2 DEF Begins, Begin, Typed
<1>3. CASE Rollback(r) \/ NotEnoughParked(r) \/ NotAccepted(r) \/ Commit(r)
  BY <1>1, <1>3 DEF Rollback, NotEnoughParked, NotAccepted, Refused, Commit, Ended, Typed
<1>4. CASE Find(r) \/ LockLayers(r) \/ LockLevel(r)
  BY <1>1, <1>4 DEF Find, LockLayers, LockLevel, Typed
<1>5. QED BY <1>2, <1>3, <1>4 DEF Step

LEMMA BeginsLocked ==
  ASSUME LockInv, NEW r \in Requests, Begins(r)
  PROVE  LockInv'
<1>1. PICK op \in Ops, b \in Branches, qty \in Quantities \cup Changes :
        /\ Begin(r, op, b, qty)
        /\ op = "adjust" => qty \in Changes
        /\ op # "adjust" => qty \in Quantities
  BY DEF Begins, Ops
<1>2. /\ pc[r] = "idle" /\ pc'[r] \in {"find", "level"}
      /\ pc'[r] = "find" <=> op \in {"retrieve", "write_off"}
      /\ job'[r] = [op |-> op, branch |-> b, qty |-> qty]
      /\ UNCHANGED <<level, layers, clock, levelLock, layerLock, found, seenLayers, seenLevel, newLayer>>
  BY <1>1 DEF Begin, LockInv, Typed, dbVars, lockVars
<1>3. [op |-> op, branch |-> b, qty |-> qty] \in Job
  BY DEF Job
<1>4. Typed'
  <2>1. pc' \in [Requests -> Points] /\ job' \in [Requests -> Job \cup {NoJob}]
    BY <1>1, <1>3 DEF Begin, LockInv, Typed, Points
  <2>2. \A q \in Requests : pc'[q] # "idle" =>
          /\ job'[q] \in Job
          /\ job'[q].op = "adjust" => job'[q].qty \in Changes
          /\ job'[q].op # "adjust" => job'[q].qty \in Quantities
    BY <1>1, <1>2, <1>3, Local DEF LockInv, Typed
  <2>3. \A q \in Requests : pc'[q] \in {"find", "layers"} => Draws(q)'
    BY <1>2, Local DEF LockInv, Typed, Draws
  <2>4. QED BY <1>2, <2>1, <2>2, <2>3 DEF LockInv, Typed
<1>5. LocksOf(r)' /\ ReadOf(r)' /\ NewOf(r)'
  <2>1. LocksOf(r) /\ NewOf(r)
    BY DEF LockInv
  <2>2. QED BY <1>2, <2>1 DEF LocksOf, ReadOf, NewOf, Draws
<1>6. \A q \in Requests \ {r} : LocksOf(q)' /\ ReadOf(q)' /\ NewOf(q)'
  BY <1>2, Local DEF LockInv, LocksOf, ReadOf, NewOf, Draws, Listed, Accepted
<1>7. QED BY <1>2, <1>4, <1>5, <1>6 DEF LockInv

\* The end of a transaction, whatever it wrote to rows it had locked.
LEMMA EndedLocked ==
  ASSUME LockInv, NEW r \in Requests, Ended(r), UNCHANGED clock,
         Begins(r) \/ Step(r) \/ Rollback(r),
         level' \in [Branches -> Int], layers' = [n \in Layer |-> layers'[n]],
         \A b \in Branches : levelLock[b] # r => level'[b] = level[b],
         \A n \in Layer : layers'[n] # layers[n] =>
           layerLock[n] = r \/ (pc[r] = "commit" /\ job[r].op = "park" /\ n = newLayer[r])
  PROVE  LockInv'
<1>0. Typed /\ LocksOf(r) /\ NewOf(r) /\ \A q \in Requests : LocksOf(q) /\ ReadOf(q) /\ NewOf(q)
  BY DEF LockInv
<1>1. /\ pc'[r] = "idle" /\ found'[r] = {} /\ newLayer'[r] = 0
      /\ \A b \in Branches : levelLock'[b] = IF levelLock[b] = r THEN Nobody ELSE levelLock[b]
      /\ \A n \in Layer : layerLock'[n] = IF layerLock[n] = r THEN Nobody ELSE layerLock[n]
  BY <1>0 DEF Ended, Typed
<1>2. Typed'
  <2>1. /\ pc' \in [Requests -> Points] /\ job' \in [Requests -> Job \cup {NoJob}]
        /\ found' \in [Requests -> SUBSET Layer] /\ newLayer' \in [Requests -> Nat]
        /\ seenLevel' \in [Requests -> Int] /\ clock' \in Nat
    BY <1>0 DEF Ended, Typed, Points
  <2>2. seenLayers' = [q \in Requests |-> seenLayers'[q]]
    BY <1>0 DEF Ended, Typed
  <2>3. /\ levelLock' \in [Branches -> Requests \cup {Nobody}]
        /\ layerLock' \in [Layer -> Requests \cup {Nobody}]
    BY <1>0 DEF Ended, Typed
  <2>4. \A q \in Requests : pc'[q] # "idle" =>
          /\ job'[q] \in Job
          /\ job'[q].op = "adjust" => job'[q].qty \in Changes
          /\ job'[q].op # "adjust" => job'[q].qty \in Quantities
    BY <1>0, <1>1, Local DEF Typed
  <2>5. \A q \in Requests : pc'[q] \in {"find", "layers"} => Draws(q)'
    BY <1>0, <1>1, Local DEF Typed, Draws
  <2>6. QED BY <2>1, <2>2, <2>3, <2>4, <2>5 DEF Typed
<1>3. LocksOf(r)' /\ ReadOf(r)' /\ NewOf(r)'
  BY <1>0, <1>1, StorageConstants DEF LocksOf, ReadOf, NewOf, Typed
<1>4. ASSUME NEW q \in Requests \ {r}
      PROVE  LocksOf(q)' /\ ReadOf(q)' /\ NewOf(q)'
  <2>1. /\ pc'[q] = pc[q] /\ job'[q] = job[q] /\ found'[q] = found[q]
        /\ seenLayers'[q] = seenLayers[q] /\ seenLevel'[q] = seenLevel[q]
        /\ newLayer'[q] = newLayer[q]
    BY Local
  <2>2. LocksOf(q)'
    BY <1>0, <1>1, <2>1, StorageConstants DEF LocksOf, Draws
  <2>3. pc[q] # "idle" => job[q].branch \in Branches /\ found[q] \subseteq Layer
    BY <1>0 DEF Typed, Job
  <2>4. pc[q] \in {"level", "commit"} /\ Draws(q) => \A n \in found[q] : layers'[n] = layers[n]
    <3> SUFFICES ASSUME pc[q] \in {"level", "commit"}, Draws(q), NEW n \in found[q]
                 PROVE  layers'[n] = layers[n]
      OBVIOUS
    <3>1. n \in Layer /\ layerLock[n] = q
      BY <1>0 DEF ReadOf, Typed
    <3>2. pc[r] = "commit" /\ job[r].op = "park" => n # newLayer[r]
      BY <1>0 DEF NewOf
    <3>3. QED BY <3>1, <3>2
  <2>5. pc[q] \in {"level", "commit"} /\ Draws(q) => Listed(q)' = Listed(q)
    BY <2>1, <2>4 DEF Listed
  <2>6. ReadOf(q)'
    BY <1>0, <1>1, <2>1, <2>3, <2>5 DEF ReadOf, Draws, Accepted
  <2>7. NewOf(q)'
    <3>1. ASSUME pc[q] = "commit", job[q].op = "park"
          PROVE  layers'[newLayer[q]] = 0
      BY <1>0, <2>1, <3>1 DEF NewOf, LocksOf
    <3>2. newLayer'[q] <= clock'
      BY <1>0, <2>1 DEF NewOf
    <3>3. ASSUME pc[q] = "commit", job[q].op = "park", NEW p \in Requests
          PROVE  newLayer[q] \notin found'[p] /\ (p # q => newLayer'[p] # newLayer[q])
      <4>1. newLayer[q] \in Layer /\ newLayer[q] # 0
        BY <1>0, <3>3 DEF NewOf, Layer
      <4>2. CASE p = r
        BY <1>1, <4>1, <4>2
      <4>3. CASE p # r
        <5>1. found'[p] = found[p] /\ newLayer'[p] = newLayer[p]
          BY <4>3, Local
        <5>2. QED BY <1>0, <3>3, <5>1 DEF NewOf
      <4>4. QED BY <4>2, <4>3
    <3>4. QED BY <1>0, <2>1, <3>1, <3>2, <3>3 DEF NewOf
  <2>8. QED BY <2>2, <2>6, <2>7
<1>5. \A n \in Layer : n > clock' => layers'[n] = 0 /\ \A q \in Requests : n \notin found'[q]
  <2>1. ASSUME NEW n \in Layer, n > clock PROVE layers'[n] = layers[n]
    BY <1>0, <2>1 DEF LockInv, LocksOf, NewOf, Typed
  <2>2. QED BY <1>1, <2>1, Local DEF LockInv
<1>6. QED BY <1>2, <1>3, <1>4, <1>5 DEF LockInv

LEMMA RollbackLocked ==
  ASSUME LockInv, NEW r \in Requests, Rollback(r)
  PROVE  LockInv'
BY EndedLocked DEF Rollback, dbVars, LockInv, Typed

LEMMA FindLocked ==
  ASSUME LockInv, NEW r \in Requests, Find(r)
  PROVE  LockInv'
<1>0. Typed /\ \A q \in Requests : LocksOf(q) /\ ReadOf(q) /\ NewOf(q)
  BY DEF LockInv
<1>1. /\ pc[r] = "find" /\ pc'[r] = "layers" /\ Draws(r)
      /\ found'[r] = {n \in Layer : layers[n] > 0}
      /\ pc' \in [Requests -> Points] /\ found' \in [Requests -> SUBSET Layer]
      /\ UNCHANGED <<level, layers, clock, levelLock, layerLock, job, seenLayers, seenLevel, newLayer>>
  BY <1>0 DEF Find, Typed, Points, dbVars, lockVars
<1>2. \A q \in Requests \ {r} : pc'[q] = pc[q] /\ found'[q] = found[q]
  BY Local DEF Step
<1>3. Typed'
  BY <1>0, <1>1, <1>2 DEF Typed, Draws
<1>4. \A n \in Layer : n > clock' => layers'[n] = 0 /\ \A q \in Requests : n \notin found'[q]
  BY <1>1, <1>2 DEF LockInv
<1>5. \A q \in Requests : LocksOf(q)'
  BY <1>0, <1>1, <1>2 DEF LocksOf, Draws
<1>6. \A q \in Requests : ReadOf(q)'
  BY <1>0, <1>1, <1>2 DEF ReadOf, Draws, Accepted, Listed
<1>7. \A q \in Requests : NewOf(q)'
  <2>1. ASSUME NEW q \in Requests, pc'[q] = "commit", job[q].op = "park", NEW p \in Requests
        PROVE  newLayer[q] \notin found'[p]
    BY <1>0, <1>1, <1>2, <2>1 DEF NewOf
  <2>2. QED BY <1>0, <1>1, <1>2, <2>1 DEF NewOf
<1>8. QED BY <1>3, <1>4, <1>5, <1>6, <1>7 DEF LockInv

LEMMA LockLayersLocked ==
  ASSUME LockInv, NEW r \in Requests, LockLayers(r)
  PROVE  LockInv'
<1>0. Typed /\ \A q \in Requests : LocksOf(q) /\ ReadOf(q) /\ NewOf(q)
  BY DEF LockInv
<1>1. /\ pc[r] = "layers" /\ pc'[r] = "level" /\ Draws(r)
      /\ seenLayers'[r] = Listed(r)
      /\ Parked(Listed(r), MaxRequests) >= job[r].qty
      /\ \A n \in found[r] : layerLock[n] \in {r, Nobody}
      /\ \A n \in Layer : layerLock'[n] = IF n \in found[r] THEN r ELSE layerLock[n]
      /\ UNCHANGED <<level, layers, clock, levelLock, job, found, seenLevel, newLayer>>
  BY <1>0 DEF LockLayers, CanLockLayers, Typed, dbVars
<1>2. \A q \in Requests \ {r} : pc'[q] = pc[q] /\ seenLayers'[q] = seenLayers[q]
  BY Local DEF Step
<1>3. Typed'
  <2>1. /\ pc' \in [Requests -> Points]
        /\ seenLayers' = [q \in Requests |-> seenLayers'[q]]
        /\ layerLock' \in [Layer -> Requests \cup {Nobody}]
    BY <1>0 DEF LockLayers, Typed, Points
  <2>2. QED BY <1>0, <1>1, <1>2, <2>1 DEF Typed, Draws
<1>4. LocksOf(r)' /\ ReadOf(r)' /\ NewOf(r)'
  <2>1. LocksOf(r)' /\ NewOf(r)'
    BY <1>0, <1>1 DEF LocksOf, NewOf, Draws
  <2>2. found[r] \subseteq Layer /\ Listed(r)' = Listed(r)
    BY <1>0, <1>1 DEF Typed, Listed
  <2>3. QED BY <1>1, <2>1, <2>2 DEF ReadOf
<1>5. ASSUME NEW q \in Requests \ {r}
      PROVE  LocksOf(q)' /\ ReadOf(q)' /\ NewOf(q)'
  <2>1. LocksOf(q)' /\ NewOf(q)'
    BY <1>0, <1>1, <1>2 DEF LocksOf, NewOf, Draws
  <2>2. pc[q] \in {"level", "commit"} /\ Draws(q) => \A n \in found[q] : layerLock'[n] = q
    BY <1>0, <1>1, StorageConstants DEF ReadOf, Typed
  <2>3. Listed(q)' = Listed(q) /\ Draws(q)' = Draws(q)
    BY <1>1 DEF Listed, Draws
  <2>4. ReadOf(q)'
    BY <1>0, <1>1, <1>2, <2>2, <2>3 DEF ReadOf, Accepted
  <2>5. QED BY <2>1, <2>4
<1>6. QED BY <1>1, <1>3, <1>4, <1>5 DEF LockInv

LEMMA LockLevelLocked ==
  ASSUME LockInv, NEW r \in Requests, LockLevel(r)
  PROVE  LockInv'
<1>0. Typed /\ \A q \in Requests : LocksOf(q) /\ ReadOf(q) /\ NewOf(q)
  BY DEF LockInv
<1>1. /\ pc[r] = "level" /\ pc'[r] = "commit" /\ job[r] \in Job /\ job[r].branch \in Branches
      /\ levelLock[job[r].branch] \in {r, Nobody}
      /\ levelLock'[job[r].branch] = r
      /\ \A b \in Branches \ {job[r].branch} : levelLock'[b] = levelLock[b]
      /\ seenLevel'[r] = level[job[r].branch]
      /\ Accepted(r, level[job[r].branch])
      /\ UNCHANGED <<level, layers, layerLock, job, found, seenLayers>>
  BY <1>0 DEF LockLevel, CanLockLevel, Typed, dbVars, Job
<1>2. \A q \in Requests \ {r} : pc'[q] = pc[q] /\ seenLevel'[q] = seenLevel[q] /\ newLayer'[q] = newLayer[q]
  BY Local DEF Step
<1>3. \/ /\ job[r].op = "park" /\ clock < MaxRequests
         /\ clock' = clock + 1 /\ newLayer'[r] = clock + 1
      \/ job[r].op # "park" /\ clock' = clock /\ newLayer' = newLayer
  BY <1>0 DEF LockLevel, Typed
<1>4. Typed'
  <2>1. /\ pc' \in [Requests -> Points]
        /\ seenLevel' \in [Requests -> Int]
        /\ newLayer' \in [Requests -> Nat]
        /\ clock' \in Nat
        /\ levelLock' \in [Branches -> Requests \cup {Nobody}]
    BY <1>0, <1>1 DEF LockLevel, Typed, Points
  <2>2. QED BY <1>0, <1>1, <1>2, <2>1 DEF Typed, Draws
<1>5. \A n \in Layer : n > clock' => layers'[n] = 0 /\ \A q \in Requests : n \notin found'[q]
  BY <1>0, <1>1, <1>3 DEF LockInv, Layer, Typed
<1>6. \A q \in Requests : Draws(q)' = Draws(q) /\ Listed(q)' = Listed(q)
  BY <1>1 DEF Draws, Listed
<1>7. \A q \in Requests : LocksOf(q)'
  BY <1>0, <1>1, <1>2, <1>6 DEF LocksOf
<1>8. ReadOf(r)'
  <2>1. Accepted(r, seenLevel[r])'
    BY <1>1 DEF Accepted
  <2>2. QED BY <1>0, <1>1, <1>6, <2>1 DEF ReadOf
<1>9. \A q \in Requests \ {r} : ReadOf(q)'
  <2> SUFFICES ASSUME NEW q \in Requests \ {r} PROVE ReadOf(q)'
    OBVIOUS
  <2>1. pc[q] = "commit" => job[q].branch \in Branches /\ job[q].branch # job[r].branch
    BY <1>0, <1>1, StorageConstants DEF ReadOf, Typed, Job
  <2>2. QED BY <1>0, <1>1, <1>2, <1>6, <2>1 DEF ReadOf, Accepted
<1>10. \A q \in Requests : newLayer[q] <= clock /\ newLayer[q] \in Nat /\ clock \in Nat
  BY <1>0 DEF NewOf, Typed
<1>11. NewOf(r)'
  <2>1. CASE job[r].op = "park"
    <3>1. clock + 1 \in Layer /\ clock + 1 > clock
      BY <1>3, <1>10, <2>1, StorageConstants DEF Layer
    <3>2. layers[clock + 1] = 0 /\ \A q \in Requests : clock + 1 \notin found[q]
      BY <3>1 DEF LockInv
    <3>3. \A q \in Requests : q # r => newLayer'[q] # clock + 1
      BY <1>2, <1>10
    <3>4. QED BY <1>1, <1>3, <1>10, <2>1, <3>1, <3>2, <3>3 DEF NewOf
  <2>2. CASE job[r].op # "park"
    BY <1>0, <1>1, <1>3, <2>2 DEF NewOf
  <2>3. QED BY <2>1, <2>2
<1>12. \A q \in Requests \ {r} : NewOf(q)'
  BY <1>0, <1>1, <1>2, <1>3, <1>10 DEF NewOf
<1>13. QED BY <1>4, <1>5, <1>7, <1>8, <1>9, <1>11, <1>12 DEF LockInv

\* What a request about to commit knows.
LEMMA AtCommit ==
  ASSUME LockInv, NEW r \in Requests, pc[r] = "commit"
  PROVE  /\ job[r] \in Job /\ job[r].branch \in Branches /\ job[r].qty \in Int
         /\ job[r].op \in Ops
         /\ job[r].op = "adjust" => job[r].qty \in Changes
         /\ job[r].op # "adjust" => job[r].qty \in Quantities
         /\ levelLock[job[r].branch] = r
         /\ seenLevel[r] = level[job[r].branch] /\ level[job[r].branch] \in Int
         /\ Accepted(r, seenLevel[r])
         /\ Draws(r) => /\ seenLayers[r] = Listed(r)
                        /\ Parked(seenLayers[r], MaxRequests) >= job[r].qty
                        /\ found[r] \subseteq Layer
                        /\ \A n \in found[r] : layerLock[n] = r
         /\ job[r].op = "park" => newLayer[r] \in Layer /\ layers[newLayer[r]] = 0
<1>1. Typed /\ ReadOf(r) /\ NewOf(r)
  BY DEF LockInv
<1>2. job[r] \in Job /\ job[r].branch \in Branches /\ job[r].qty \in Int /\ job[r].op \in Ops
  BY <1>1, StorageConstants DEF Typed, Job
<1>3. QED BY <1>1, <1>2 DEF ReadOf, NewOf, Typed

LEMMA CommitLocked ==
  ASSUME LockInv, NEW r \in Requests, Commit(r)
  PROVE  LockInv'
<1>0. Typed /\ pc[r] = "commit"
  BY DEF LockInv, Commit
<1>1. Delta(r) \in Int
  BY <1>0, AtCommit DEF Delta, Ops
<1>2. level' \in [Branches -> Int] /\ \A b \in Branches : levelLock[b] # r => level'[b] = level[b]
  <2>1. /\ level' = [level EXCEPT ![job[r].branch] = seenLevel[r] + Delta(r)]
        /\ level \in [Branches -> Int]
    BY <1>0 DEF Commit, Typed
  <2>2. seenLevel[r] + Delta(r) \in Int /\ levelLock[job[r].branch] = r
    BY <1>0, <1>1, AtCommit
  <2>3. QED BY <2>1, <2>2
<1>3. layers' = LayersAfter(r) /\ layers = [n \in Layer |-> layers[n]]
  BY <1>0 DEF Commit, Typed
<1>4. CASE job[r].op = "park"
  <2>1. layers' = [layers EXCEPT ![newLayer[r]] = job[r].qty]
    BY <1>3, <1>4, Zenon DEF LayersAfter, Draws
  <2>2. /\ layers' = [n \in Layer |-> layers'[n]]
        /\ \A n \in Layer : layers'[n] # layers[n] => n = newLayer[r]
    BY <1>3, <2>1
  <2>3. QED BY <1>0, <1>2, <1>4, <2>2, EndedLocked DEF Commit, Step
<1>5. CASE Draws(r)
  <2>1. layers' = [n \in Layer |->
          IF seenLayers[r][n] # 0
            THEN Left(seenLayers[r], MaxRequests, job[r].qty)[n] ELSE layers[n]]
    BY <1>3, <1>5 DEF LayersAfter, Draws
  <2>2. \A n \in Layer : seenLayers[r][n] # 0 => layerLock[n] = r
    <3>1. seenLayers[r] = Listed(r) /\ \A n \in found[r] : layerLock[n] = r
      BY <1>0, <1>5, AtCommit
    <3>2. QED BY <3>1 DEF Listed
  <2>3. /\ layers' = [n \in Layer |-> layers'[n]]
        /\ \A n \in Layer : layers'[n] # layers[n] => layerLock[n] = r
    BY <2>1, <2>2
  <2>4. QED BY <1>0, <1>2, <2>3, EndedLocked DEF Commit, Step
<1>6. CASE job[r].op # "park" /\ ~Draws(r)
  <2>1. layers' = layers
    BY <1>3, <1>6 DEF LayersAfter, Draws
  <2>2. QED BY <1>0, <1>2, <1>3, <2>1, EndedLocked DEF Commit, Step
<1>7. QED BY <1>4, <1>5, <1>6

\* The rest of the state is not what the locks are about.
LEMMA ElsewhereLocked ==
  ASSUME LockInv, UNCHANGED <<level, layers, clock, lockVars, localVars>>
  PROVE  LockInv'
<1>1. UNCHANGED <<level, layers, clock, levelLock, layerLock, pc, job, found, seenLayers,
                  seenLevel, newLayer>>
  BY DEF lockVars, localVars
<1>2. Typed'
  BY <1>1 DEF LockInv, Typed, Draws
<1>3. \A q \in Requests : LocksOf(q)' /\ ReadOf(q)' /\ NewOf(q)'
  BY <1>1 DEF LockInv, LocksOf, ReadOf, NewOf, Draws, Listed, Accepted
<1>4. QED BY <1>1, <1>2, <1>3 DEF LockInv

LEMMA LockStep == LockInv /\ [Next]_vars => LockInv'
<1> SUFFICES ASSUME LockInv, [Next]_vars PROVE LockInv'
  OBVIOUS
<1>1. CASE UNCHANGED vars
  BY <1>1, ElsewhereLocked DEF vars, dbVars
<1>2. CASE Trash \/ Restore
  BY <1>2, ElsewhereLocked DEF Trash, Restore
<1>3. ASSUME NEW r \in Requests, Begins(r) \/ Step(r) \/ Fail(r)
      PROVE  LockInv'
  <2>1. CASE Begins(r)
    BY <2>1, BeginsLocked
  <2>2. CASE Fail(r) \/ NotEnoughParked(r) \/ NotAccepted(r)
    BY <2>2, RollbackLocked DEF Fail, NotEnoughParked, NotAccepted, Refused
  <2>3. CASE Find(r)
    BY <2>3, FindLocked
  <2>4. CASE LockLayers(r)
    BY <2>4, LockLayersLocked
  <2>5. CASE LockLevel(r)
    BY <2>5, LockLevelLocked
  <2>6. CASE Commit(r)
    BY <2>6, CommitLocked
  <2>7. QED BY <1>3, <2>1, <2>2, <2>3, <2>4, <2>5, <2>6 DEF Step
<1>4. QED BY <1>1, <1>2, <1>3 DEF Next

\* In every state, a request that is about to write holds the locks of the rows it writes,
\* what it read of them is still what is there, and a layer it creates is nobody else's.
THEOREM Locked == Spec => []LockInv
<1>1. QED BY InitLocked, LockStep, PTL DEF Spec

\* A commit is one operation of the abstract specification.
LEMMA CommitRefines ==
  ASSUME LockInv, NEW r \in Requests, Commit(r)
  PROVE  Shelf!Next
<1> DEFINE b == job[r].branch
           qty == job[r].qty
           S == {n \in Layer : seenLayers[r][n] # 0}
<1>0. Typed /\ pc[r] = "commit"
  BY DEF LockInv, Commit
<1>1. /\ b \in Branches /\ qty \in Int /\ job[r].op \in Ops
      /\ seenLevel[r] = level[b] /\ level[b] \in Int
      /\ Accepted(r, level[b])
      /\ job[r].op = "adjust" => qty \in Changes
      /\ job[r].op # "adjust" => qty \in Quantities
  BY <1>0, AtCommit
<1>2. /\ level' = [level EXCEPT ![b] = level[b] + Delta(r)]
      /\ layers' = LayersAfter(r)
      /\ level = [c \in Branches |-> level[c]]
      /\ layers = [n \in Layer |-> layers[n]]
  BY <1>0, <1>1 DEF Commit, Typed
<1>3. CASE job[r].op = "park"
  <2>1. newLayer[r] \in 1..MaxRequests /\ layers[newLayer[r]] = 0
    BY <1>0, <1>3, AtCommit DEF Layer
  <2>2. level[b] >= qty
    BY <1>1, <1>3 DEF Accepted
  <2>3. Shelf!Put(b, -qty)
    BY <1>1, <1>2, <1>3 DEF Shelf!Put, Delta
  <2>4. layers' = [layers EXCEPT ![newLayer[r]] = qty]
    BY <1>2, <1>3, Zenon DEF LayersAfter, Draws
  <2>5. Shelf!Park(b, qty, newLayer[r])
    BY <2>1, <2>2, <2>3, <2>4 DEF Shelf!Park
  <2>6. qty \in Quantities
    BY <1>1, <1>3
  <2>7. QED BY <1>1, <2>1, <2>5, <2>6 DEF Shelf!Next
<1>4. CASE Draws(r)
  <2>1. /\ seenLayers[r] = Listed(r)
        /\ Parked(seenLayers[r], MaxRequests) >= qty
        /\ qty \in Quantities
    BY <1>0, <1>1, <1>4, AtCommit DEF Draws
  <2>2. Shelf!Only(S) = seenLayers[r]
    <3>1. \A n \in Layer : seenLayers[r][n] = IF n \in found[r] THEN layers[n] ELSE 0
      BY <2>1 DEF Listed
    <3>2. seenLayers[r] = [n \in Layer |-> seenLayers[r][n]]
      BY <2>1 DEF Listed
    <3>3. \A n \in Layer : seenLayers[r][n] = IF n \in S THEN layers[n] ELSE 0
      BY <3>1
    <3>4. seenLayers[r] = [n \in Layer |-> IF n \in S THEN layers[n] ELSE 0]
      BY <3>2, <3>3
    <3>5. QED BY <3>4 DEF Shelf!Only, Layer
  <2>3. S \in SUBSET {n \in 1..MaxRequests : layers[n] # 0}
    BY <2>1 DEF Listed, Layer
  <2>4. Shelf!Draw(S, qty)
    <3>1. layers' = [n \in Layer |->
            IF seenLayers[r][n] # 0
              THEN Left(seenLayers[r], MaxRequests, qty)[n] ELSE layers[n]]
      BY <1>2, <1>4 DEF LayersAfter, Draws
    <3>2. layers' = [n \in Layer |->
            IF n \in S THEN Left(seenLayers[r], MaxRequests, qty)[n] ELSE layers[n]]
      BY <3>1
    <3>3. layers' = [n \in 1..MaxRequests |->
            IF n \in S THEN Shelf!Left(seenLayers[r], MaxRequests, qty)[n] ELSE layers[n]]
      BY <3>2, SameLayers DEF Layer
    <3>4. Shelf!Parked(seenLayers[r], MaxRequests) >= qty
      BY <2>1, SameLayers
    <3>5. QED BY <2>2, <3>3, <3>4, Zenon DEF Shelf!Draw
  <2>5. CASE job[r].op = "retrieve"
    <3>1. Shelf!Put(b, qty)
      BY <1>1, <1>2, <2>5 DEF Shelf!Put, Delta
    <3>2. Shelf!Retrieve(b, qty, S)
      BY <2>4, <3>1 DEF Shelf!Retrieve
    <3>3. QED BY <1>1, <2>1, <2>3, <3>2, Zenon DEF Shelf!Next
  <2>6. CASE job[r].op = "write_off"
    <3>1. level' = level
      BY <1>1, <1>2, <2>6 DEF Delta
    <3>2. level[b] >= 0 \/ AllowNegative
      BY <1>1, <2>6 DEF Accepted
    <3>3. Shelf!WriteOff(b, qty, S)
      BY <2>4, <3>1, <3>2, Zenon DEF Shelf!WriteOff
    <3>4. QED BY <1>1, <2>1, <2>3, <3>3, Zenon DEF Shelf!Next
  <2>7. QED BY <1>4, <2>5, <2>6 DEF Draws
<1>5. CASE job[r].op = "adjust"
  <2>1. layers' = layers
    BY <1>2, <1>5 DEF LayersAfter, Draws
  <2>2. Shelf!Put(b, qty)
    BY <1>1, <1>2, <1>5 DEF Shelf!Put, Delta
  <2>3. level[b] + qty >= 0 \/ AllowNegative
    BY <1>1, <1>5 DEF Accepted
  <2>4. Shelf!Adjust(b, qty)
    BY <2>1, <2>2, <2>3 DEF Shelf!Adjust
  <2>5. QED BY <1>1, <1>5, <2>4, Zenon DEF Shelf!Next
<1>6. QED BY <1>1, <1>3, <1>4, <1>5 DEF Ops, Draws

LEMMA StepRefines == LockInv /\ [Next]_vars => [Shelf!Next]_(Shelf!shelfVars)
<1> SUFFICES ASSUME LockInv, [Next]_vars
             PROVE  Shelf!Next \/ UNCHANGED <<level, layers>>
  BY DEF Shelf!shelfVars
<1>1. CASE UNCHANGED vars \/ Trash \/ Restore
  BY <1>1 DEF vars, dbVars, Trash, Restore
<1>2. ASSUME NEW r \in Requests, Begins(r) \/ Step(r) \/ Fail(r)
      PROVE  Shelf!Next \/ UNCHANGED <<level, layers>>
  <2>1. CASE Begins(r)
    BY <2>1 DEF Begins, Begin, dbVars
  <2>2. CASE Fail(r) \/ NotEnoughParked(r) \/ NotAccepted(r)
    BY <2>2 DEF Fail, NotEnoughParked, NotAccepted, Refused, Rollback, dbVars
  <2>3. CASE Find(r) \/ LockLayers(r) \/ LockLevel(r)
    BY <2>3 DEF Find, LockLayers, LockLevel, dbVars
  <2>4. CASE Commit(r)
    BY <2>4, CommitRefines
  <2>5. QED BY <1>2, <2>1, <2>2, <2>3, <2>4 DEF Step
<1>3. QED BY <1>1, <1>2 DEF Next

\* However the transactions of concurrent requests interleave, crash and are refused, what
\* the database holds of branches and layers evolves as if each operation were done at once.
THEOREM Refinement == Spec => AsIfAtOnce
<1>1. Init => Shelf!Init
  BY DEF Init, Shelf!Init, NoLayers, Layer
<1>2. QED BY <1>1, Locked, StepRefines, PTL DEF Spec, AsIfAtOnce, Shelf!Spec

LEMMA ParkStep == LockInv /\ [Next]_vars => [ParkedFromStock]_vars
<1> SUFFICES ASSUME LockInv, [Next]_vars, NEW r \in Requests,
                    pc[r] = "commit", pc'[r] = "idle", job[r].op = "park", layers' # layers
             PROVE  level'[job[r].branch] >= 0
  BY DEF ParkedFromStock
<1>1. Commit(r)
  <2>1. PICK q \in Requests : Commit(q)
    BY DEF Next, Begins, Begin, Step, Find, LockLayers, NotEnoughParked, LockLevel, NotAccepted,
           Refused, Fail, Rollback, Trash, Restore, vars, dbVars
  <2>2. q # r => pc'[r] = pc[r]
    BY <2>1, Local DEF Step
  <2>3. QED BY <2>1, <2>2
<1>2. /\ job[r].branch \in Branches /\ job[r].qty \in Int
      /\ seenLevel[r] = level[job[r].branch] /\ level[job[r].branch] \in Int
      /\ Accepted(r, level[job[r].branch])
  BY AtCommit
<1>3. level[job[r].branch] >= job[r].qty
  BY <1>2 DEF Accepted
<1>4. level'[job[r].branch] = level[job[r].branch] - job[r].qty
  BY <1>1, <1>2 DEF Commit, Delta, LockInv, Typed
<1>5. QED BY <1>2, <1>3, <1>4

\* Parking leaves the branch at zero or above in every interleaving: the check and the
\* write of move_to_storage are under one lock.
THEOREM ParkSafety == Spec => NeverParksWhatIsNotThere
<1>1. QED BY Locked, ParkStep, PTL DEF Spec, NeverParksWhatIsNotThere

----------------------------------------------------------------------------
(* Quantities *)

\* What a request listed is natural, as the layers are.
Quantified ==
  /\ layers \in [Layer -> Nat]
  /\ seenLayers \in [Requests -> [Layer -> Nat]]
  /\ open \in BOOLEAN /\ clock \in 0..MaxRequests /\ served \in 0..MaxRequests
  /\ newLayer \in [Requests -> 0..MaxRequests]
  /\ adjusted \in Int

StorageInv == LockInv /\ Quantified

\* What a draw takes leaves every layer a natural, and empties the older ones first.
LEMMA DrawnLayers ==
  ASSUME StorageInv, NEW r \in Requests, Commit(r), Draws(r)
  PROVE  LET seen == seenLayers[r]
             rest == Left(seen, MaxRequests, job[r].qty)
         IN  /\ job[r].qty \in Nat
             /\ seen \in [Layer -> Nat] /\ rest \in [Layer -> Nat]
             /\ \A n \in Layer : rest[n] <= seen[n]
             /\ \A n \in Layer : rest[n] < seen[n] => \A m \in 1..(n - 1) : rest[m] = 0
             /\ \A n \in Layer : seen[n] = IF n \in found[r] THEN layers[n] ELSE 0
             /\ layers' = [n \in Layer |-> IF seen[n] # 0 THEN rest[n] ELSE layers[n]]
             /\ Parked(seen, MaxRequests) >= job[r].qty
<1> DEFINE seen == seenLayers[r]
           rest == Left(seen, MaxRequests, job[r].qty)
<1>1. pc[r] = "commit" /\ LockInv
  BY DEF Commit, StorageInv
<1>2. /\ job[r].qty \in Nat /\ seen = Listed(r) /\ Parked(seen, MaxRequests) >= job[r].qty
  BY <1>1, AtCommit, StorageConstants DEF Draws
<1>3. seen \in [Layer -> Nat] /\ \A n \in Layer : seen[n] = IF n \in found[r] THEN layers[n] ELSE 0
  BY <1>2 DEF StorageInv, Quantified, Listed
<1>4. \A n \in 1..MaxRequests : seen[n] \in Nat
  BY <1>3 DEF Layer
<1>5. MaxRequests \in Nat
  BY StorageConstants
<1>6. /\ rest \in [1..MaxRequests -> Nat]
      /\ \A n \in 1..MaxRequests : rest[n] <= seen[n]
      /\ \A n \in 1..MaxRequests : rest[n] < seen[n] => \A m \in 1..(n - 1) : rest[m] = 0
  BY <1>2, <1>4, <1>5, LeftBounds
<1>7. layers' = [n \in Layer |-> IF seen[n] # 0 THEN rest[n] ELSE layers[n]]
  BY DEF Commit, LayersAfter, Draws
<1> QED BY <1>2, <1>3, <1>6, <1>7 DEF Layer

LEMMA QuantitiesInit == Init => Quantified
BY StorageConstants DEF Init, Quantified, NoLayers, Layer

LEMMA CommitQuantified ==
  ASSUME StorageInv, NEW r \in Requests, Commit(r)
  PROVE  Quantified'
<1>1. pc[r] = "commit" /\ LockInv /\ Quantified /\ Typed
  BY DEF Commit, StorageInv, LockInv
<1>2. job[r].qty \in Int /\ job[r].op \in Ops /\ (job[r].op # "adjust" => job[r].qty \in Nat)
  BY <1>1, AtCommit, StorageConstants
<1>3. layers' \in [Layer -> Nat]
  <2>1. CASE Draws(r)
    <3> DEFINE rest == Left(seenLayers[r], MaxRequests, job[r].qty)
    <3>1. rest \in [Layer -> Nat]
          /\ layers' = [n \in Layer |-> IF seenLayers[r][n] # 0 THEN rest[n] ELSE layers[n]]
      BY <2>1, DrawnLayers
    <3> HIDE DEF rest
    <3> QED BY <1>1, <3>1 DEF Quantified
  <2>2. CASE job[r].op = "park"
    <3>1. layers' = [layers EXCEPT ![newLayer[r]] = job[r].qty]
      BY <2>2, Zenon DEF Commit, LayersAfter, Draws
    <3> QED BY <1>1, <1>2, <2>2, <3>1 DEF Quantified
  <2>3. CASE ~Draws(r) /\ job[r].op # "park"
    <3>1. layers' = layers
      BY <2>3 DEF Commit, LayersAfter, Draws
    <3> QED BY <1>1, <3>1 DEF Quantified
  <2> QED BY <2>1, <2>2, <2>3
<1>4. /\ seenLayers' \in [Requests -> [Layer -> Nat]] /\ newLayer' \in [Requests -> 0..MaxRequests]
      /\ UNCHANGED <<open, clock, served>>
  <2>1. NoLayers \in [Layer -> Nat] /\ 0 \in 0..MaxRequests
    BY StorageConstants DEF NoLayers
  <2>2. /\ seenLayers' = [seenLayers EXCEPT ![r] = NoLayers]
        /\ newLayer' = [newLayer EXCEPT ![r] = 0]
        /\ UNCHANGED <<open, clock, served>>
    BY DEF Commit, Ended
  <2> QED BY <1>1, <2>1, <2>2 DEF Quantified
<1>5. adjusted' \in Int
  BY <1>1, <1>2 DEF Commit, Quantified
<1> QED BY <1>1, <1>3, <1>4, <1>5 DEF Quantified

LEMMA QuantitiesStep == StorageInv /\ [Next]_vars => Quantified'
<1> SUFFICES ASSUME StorageInv, [Next]_vars PROVE Quantified'
  OBVIOUS
<1>1. LockInv /\ Quantified /\ Typed
  BY DEF StorageInv, LockInv
<1>2. CASE UNCHANGED vars
  BY <1>1, <1>2 DEF vars, dbVars, localVars, Quantified
<1>3. CASE Trash \/ Restore
  BY <1>1, <1>3 DEF Trash, Restore, localVars, Quantified
<1>4. ASSUME NEW r \in Requests, Begins(r) \/ Step(r) \/ Fail(r)
      PROVE  Quantified'
  <2>1. CASE Begins(r)
    BY <1>1, <2>1, StorageConstants DEF Begins, Begin, dbVars, Quantified
  <2>2. CASE Rollback(r)
    <3>1. NoLayers \in [Layer -> Nat] /\ 0 \in 0..MaxRequests
      BY StorageConstants DEF NoLayers
    <3>2. /\ seenLayers' = [seenLayers EXCEPT ![r] = NoLayers]
          /\ newLayer' = [newLayer EXCEPT ![r] = 0]
          /\ UNCHANGED <<layers, open, clock, served, adjusted>>
      BY <2>2 DEF Rollback, Ended, dbVars
    <3> QED BY <1>1, <3>1, <3>2 DEF Quantified
  <2>3. CASE Find(r)
    BY <1>1, <2>3 DEF Find, dbVars, Quantified
  <2>4. CASE LockLayers(r)
    <3>1. Listed(r) \in [Layer -> Nat]
      BY <1>1 DEF Listed, Quantified
    <3> QED BY <1>1, <2>4, <3>1 DEF LockLayers, dbVars, Quantified
  <2>5. CASE LockLevel(r)
    BY <1>1, <2>5, StorageConstants DEF LockLevel, dbVars, Quantified
  <2>6. CASE Commit(r)
    BY <2>6, CommitQuantified
  <2> QED BY <1>4, <2>1, <2>2, <2>3, <2>4, <2>5, <2>6
          DEF Step, Fail, NotEnoughParked, NotAccepted, Refused
<1> QED BY <1>2, <1>3, <1>4 DEF Next

LEMMA StorageAlways == Spec => []StorageInv
<1>1. Init => StorageInv
  BY InitLocked, QuantitiesInit DEF StorageInv
<1>2. StorageInv /\ [Next]_vars => StorageInv'
  BY LockStep, QuantitiesStep DEF StorageInv
<1> QED BY <1>1, <1>2, PTL DEF Spec

\* No layer is ever left with less than nothing, though each draw computes what is left of a
\* layer from a list it read earlier.
THEOREM Typing == Spec => []TypeOK
<1>1. StorageInv => TypeOK
  BY DEF StorageInv, LockInv, Typed, Quantified, TypeOK
<1> QED BY <1>1, StorageAlways, PTL

LEMMA CommitConserves ==
  ASSUME StorageInv, Conserved, NEW r \in Requests, Commit(r)
  PROVE  Conserved'
<1> DEFINE b == job[r].branch
           qty == job[r].qty
           L == MaxRequests
<1>1. pc[r] = "commit" /\ LockInv /\ Quantified /\ Typed /\ Quantified'
  BY CommitQuantified DEF Commit, StorageInv, LockInv
<1>2. /\ b \in Branches /\ qty \in Int /\ job[r].op \in Ops /\ level[b] \in Int
      /\ seenLevel[r] = level[b] /\ (job[r].op # "adjust" => qty \in Nat)
  BY <1>1, AtCommit, StorageConstants
<1>3. Delta(r) \in Int
  BY <1>2 DEF Delta, Ops
<1>4. SumFunction(level') = SumFunction(level) + Delta(r) /\ SumFunction(level) \in Int
  <2>1. level \in [Branches -> Int] /\ level' = [level EXCEPT ![b] = level[b] + Delta(r)]
    BY <1>1, <1>2 DEF Commit, Typed
  <2>2. level' \in [Branches -> Int] /\ level'[b] = level[b] + Delta(r)
        /\ \A c \in Branches \ {b} : level'[c] = level[c]
    BY <1>2, <1>3, <2>1
  <2>3. SumFunction(level') = SumFunction(level) - level[b] + level'[b]
    <3>1. PICK F \in [Branches -> Int], G \in [Branches -> Int], x \in Branches :
            F = level /\ G = level' /\ x = b
      BY <1>2, <2>1, <2>2
    <3>2. \A y \in Branches \ {x} : G[y] = F[y]
      BY <2>2, <3>1
    <3>3. SumFunction(G) = SumFunction(F) - F[x] + G[x]
      BY <3>2, StorageConstants, SumChanged
    <3> QED BY <3>1, <3>3
  <2>4. SumFunction(level) \in Int
    BY <2>1, StorageConstants, SumType
  <2> QED BY <1>2, <1>3, <2>2, <2>3, <2>4
<1>5. SumFunction(Opening) \in Int /\ adjusted \in Int /\ Parked(layers, L) \in Int /\ L \in Nat
  <2>1. \A n \in 1..L : layers[n] \in Int
    BY <1>1 DEF Quantified, Layer
  <2> QED BY <1>1, <2>1, StorageConstants, SumType, ParkedType DEF Quantified
<1>6. CASE job[r].op = "park"
  <2>1. layers' = [layers EXCEPT ![newLayer[r]] = qty] /\ layers[newLayer[r]] = 0 /\ newLayer[r] \in 1..L
    BY <1>1, <1>6, AtCommit, Zenon DEF Commit, LayersAfter, Draws, Layer
  <2>2. \A n \in 1..L : /\ layers[n] \in Int
                        /\ layers'[n] = IF n = newLayer[r] THEN layers[n] + qty ELSE layers[n]
    BY <1>1, <1>2, <2>1 DEF Quantified, Layer
  <2>3. Parked(layers', L) = Parked(layers, L) + qty
    <3>1. PICK k \in 1..L, f \in {layers}, g \in {layers'} : k = newLayer[r]
      BY <2>1
    <3>2. /\ \A n \in 1..L : f[n] \in Int
          /\ \A n \in (1..L) \ {k} : g[n] = f[n]
          /\ g[k] = f[k] + qty
      BY <2>2, <3>1
    <3> HIDE DEF qty, L
    <3>3. Parked(g, L) = Parked(f, L) + qty
      BY <1>2, <1>5, <3>2, ParkedChanged
    <3> QED BY <3>1, <3>3
  <2>4. Delta(r) = -qty /\ adjusted' = adjusted
    BY <1>6 DEF Delta, Commit
  <2> QED BY <1>2, <1>4, <1>5, <2>3, <2>4 DEF Conserved
<1>7. CASE Draws(r)
  <2> DEFINE seen == seenLayers[r]
             rest == Left(seen, L, qty)
             both == [n \in Layer |-> layers[n] + rest[n]]
  <2>1. /\ qty \in Nat
        /\ seen \in [Layer -> Nat] /\ rest \in [Layer -> Nat]
        /\ \A n \in Layer : rest[n] <= seen[n]
        /\ \A n \in Layer : seen[n] = IF n \in found[r] THEN layers[n] ELSE 0
        /\ layers' = [n \in Layer |-> IF seen[n] # 0 THEN rest[n] ELSE layers[n]]
        /\ Parked(seen, L) >= qty
    BY <1>7, DrawnLayers
  <2>2. Parked(rest, L) = Parked(seen, L) - qty
    BY <1>5, <2>1, ParkedLeft DEF Layer
  <2> HIDE DEF seen, rest
  <2>3. \A n \in Layer : layers[n] \in Int /\ rest[n] \in Int /\ both[n] = layers[n] + rest[n]
    BY <1>1, <2>1 DEF Quantified
  <2>4. \A n \in Layer : layers'[n] \in Int /\ seen[n] \in Int /\ both[n] = layers'[n] + seen[n]
    <3>1. ASSUME NEW n \in Layer PROVE both[n] = layers'[n] + seen[n]
      <4>1. layers[n] \in Nat /\ rest[n] \in Nat /\ seen[n] \in Nat /\ rest[n] <= seen[n]
        BY <1>1, <2>1 DEF Quantified
      <4>2. CASE seen[n] # 0
        BY <2>1, <2>3, <4>1, <4>2
      <4>3. CASE seen[n] = 0
        BY <2>1, <2>3, <4>1, <4>3
      <4> QED BY <4>2, <4>3
    <3> QED BY <1>1, <2>1, <3>1 DEF Quantified
  <2> HIDE DEF both
  <2>5. Parked(both, L) = Parked(layers, L) + Parked(rest, L)
    BY <1>5, <2>3, ParkedOfSums DEF Layer
  <2>6. Parked(both, L) = Parked(layers', L) + Parked(seen, L)
    BY <1>5, <2>4, ParkedOfSums DEF Layer
  <2>7. Parked(seen, L) \in Int /\ Parked(layers', L) \in Int
    BY <1>5, <2>4, ParkedType DEF Layer
  <2>8. Parked(layers', L) = Parked(layers, L) - qty
    BY <1>2, <1>5, <2>2, <2>5, <2>6, <2>7
  <2>9. \/ Delta(r) = qty /\ adjusted' = adjusted
        \/ Delta(r) = 0 /\ adjusted' = adjusted - qty
    BY <1>7 DEF Delta, Commit, Draws
  <2> QED BY <1>2, <1>4, <1>5, <2>8, <2>9 DEF Conserved
<1>8. CASE job[r].op = "adjust"
  <2>1. layers' = layers /\ Delta(r) = qty /\ adjusted' = adjusted + qty
    BY <1>8 DEF Commit, LayersAfter, Draws, Delta
  <2> QED BY <1>2, <1>4, <1>5, <2>1 DEF Conserved
<1> QED BY <1>2, <1>6, <1>7, <1>8 DEF Ops, Draws

LEMMA ConservedInit == Init => Conserved
<1> SUFFICES ASSUME Init PROVE Conserved
  OBVIOUS
<1>1. \A n \in 1..MaxRequests : layers[n] = 0
  BY DEF Init, NoLayers, Layer
<1>2. Parked(layers, MaxRequests) = 0
  BY <1>1, StorageConstants, ParkedOfZeros
<1> QED BY <1>2, StorageConstants, SumType DEF Init, Conserved

LEMMA ConservedStep == StorageInv /\ Conserved /\ [Next]_vars => Conserved'
<1> SUFFICES ASSUME StorageInv, Conserved, [Next]_vars PROVE Conserved'
  OBVIOUS
<1>1. CASE UNCHANGED <<level, layers, adjusted>>
  BY <1>1 DEF Conserved
<1>2. CASE \E r \in Requests : Commit(r)
  BY <1>2, CommitConserves
<1>3. UNCHANGED <<level, layers, adjusted>> \/ \E r \in Requests : Commit(r)
  BY DEF Next, Begins, Begin, Step, Find, LockLayers, NotEnoughParked, LockLevel, NotAccepted,
         Refused, Fail, Rollback, Trash, Restore, vars, dbVars
<1> QED BY <1>1, <1>2, <1>3

\* Whatever is parked, retrieved, written off and adjusted at once, refused or interrupted, no
\* goods are made or lost.
THEOREM Conservation == Spec => []Conserved
<1> QED BY ConservedInit, ConservedStep, StorageAlways, PTL DEF Spec

LEMMA OldestStep == StorageInv /\ [Next]_vars => [Oldest]_vars
<1> SUFFICES ASSUME StorageInv, [Next]_vars, NEW r \in Requests,
                    pc[r] = "commit", pc'[r] = "idle",
                    NEW n \in found[r], layers'[n] < layers[n],
                    NEW m \in found[r], m < n
             PROVE  layers'[m] = 0
  BY DEF Oldest
<1>0. LockInv /\ Typed /\ Quantified
  BY DEF StorageInv, LockInv
<1>1. n \in Layer /\ m \in Layer /\ layers[n] \in Nat /\ layers[m] \in Nat
  BY <1>0 DEF Typed, Quantified
<1>2. layers' # layers
  BY <1>1
<1>3. Commit(r)
  <2>1. PICK q \in Requests : Commit(q)
    BY <1>2 DEF Next, Begins, Begin, Step, Find, LockLayers, NotEnoughParked, LockLevel, NotAccepted,
           Refused, Fail, Rollback, Trash, Restore, vars, dbVars
  <2>2. q # r => pc'[r] = pc[r]
    BY <1>0, <2>1, Local DEF Step
  <2> QED BY <2>1, <2>2
<1>4. CASE Draws(r)
  <2> DEFINE seen == seenLayers[r]
             rest == Left(seen, MaxRequests, job[r].qty)
  <2>1. /\ rest \in [Layer -> Nat]
        /\ \A k \in Layer : rest[k] < seen[k] => \A j \in 1..(k - 1) : rest[j] = 0
        /\ \A k \in Layer : seen[k] = IF k \in found[r] THEN layers[k] ELSE 0
        /\ layers' = [k \in Layer |-> IF seen[k] # 0 THEN rest[k] ELSE layers[k]]
    BY <1>3, <1>4, DrawnLayers
  <2> HIDE DEF seen, rest
  <2>2. seen[n] = layers[n] /\ seen[m] = layers[m]
    BY <1>1, <2>1
  <2>3. rest[n] < seen[n]
    BY <1>1, <2>1, <2>2
  <2>4. m \in 1..(n - 1)
    BY <1>1 DEF Layer
  <2> QED BY <1>1, <2>1, <2>2, <2>3, <2>4
<1>5. CASE job[r].op = "park"
  <2>1. /\ layers' = [layers EXCEPT ![newLayer[r]] = job[r].qty]
        /\ layers[newLayer[r]] = 0 /\ job[r].qty \in Nat
    BY <1>0, <1>3, <1>5, AtCommit, StorageConstants, Zenon DEF Commit, LayersAfter, Draws, Ops
  <2> QED BY <1>0, <1>1, <2>1 DEF Quantified
<1>6. CASE ~Draws(r) /\ job[r].op # "park"
  BY <1>2, <1>3, <1>6 DEF Commit, LayersAfter, Draws
<1> QED BY <1>4, <1>5, <1>6

\* A retrieval empties the oldest of the layers it found before it touches a newer one, also
\* when others changed them between its query and its locks.
THEOREM OldestLeaveFirst == Spec => OldestFirst
<1> QED BY StorageAlways, OldestStep, PTL DEF Spec, OldestFirst

=============================================================================
