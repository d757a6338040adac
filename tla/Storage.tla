------------------------------ MODULE Storage ------------------------------
(***************************************************************************)
(* Parking stock in a storage location and bringing it back                *)
(* (inventory/storage_service.py), with manual adjustments of the same     *)
(* stock (StockAdjustment.save), by concurrent requests.                   *)
(*                                                                         *)
(* One untracked variant and one location: rows of other variants and      *)
(* locations are never read or locked together with these.  Each           *)
(* operation is one transaction.  It reads a list of layers, waits for     *)
(* their row locks (in moved_in_at order, so two requests never hold what  *)
(* the other needs), then locks the StockLevel row; what it writes appears *)
(* at Commit.  A layer is named by the order of its moved_in_at, which is  *)
(* taken before the commit, so an older layer may appear after a newer.    *)
(*                                                                         *)
(* Left out: cost snapshots, notes, users and the movement log, which no   *)
(* operation reads back.                                                   *)
(***************************************************************************)
EXTENDS Layers, FiniteSets, Functions

CONSTANTS
  Branches,
  Opening,        \* StockLevel.quantity of each branch at the start
  AllowNegative,  \* StoreSettings.allow_negative_stock
  Quantities,     \* the quantities parked, retrieved and written off
  Changes,        \* the adjustments
  Requests,
  Nobody,
  MaxRequests     \* bound: operations begun in a behaviour

Layer == 1..MaxRequests

ASSUME StorageConstants ==
  /\ IsFiniteSet(Branches)
  /\ Opening \in [Branches -> Int]
  /\ AllowNegative \in BOOLEAN
  /\ Quantities \subseteq Nat \ {0}
  /\ Changes \subseteq Int
  /\ Nobody \notin Requests
  /\ MaxRequests \in Nat

VARIABLES
  level,       \* StockLevel.quantity
  layers,      \* StorageStock.quantity_remaining, 0 when there is no such row
  open,        \* the location is not in the trash
  clock,       \* the last moved_in_at
  levelLock,   \* holders of the row locks
  layerLock,
  pc,
  job,         \* the operation, its branch and its quantity
  found,       \* the layers a request's query returned
  seenLayers,  \* their quantities when it had locked them
  seenLevel,   \* the quantity of the level row when it locked it
  newLayer,    \* the layer it is creating
  served,
  adjusted     \* history: sum of the changes that are neither parked nor retrieved

dbVars    == <<level, layers, open>>
lockVars  == <<levelLock, layerLock>>
localVars == <<pc, job, found, seenLayers, seenLevel, newLayer>>
vars      == <<dbVars, clock, lockVars, localVars, served, adjusted>>

Ops    == {"park", "retrieve", "write_off", "adjust"}
Points == {"idle", "find", "layers", "level", "commit"}
Job    == [op : Ops, branch : Branches, qty : Quantities \cup Changes]

NoLayers == [n \in Layer |-> 0]
NoJob    == [op |-> "none", branch |-> CHOOSE b \in Branches : TRUE, qty |-> 0]

\* Goods go to or come from layers.
Draws(r) == job[r].op \in {"retrieve", "write_off"}

----------------------------------------------------------------------------

Init ==
  /\ level = Opening
  /\ layers = NoLayers
  /\ open = TRUE
  /\ clock = 0
  /\ levelLock = [b \in Branches |-> Nobody]
  /\ layerLock = [n \in Layer |-> Nobody]
  /\ pc = [r \in Requests |-> "idle"]
  /\ job = [r \in Requests |-> NoJob]
  /\ found = [r \in Requests |-> {}]
  /\ seenLayers = [r \in Requests |-> NoLayers]
  /\ seenLevel = [r \in Requests |-> 0]
  /\ newLayer = [r \in Requests |-> 0]
  /\ served = 0
  /\ adjusted = 0

\* The views look the location up among those not in the trash.
Begin(r, op, b, qty) ==
  /\ pc[r] = "idle"
  /\ served < MaxRequests
  /\ op # "adjust" => open /\ qty > 0
  /\ served' = served + 1
  /\ job' = [job EXCEPT ![r] = [op |-> op, branch |-> b, qty |-> qty]]
  /\ pc' = [pc EXCEPT ![r] = IF op \in {"retrieve", "write_off"} THEN "find" ELSE "level"]
  /\ UNCHANGED <<dbVars, clock, lockVars, found, seenLayers, seenLevel, newLayer, adjusted>>

Ended(r) ==
  /\ levelLock' = [b \in Branches |-> IF levelLock[b] = r THEN Nobody ELSE levelLock[b]]
  /\ layerLock' = [n \in Layer |-> IF layerLock[n] = r THEN Nobody ELSE layerLock[n]]
  /\ pc' = [pc EXCEPT ![r] = "idle"]
  /\ job' = [job EXCEPT ![r] = NoJob]
  /\ found' = [found EXCEPT ![r] = {}]
  /\ seenLayers' = [seenLayers EXCEPT ![r] = NoLayers]
  /\ seenLevel' = [seenLevel EXCEPT ![r] = 0]
  /\ newLayer' = [newLayer EXCEPT ![r] = 0]

\* A refused operation and a crash alike undo the whole transaction.
Rollback(r) == Ended(r) /\ UNCHANGED <<dbVars, clock, served, adjusted>>

Fail(r) == pc[r] # "idle" /\ Rollback(r)

\* Mutant: a refused operation leaves its transaction open.
RefusedLocked(r) ==
  /\ pc' = [pc EXCEPT ![r] = "idle"]
  /\ UNCHANGED <<dbVars, clock, lockVars, job, found, seenLayers, seenLevel, newLayer,
                 served, adjusted>>

\* ValidationError out of transaction.atomic.
Refused(r) == Rollback(r)

----------------------------------------------------------------------------
(* _consume_layers_fifo: the query, then the locks it waits for *)

Find(r) ==
  /\ pc[r] = "find"
  /\ found' = [found EXCEPT ![r] = {n \in Layer : layers[n] > 0}]
  /\ pc' = [pc EXCEPT ![r] = "layers"]
  /\ UNCHANGED <<dbVars, clock, lockVars, job, seenLayers, seenLevel, newLayer, served, adjusted>>

\* Mutant: the layers are listed without select_for_update.
CanLockLayersUnlocked(r) == TRUE

CanLockLayers(r) == \A n \in found[r] : layerLock[n] \in {r, Nobody}

\* The quantities of the listed layers, as they are when the last lock is granted.
Listed(r) == [n \in Layer |-> IF n \in found[r] THEN layers[n] ELSE 0]

LockLayers(r) ==
  /\ pc[r] = "layers"
  /\ CanLockLayers(r)
  /\ Parked(Listed(r), MaxRequests) >= job[r].qty
  /\ layerLock' = [n \in Layer |-> IF n \in found[r] THEN r ELSE layerLock[n]]
  /\ seenLayers' = [seenLayers EXCEPT ![r] = Listed(r)]
  /\ pc' = [pc EXCEPT ![r] = "level"]
  /\ UNCHANGED <<dbVars, clock, levelLock, job, found, seenLevel, newLayer, served, adjusted>>

NotEnoughParked(r) ==
  /\ pc[r] = "layers"
  /\ CanLockLayers(r)
  /\ Parked(Listed(r), MaxRequests) < job[r].qty
  /\ Refused(r)

----------------------------------------------------------------------------
(* The StockLevel row *)

\* Mutant: parking looks at the policy of the store instead of what is there.
AcceptedByPolicy(r, have) == have >= 0 \/ AllowNegative

\* move_to_storage never takes what is not on hand. The write-off credits the row and
\* deducts the same again by an adjustment, which obeys the store's policy as any other.
Accepted(r, have) ==
  CASE job[r].op = "park"      -> have >= job[r].qty
    [] job[r].op = "write_off" -> have >= 0 \/ AllowNegative
    [] job[r].op = "adjust"    -> have + job[r].qty >= 0 \/ AllowNegative
    [] OTHER                   -> TRUE

\* Mutant: the quantity is read before the row is locked.
CanLockLevelUnlocked(r) == TRUE

CanLockLevel(r) == levelLock[job[r].branch] \in {r, Nobody}

LockLevel(r) ==
  /\ pc[r] = "level"
  /\ CanLockLevel(r)
  /\ Accepted(r, level[job[r].branch])
  /\ levelLock' = [levelLock EXCEPT ![job[r].branch] = r]
  /\ seenLevel' = [seenLevel EXCEPT ![r] = level[job[r].branch]]
  /\ IF job[r].op = "park"
       THEN /\ clock < MaxRequests   \* never binds: an operation creates one layer at most
            /\ clock' = clock + 1
            /\ newLayer' = [newLayer EXCEPT ![r] = clock + 1]
       ELSE UNCHANGED <<clock, newLayer>>
  /\ pc' = [pc EXCEPT ![r] = "commit"]
  /\ UNCHANGED <<dbVars, layerLock, job, found, seenLayers, served, adjusted>>

NotAccepted(r) ==
  /\ pc[r] = "level"
  /\ CanLockLevel(r)
  /\ ~Accepted(r, level[job[r].branch])
  /\ Refused(r)

\* What the operation adds to the level row.
Delta(r) ==
  CASE job[r].op = "park"      -> -job[r].qty
    [] job[r].op = "write_off" -> 0
    [] OTHER                   -> job[r].qty

LayersAfter(r) ==
  CASE job[r].op = "park" -> [layers EXCEPT ![newLayer[r]] = job[r].qty]
    [] Draws(r) -> [n \in Layer |->
         IF seenLayers[r][n] # 0
           THEN Left(seenLayers[r], MaxRequests, job[r].qty)[n] ELSE layers[n]]
    [] OTHER -> layers

Commit(r) ==
  /\ pc[r] = "commit"
  /\ level' = [level EXCEPT ![job[r].branch] = seenLevel[r] + Delta(r)]
  /\ layers' = LayersAfter(r)
  /\ adjusted' = CASE job[r].op = "adjust"    -> adjusted + job[r].qty
                   [] job[r].op = "write_off" -> adjusted - job[r].qty
                   [] OTHER                   -> adjusted
  /\ Ended(r)
  /\ UNCHANGED <<open, clock, served>>

----------------------------------------------------------------------------

\* A location goes to the trash and comes back whatever is parked in it.
Trash   == open /\ open' = FALSE /\ UNCHANGED <<level, layers, clock, lockVars, localVars, served, adjusted>>
Restore == ~open /\ open' = TRUE /\ UNCHANGED <<level, layers, clock, lockVars, localVars, served, adjusted>>

Begins(r) ==
  \E b \in Branches :
    \/ \E op \in Ops \ {"adjust"}, qty \in Quantities : Begin(r, op, b, qty)
    \/ \E change \in Changes : Begin(r, "adjust", b, change)

Step(r) ==
  \/ Find(r) \/ LockLayers(r) \/ NotEnoughParked(r)
  \/ LockLevel(r) \/ NotAccepted(r)
  \/ Commit(r)

Next ==
  \/ \E r \in Requests : Begins(r) \/ Step(r) \/ Fail(r)
  \/ Trash \/ Restore

Spec == Init /\ [][Next]_vars

\* The workers and the lock queues of the database are fair to each request.
FairSpec == Spec /\ \A r \in Requests : WF_vars(Step(r))

----------------------------------------------------------------------------

TypeOK ==
  /\ level \in [Branches -> Int]
  /\ layers \in [Layer -> Nat]
  /\ open \in BOOLEAN
  /\ clock \in 0..MaxRequests
  /\ levelLock \in [Branches -> Requests \cup {Nobody}]
  /\ layerLock \in [Layer -> Requests \cup {Nobody}]
  /\ pc \in [Requests -> Points]
  /\ job \in [Requests -> Job \cup {NoJob}]
  /\ found \in [Requests -> SUBSET Layer]
  /\ seenLayers \in [Requests -> [Layer -> Nat]]
  /\ seenLevel \in [Requests -> Int]
  /\ newLayer \in [Requests -> 0..MaxRequests]
  /\ served \in 0..MaxRequests
  /\ adjusted \in Int

\* Parking and retrieving never make or lose goods: what is active at all the branches and
\* what is parked add up to the opening stock and the adjustments, write-offs included.
Conserved ==
  SumFunction(level) + Parked(layers, MaxRequests) = SumFunction(Opening) + adjusted

\* A layer shrinks only when every older layer of the same retrieval is emptied with it.
Oldest ==
  \A r \in Requests : pc[r] = "commit" /\ pc'[r] = "idle" =>
    \A n \in found[r] : layers'[n] < layers[n] =>
      \A m \in found[r] : m < n => layers'[m] = 0
OldestFirst == [][Oldest]_vars

\* Parking takes goods from a branch that has them, whatever is being sold there meanwhile.
ParkedFromStock ==
  \A r \in Requests :
    (/\ pc[r] = "commit" /\ pc'[r] = "idle" /\ job[r].op = "park"
     /\ layers' # layers) => level'[job[r].branch] >= 0
NeverParksWhatIsNotThere == [][ParkedFromStock]_vars

\* Locking step by step, the operations behave as if each were done at once.
Shelf == INSTANCE Shelves WITH onHand <- level, shelf <- layers, LastLayer <- MaxRequests
AsIfAtOnce == Shelf!Spec

\* No operation waits for ever: layers are locked before levels, and in one order.
EveryRequestEnds == \A r \in Requests : pc[r] # "idle" ~> pc[r] = "idle"

=============================================================================
