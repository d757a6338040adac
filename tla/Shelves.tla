------------------------------ MODULE Shelves ------------------------------
(***************************************************************************)
(* What storage promises of one variant, with every operation done at      *)
(* once: goods are on hand at a branch or parked in a layer, and moving    *)
(* them between the two neither makes nor loses any.                       *)
(***************************************************************************)
EXTENDS Layers

CONSTANTS Branches, Opening, Changes, Quantities, LastLayer, AllowNegative

VARIABLES
  onHand,   \* quantity active at each branch
  shelf     \* quantity left in each layer

shelfVars == <<onHand, shelf>>

Init ==
  /\ onHand = Opening
  /\ shelf = [n \in 1..LastLayer |-> 0]

Put(b, qty) == onHand' = [onHand EXCEPT ![b] = @ + qty]

\* The layers of S as a retrieval that found only those sees them.
Only(S) == [n \in 1..LastLayer |-> IF n \in S THEN shelf[n] ELSE 0]

Draw(S, qty) ==
  /\ Parked(Only(S), LastLayer) >= qty
  /\ shelf' = [n \in 1..LastLayer |->
                 IF n \in S THEN Left(Only(S), LastLayer, qty)[n] ELSE shelf[n]]

\* Park qty of what the branch has in a new layer.
Park(b, qty, n) ==
  /\ onHand[b] >= qty
  /\ Put(b, -qty)
  /\ shelf[n] = 0
  /\ shelf' = [shelf EXCEPT ![n] = qty]

\* Bring qty back from some of the layers, oldest first.
Retrieve(b, qty, S) == Draw(S, qty) /\ Put(b, qty)

\* Discard qty from the layers; the branch is left as it was.
WriteOff(b, qty, S) ==
  /\ onHand[b] >= 0 \/ AllowNegative
  /\ Draw(S, qty)
  /\ UNCHANGED onHand

\* Anything else that changes the stock of a branch.
Adjust(b, change) ==
  /\ onHand[b] + change >= 0 \/ AllowNegative
  /\ Put(b, change)
  /\ UNCHANGED shelf

Next ==
  \E b \in Branches :
    \/ \E change \in Changes : Adjust(b, change)
    \/ \E qty \in Quantities, n \in 1..LastLayer : Park(b, qty, n)
    \/ \E S \in SUBSET {n \in 1..LastLayer : shelf[n] # 0}, qty \in Quantities :
         Retrieve(b, qty, S) \/ WriteOff(b, qty, S)

Spec == Init /\ [][Next]_shelfVars

=============================================================================
