----------------------------- MODULE Categories -----------------------------
(***************************************************************************)
(* The category tree of a store.  Category.clean guards every save: no     *)
(* cycle, and at most MaxDepth tiers.  It looks up the tree through rows   *)
(* that are deleted too and down through active ones only, takes no lock,  *)
(* and the row is written by a later statement; moving the contents of a   *)
(* category up and purging a branch update rows without it.                *)
(*                                                                         *)
(* Products hang from categories without being guarded and are left out;   *)
(* so are names.                                                           *)
(***************************************************************************)
EXTENDS Workers

CONSTANTS
  Categories,   \* rows
  TopLevel,     \* no parent
  MaxDepth      \* MAX_CATEGORY_DEPTH

ASSUME CategoriesAssumption ==
  IsFiniteSet(Categories) /\ TopLevel \notin Categories /\ MaxDepth \in Nat \ {0}

VARIABLES
  cat,         \* the rows
  overtaken    \* history: a row was written between what another request read and its write

categoryVars == <<cat, overtaken>>

Parents == Categories \cup {TopLevel}
CatRow == [state : {"none", "live", "gone"}, parent : Parents]

Live == {c \in Categories : cat[c].state = "live"}
Gone == {c \in Categories : cat[c].state = "gone"}
Children(c) == {d \in Live : cat[d].parent = c}

\* _ancestor_ids gives up after 100 steps; here, when a chain must have met some category twice.
Guard == 0..Cardinality(Categories)

\* The n-th category above c; c itself is the 0-th.
Up[n \in Nat] ==
  [c \in Parents |-> IF n = 0 \/ c = TopLevel THEN c ELSE Up[n - 1][cat[c].parent]]

Chain(c) == {n \in Guard : Up[n][c] # TopLevel}
OnChain(c, d) == \E n \in Chain(c) : Up[n][c] = d

\* _subtree_height: how far down active categories reach from c.
Heights(c) ==
  {n \in Guard : \E d \in Categories :
     Up[n][d] = c /\ \A k \in 0..(n - 1) : Up[k][d] \in Live /\ Up[k][d] # c} \cup {0}

\* What creating alone can make: any forest of active rows.
SoundForest(forest) ==
  \A c \in Categories :
    /\ forest[c].state # "gone"
    /\ forest[c].state = "none" => forest[c].parent = TopLevel
    /\ forest[c].parent # TopLevel => forest[forest[c].parent].state = "live"

CategoriesInit ==
  /\ cat \in {forest \in [Categories -> CatRow] : SoundForest(forest)}
  /\ \A c \in Categories : Up[MaxDepth][c] = TopLevel
  /\ overtaken = FALSE

NoCategories ==
  cat = [c \in Categories |-> [state |-> "none", parent |-> TopLevel]] /\ overtaken = FALSE

----------------------------------------------------------------------------
(* Category.clean *)

\* Mutant: only the depth is checked.
FitsDepth(c, parent, heights) ==
  parent = TopLevel \/ \A n \in heights : Cardinality(Chain(parent)) + 1 + n <= MaxDepth

\* A cycle above the parent, or below c, makes the chain or the descent too long.
Fits(c, parent, heights) ==
  \/ parent = TopLevel
  \/ /\ ~OnChain(parent, c)
     /\ \A n \in heights : Cardinality(Chain(parent)) + 1 + n <= MaxDepth

\* The rows that a request updates along with its own: the children of c in one UPDATE, or
\* every active category below c, which is never done finding when c is below itself.
Below(c) == {d \in Live \ {c} : \E n \in Guard : Up[n][d] = c /\ \A k \in 0..n : Up[k][d] \in Live}

FoundWith(mode, c) == IF mode = "move" THEN Children(c) ELSE IF mode = "purge" THEN Below(c) ELSE {}

Endless(mode, c) == mode = "purge" /\ cat[c].parent # TopLevel /\ OnChain(cat[c].parent, c)

\* The request updates what it found, and checks its own row; nothing is below that any more.
HeightsAfter(mode, c) == IF mode = "one" THEN Heights(c) ELSE {0}

CheckCategory(w) ==
  LET c == req[w].cat
      mode == req[w].mode IN
  /\ At(w, "category.check")
  /\ ~Endless(mode, c)
  /\ Fits(c, req[w].copy.parent, HeightsAfter(mode, c))
  /\ Proceed(w, [req[w] EXCEPT !.at = "category.save", !.with = FoundWith(mode, c)])
  /\ UNCHANGED categoryVars

\* ValidationError: a 400 from the serializer's save and the assistant, a 500 from the others.
RefuseCategory(w) ==
  LET c == req[w].cat
      mode == req[w].mode IN
  /\ At(w, "category.check")
  /\ ~Endless(mode, c)
  /\ ~Fits(c, req[w].copy.parent, HeightsAfter(mode, c))
  /\ Answer(w)
  /\ UNCHANGED categoryVars

\* Others that write what they read before: all rows are checked as they are, but the children
\* of a category go to the parent that it had when the request began.
Saving(w) == {x \in Others(w) : At(x, "category.save") \/ (At(x, "category.check") /\ req[x].mode = "move")}

\* All columns are written; overtaken are requests that read a tree without this write.
SaveCategory(w) ==
  LET c == req[w].cat
      copy == req[w].copy IN
  /\ At(w, "category.save")
  /\ cat' = [d \in Categories |->
       IF d = c THEN copy
       ELSE IF d \notin req[w].with THEN cat[d]
       ELSE IF req[w].mode = "move" THEN [cat[d] EXCEPT !.parent = copy.parent]
       ELSE [cat[d] EXCEPT !.state = "gone"]]
  /\ overtaken' = (overtaken \/ Saving(w) # {})
  /\ Answer(w)

----------------------------------------------------------------------------
(* Requests: each reads a row, and later checks and saves its copy. *)

BeginSave(w, mode, c, copy) ==
  /\ Begin(w, [at |-> "category.check", mode |-> mode, cat |-> c, copy |-> copy, with |-> {}])
  /\ UNCHANGED categoryVars

Under(parent) == [state |-> "live", parent |-> parent]
Deleted(c) == [cat[c] EXCEPT !.state = "gone"]

\* POST, the assistant's create_category, and the rows an import finds no category for.
AddCategory(w, c) ==
  cat[c].state = "none" /\ \E parent \in Live \cup {TopLevel} : BeginSave(w, "one", c, Under(parent))

\* PATCH and the assistant's update_category: another parent, or the one that was read.
MoveCategory(w, c) ==
  c \in Live /\ \E parent \in Live \cup {TopLevel, cat[c].parent} : BeginSave(w, "one", c, Under(parent))

\* DELETE: perform_destroy refuses when there are children.
DestroyCategory(w, c) == c \in Live /\ Children(c) = {} /\ BeginSave(w, "one", c, Deleted(c))

\* resolve-delete with mode=move: the children go to the parent of c.
MoveContentsUp(w, c) == c \in Live /\ BeginSave(w, "move", c, Deleted(c))

\* resolve-delete with mode=purge: every active category below goes with c.
PurgeCategories(w, c) == c \in Live /\ BeginSave(w, "purge", c, Deleted(c))

\* The trash of the platform; the parent may be deleted still.
RestoreCategory(w, c) == c \in Gone /\ BeginSave(w, "one", c, Under(cat[c].parent))

DieCategorizing(w) == Crash(w) /\ UNCHANGED categoryVars

CategoriesNext ==
  \E w \in Workers :
    \/ \E c \in Categories :
         \/ AddCategory(w, c) \/ MoveCategory(w, c) \/ DestroyCategory(w, c)
         \/ MoveContentsUp(w, c) \/ PurgeCategories(w, c) \/ RestoreCategory(w, c)
    \/ CheckCategory(w) \/ RefuseCategory(w) \/ SaveCategory(w) \/ DieCategorizing(w)

CategoriesSpec == SlotsInit /\ CategoriesInit /\ [][CategoriesNext]_<<slots, categoryVars>>

CategoriesTypeOK == cat \in [Categories -> CatRow] /\ overtaken \in BOOLEAN

\* The tree has no cycle, through deleted categories either, and no active category has more than
\* MaxDepth tiers of active ones on its way to the top, after any sequence of creating, moving,
\* deleting, purging and restoring, unless a request wrote between another's check and its save,
\* or while another, that moves the contents of a category up, was under way.
TreeSound ==
  ~overtaken =>
    /\ \A c \in Categories : Up[Cardinality(Categories)][c] = TopLevel
    /\ \A c \in Live : Up[MaxDepth][c] = TopLevel \/ \E n \in 0..MaxDepth : Up[n][c] \in Gone
=============================================================================
