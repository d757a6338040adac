---------------------------- MODULE SearchIndex ----------------------------
(***************************************************************************)
(* Products and their documents in the search index.  Signals send a       *)
(* document after every save of a product or of an attribute: inside the   *)
(* transaction that saves, or after the save when there is none.  A call   *)
(* of the index that fails is swallowed, a transaction that rolls back     *)
(* takes no call back, and neither an UPDATE of many rows nor a write of a *)
(* variant or of an attribute's definition sends a document.               *)
(*                                                                         *)
(* Of a product only the indexed texts matter: its name, and the one       *)
(* attribute that stands for the three that are indexed.  A document is    *)
(* built from the instance that was saved, whose attributes are those the  *)
(* view prefetched.                                                        *)
(***************************************************************************)
EXTENDS Workers, Sequences

CONSTANTS
  Products,
  Words,      \* names and values of attributes
  Absent      \* no attribute; no document

\* "kept" marks a column that an UPDATE leaves alone.
ASSUME SearchIndexAssumption == Words # {} /\ Absent \notin Words /\ "kept" \notin Words \cup {Absent}

VARIABLES
  rows,      \* committed products
  docs,      \* documents of the collection
  there,     \* whether the collection exists
  strayed    \* history: products whose document may differ from the row

indexVars == <<rows, docs, there, strayed>>

ProductRow == [state : {"none", "live", "gone"}, name : Words, attr : Words \cup {Absent}]
Text == [name : Words, attr : Words \cup {Absent}]

TextOf(row) == [name |-> row.name, attr |-> row.attr]

\* What build_document makes of a row, if the signal does not drop it.
Shown(row) == IF row.state = "live" THEN TextOf(row) ELSE Absent

Indexed == docs = [p \in Products |-> Shown(rows[p])] /\ there = TRUE /\ strayed = {}

NoProduct(word) == [state |-> "none", name |-> word, attr |-> Absent]

\* A store with some products, all indexed; words are alike, so the first name may be fixed.
IndexInit ==
  LET word == CHOOSE v \in Words : TRUE IN
  /\ rows \in [Products -> {NoProduct(word)} \cup {r \in ProductRow : r.state = "live" /\ r.name = word}]
  /\ Indexed

NoProducts == rows = [p \in Products |-> NoProduct(CHOOSE v \in Words : TRUE)] /\ Indexed

LiveProducts == {p \in Products : rows[p].state = "live"}

----------------------------------------------------------------------------
(* Requests.  `set` are the columns it writes, of each of its products, and `says` the documents
   it sends, one after the other. *)

IndexSteps == {"product.save", "product.alone", "product.tell", "product.commit",
               "index.drop", "index.create", "index.read", "index.build", "index.import"}

\* Requests that have read one of these products, or have been reading all of them.
AtProducts(ps) == {w \in Workers : req[w].at \in IndexSteps /\ req[w].ps \cap ps # {}}

\* Whether nobody else touched its products is noted in a request, and in those it meets.
Mixed(w, job) ==
  [x \in Workers |->
     IF x = w THEN job
     ELSE IF x \in AtProducts(job.ps) THEN [req[x] EXCEPT !.apart = FALSE] ELSE req[x]]

Overlap(ps) == UNION {req[x].ps \cap ps : x \in AtProducts(ps)}

BeginIndexed(w, at, ps, set, says) ==
  /\ req[w] = Idle
  /\ begun < MaxBegun
  /\ begun' = begun + 1
  /\ req' = Mixed(w, [at |-> at, ps |-> ps, set |-> set, says |-> says,
                     ok |-> TRUE, called |-> FALSE, apart |-> AtProducts(ps) = {}])
  /\ strayed' = strayed \cup Overlap(ps)
  /\ UNCHANGED <<rows, docs, there>>

\* A request for one product.
BeginOne(w, at, p, set, says) == BeginIndexed(w, at, {p}, [q \in {p} |-> set], says)

Keep == [state |-> "kept", name |-> "kept", attr |-> "kept"]

Column(old, new) == IF new = "kept" THEN old ELSE new

Written(row, set) ==
  [state |-> Column(row.state, set.state), name |-> Column(row.name, set.name), attr |-> Column(row.attr, set.attr)]

\* A document of one product, and the collection after a call that sends documents.
Doc(p, text) == [q \in {p} |-> text]

Sent(say) == [p \in Products |-> IF p \in DOMAIN say THEN say[p] ELSE docs[p]]

\* create_product_with_variant, the rows of an import, and entries of the memory base: the product
\* is saved, then the attribute.
AddProduct(w, p) ==
  /\ rows[p].state = "none" /\ \A x \in Workers : req[x].at \in {"product.save", "product.commit"} => p \notin req[x].ps
  /\ \E name \in Words, attr \in Words \cup {Absent} :
       LET bare == Doc(p, [name |-> name, attr |-> Absent])
           whole == Doc(p, [name |-> name, attr |-> attr])
       IN  BeginOne(w, "product.save", p, [state |-> "live", name |-> name, attr |-> attr],
                    IF attr = Absent THEN <<bare>> ELSE <<bare, whole>>)

\* Mutant: saving an attribute sends no document.
SaysOfProduct(p, name, old, new) == <<Doc(p, [name |-> name, attr |-> old])>>

\* ProductWriteSerializer.update: the product is saved, then its attribute.  An attribute that is
\* changed or deleted is read anew, with its product; one that is added hangs on the instance of
\* the view, whose prefetched attributes are without it.
SaysOfEdit(p, name, old, new) ==
  LET first == Doc(p, [name |-> name, attr |-> old]) IN
  IF new = "kept" THEN <<first>>
  ELSE <<first, IF old = Absent THEN first ELSE Doc(p, [name |-> name, attr |-> new])>>

EditProduct(w, p) ==
  /\ p \in LiveProducts
  /\ \E name \in Words, attr \in Words \cup {Absent, "kept"} :
       /\ attr # rows[p].attr
       /\ BeginOne(w, "product.save", p, [state |-> "live", name |-> name, attr |-> attr],
                   SaysOfEdit(p, name, rows[p].attr, attr))

\* toggle_ghost, the image and the showcase save other columns; DELETE, update_product of the
\* assistant and the trash save them all.  The last two read the attributes when they index.
TouchProduct(w, p) == p \in LiveProducts /\ BeginOne(w, "product.alone", p, Keep, <<Doc(p, TextOf(rows[p]))>>)

DeleteProduct(w, p) ==
  /\ p \in LiveProducts
  /\ BeginOne(w, "product.alone", p, [state |-> "gone", name |-> rows[p].name, attr |-> "kept"], <<Doc(p, Absent)>>)

SaveAnew(w, p) ==
  /\ rows[p].state # "none"
  /\ \E name \in IF p \in LiveProducts THEN Words ELSE {rows[p].name} :
       BeginOne(w, "product.alone", p, [state |-> "live", name |-> name, attr |-> "kept"], <<>>)

\* bulk_delete and the removal of duplicates of the memory base.
DeleteMany(w) ==
  \E ps \in (SUBSET LiveProducts) \ {{}} :
    BeginIndexed(w, "product.save", ps, [p \in ps |-> [Keep EXCEPT !.state = "gone"]], <<[p \in ps |-> Absent]>>)

\* Rows that a transaction has saved are locked.
SavedBy(ps) == {w \in AtProducts(ps) : req[w].at = "product.commit" \/ (req[w].at = "product.save" /\ req[w].called)}

\* A call may fail, and does when the collection is gone; the request goes on.
CallIndex(w, say, then) ==
  \E done \in IF there THEN BOOLEAN ELSE {FALSE} :
    /\ docs' = IF done THEN Sent(say) ELSE docs
    /\ Proceed(w, [then EXCEPT !.ok = @ /\ done, !.called = TRUE])

\* In a transaction: the save and its document, or the attribute and its document.
SaveInside(w) ==
  /\ At(w, "product.save")
  /\ SavedBy(req[w].ps) \ {w} = {}
  /\ CallIndex(w, Head(req[w].says),
          [req[w] EXCEPT !.says = Tail(@), !.at = IF Len(req[w].says) = 1 THEN "product.commit" ELSE @])
  /\ UNCHANGED <<rows, there, strayed>>

\* An edit that adds an attribute leaves a document without it.
Unseen(w) == {p \in req[w].ps : rows[p].state = "live" /\ rows[p].attr = Absent /\ req[w].set[p].attr \in Words}

\* A request that was alone with its products, and whose calls were all made, leaves them indexed.
Settled(w, known) ==
  strayed' = IF req[w].apart /\ req[w].ok THEN (strayed \ req[w].ps) \cup known ELSE strayed \cup req[w].ps

CommitProducts(w) ==
  /\ At(w, "product.commit")
  /\ rows' = [p \in Products |-> IF p \in req[w].ps THEN Written(rows[p], req[w].set[p]) ELSE rows[p]]
  /\ Settled(w, Unseen(w))
  /\ Answer(w)
  /\ UNCHANGED <<docs, there>>

\* Without a transaction the save commits, and the document follows.
SaveAlone(w) ==
  /\ At(w, "product.alone")
  /\ SavedBy(req[w].ps) = {}
  /\ rows' = [p \in Products |-> IF p \in req[w].ps THEN Written(rows[p], req[w].set[p]) ELSE rows[p]]
  /\ Proceed(w, [req[w] EXCEPT !.at = "product.tell", !.called = TRUE])
  /\ UNCHANGED <<docs, there, strayed>>

TellIndex(w) ==
  LET p == CHOOSE p \in req[w].ps : TRUE
      say == IF req[w].says # <<>> THEN Head(req[w].says)
             ELSE Doc(p, [name |-> req[w].set[p].name, attr |-> rows[p].attr]) IN
  /\ At(w, "product.tell")
  /\ \E done \in IF there THEN BOOLEAN ELSE {FALSE} :
       /\ docs' = IF done THEN Sent(say) ELSE docs
       /\ strayed' = IF done /\ req[w].apart THEN strayed \ {p} ELSE strayed \cup {p}
  /\ Answer(w)
  /\ UNCHANGED <<rows, there>>

\* An exception or a crash: what was called or committed stays.
DieIndexing(w) ==
  /\ Crash(w)
  /\ strayed' = IF req[w].called THEN strayed \cup req[w].ps ELSE strayed
  /\ UNCHANGED <<rows, docs, there>>

----------------------------------------------------------------------------
(* Writes that change what is indexed and send no document. *)

Unsignalled(w, ps, now) ==
  /\ req[w] = Idle
  /\ begun < MaxBegun
  /\ begun' = begun + 1
  /\ ps # {}
  /\ req' = [x \in Workers |-> IF x \in AtProducts(ps) THEN [req[x] EXCEPT !.apart = FALSE] ELSE req[x]]
  /\ rows' = [p \in Products |-> IF p \in ps THEN now[p] ELSE rows[p]]
  /\ strayed' = strayed \cup ps
  /\ UNCHANGED <<docs, there>>

\* resolve-delete with mode=purge: an UPDATE of the products.
PurgeProducts(w) ==
  \E ps \in SUBSET LiveProducts :
    SavedBy(ps) = {} /\ Unsignalled(w, ps, [p \in ps |-> [rows[p] EXCEPT !.state = "gone"]])

\* Transactions that have saved an attribute of these products.
AttributeSavedBy(ps) ==
  {w \in AtProducts(ps) :
     req[w].at = "product.commit" /\ \E p \in req[w].ps \cap ps : req[w].set[p].attr # "kept"}

\* bulk_update_attribute_value of the assistant: an UPDATE of the attributes.
RenameValue(w) ==
  \E old, new \in Words :
    /\ old # new
    /\ LET ps == {p \in Products : rows[p].attr = old} IN
       /\ AttributeSavedBy(ps) = {}
       /\ Unsignalled(w, ps, [p \in ps |-> [rows[p] EXCEPT !.attr = new]])

\* A DELETE of a variant of p, or a PATCH that gives it to q: what is indexed of p is then said by
\* the variants that it keeps, and of q perhaps by the new one.
MoveVariant(w) ==
  \E p, q \in Products, kept \in Words \cup {Absent}, brought \in Words :
    LET now == [r \in {p, q} |-> [rows[r] EXCEPT !.attr = IF r = p THEN kept ELSE brought]]
        ps == {r \in {p, q} : now[r] # rows[r]} IN
    /\ rows[p].attr # Absent /\ rows[q].state # "none"
    /\ Unsignalled(w, ps, now)

\* A PATCH of the key of a definition: its values are no longer indexed, or now they are.
RenameKey(w) ==
  \/ LET ps == {p \in Products : rows[p].attr # Absent} IN
     Unsignalled(w, ps, [p \in ps |-> [rows[p] EXCEPT !.attr = Absent]])
  \/ \E ps \in SUBSET {p \in Products : rows[p].state # "none" /\ rows[p].attr = Absent} :
       \E found \in [ps -> Words] : Unsignalled(w, ps, [p \in ps |-> [rows[p] EXCEPT !.attr = found[p]]])

----------------------------------------------------------------------------
(* ts_reindex: the collection is dropped, created, and filled batch by batch from one query.  The
   names are those of the query, the attributes those of the time when a batch is built; documents
   that are refused are counted and left out.  `says` has what is yet to be built, the batch that
   is built, and what was refused. *)

Nothing == [p \in {} |-> Absent]

Reindex(w) == BeginIndexed(w, "index.drop", Products, [p \in Products |-> Keep], <<>>)

DropCollection(w) ==
  /\ At(w, "index.drop")
  /\ docs' = [p \in Products |-> Absent]
  /\ there' = FALSE
  /\ Proceed(w, [req[w] EXCEPT !.at = "index.create", !.called = TRUE])
  /\ UNCHANGED <<rows, strayed>>

\* It is an error when another reindex created it meanwhile.
CreateCollection(w) ==
  /\ At(w, "index.create") /\ ~there
  /\ there' = TRUE
  /\ Proceed(w, [req[w] EXCEPT !.at = "index.read"])
  /\ UNCHANGED <<rows, docs, strayed>>

ReadProducts(w) ==
  /\ At(w, "index.read")
  /\ Proceed(w, [req[w] EXCEPT !.at = "index.build",
                              !.says = <<[p \in LiveProducts |-> TextOf(rows[p])], Nothing, Nothing>>])
  /\ UNCHANGED indexVars

BuildBatch(w) ==
  LET todo == req[w].says[1] IN
  /\ At(w, "index.build")
  /\ \E ps \in (SUBSET DOMAIN todo) \ {{}} :
       Proceed(w, [req[w] EXCEPT !.at = "index.import",
                                 !.says = <<[p \in DOMAIN todo \ ps |-> todo[p]],
                                            [p \in ps |-> [name |-> todo[p].name, attr |-> rows[p].attr]],
                                            req[w].says[3]>>])
  /\ UNCHANGED indexVars

\* When another reindex has dropped the collection the import raises, and the command ends.
ImportBatch(w) ==
  LET batch == req[w].says[2] IN
  /\ At(w, "index.import") /\ there
  /\ \E failed \in SUBSET DOMAIN batch :
       /\ docs' = Sent([p \in DOMAIN batch \ failed |-> batch[p]])
       /\ Proceed(w, [req[w] EXCEPT !.at = "index.build",
                                   !.says = <<req[w].says[1], Nothing,
                                              [p \in DOMAIN req[w].says[3] \cup failed |-> Absent]>>])
  /\ UNCHANGED <<rows, there, strayed>>

EndReindex(w) ==
  /\ At(w, "index.build") /\ DOMAIN req[w].says[1] = {}
  /\ Settled(w, DOMAIN req[w].says[3])
  /\ Answer(w)
  /\ UNCHANGED <<rows, docs, there>>

IndexNext ==
  \E w \in Workers :
    \/ \E p \in Products :
         AddProduct(w, p) \/ EditProduct(w, p) \/ TouchProduct(w, p) \/ DeleteProduct(w, p) \/ SaveAnew(w, p)
    \/ DeleteMany(w) \/ SaveInside(w) \/ CommitProducts(w) \/ SaveAlone(w) \/ TellIndex(w) \/ DieIndexing(w)
    \/ PurgeProducts(w) \/ RenameValue(w) \/ MoveVariant(w) \/ RenameKey(w)
    \/ Reindex(w) \/ DropCollection(w) \/ CreateCollection(w) \/ ReadProducts(w)
    \/ BuildBatch(w) \/ ImportBatch(w) \/ EndReindex(w)

IndexSpec == SlotsInit /\ IndexInit /\ [][IndexNext]_<<slots, indexVars>>

IndexTypeOK ==
  /\ rows \in [Products -> ProductRow] /\ docs \in [Products -> Text \cup {Absent}]
  /\ there \in BOOLEAN /\ strayed \subseteq Products

\* A product that no request is at has the document its row calls for, or none when it is deleted,
\* and the next undisturbed save, or a reindex, repairs every document that went wrong.  What goes
\* wrong is known: a call failed or an import refused the document, a transaction rolled back or a
\* request died after its call, requests overlapped, an edit added an attribute, or what is indexed
\* was changed without a signal: by an UPDATE of products or attributes, by a variant that was deleted
\* or given to another product, or by the key of an attribute.
IndexAgrees ==
  \A p \in Products : p \notin strayed /\ AtProducts({p}) = {} => docs[p] = Shown(rows[p])

\* What the comment in search/signals.py says of edits: when one has saved an attribute and nothing
\* failed or interfered, the document of the product has it.
FoundWhenEdited ==
  [][\A w \in Workers :
       At(w, "product.commit") /\ req[w].apart /\ req[w].ok /\ rows' # rows =>
         \A p \in req[w].ps : req'[w] = Idle => docs'[p] = Shown(rows'[p])]_<<slots, indexVars>>
=============================================================================
