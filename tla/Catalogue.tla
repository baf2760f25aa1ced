----------------------------- MODULE Catalogue -----------------------------
(***************************************************************************)
(* Products, the categories and allergens they carry, and the allergens    *)
(* customers exclude.                                                      *)
(*                                                                         *)
(*   ProductsController (supplier)      the two forms and their submission *)
(*   ProductService                     createProduct, updateProduct       *)
(*   CategoriesController, AllergensController and AdminService            *)
(*                                      create, enable, disable, delete    *)
(*   ProfileController.updateExcludedAllergens                             *)
(*                                                                         *)
(* Categories and allergens are both Labels: an admin may disable or       *)
(* delete a label no product carries, and that is asked in one statement   *)
(* and done in another.  No handler runs in a transaction; only sync of    *)
(* the ORM (read the pivot rows, insert the missing, delete the others) is *)
(* one.  A form stays open in the browser for as long as its user likes,   *)
(* and nothing it submits is compared with the labels still enabled.       *)
(*                                                                         *)
(* Names, prices, images and barcodes are left out, and so is the audit    *)
(* row each handler writes last.                                           *)
(***************************************************************************)
EXTENDS Naturals, FiniteSets, FiniteSetsExt

CONSTANTS
  Product,     \* ids of products
  Category,    \* ids of categories
  Allergen,    \* ids of allergens
  User,        \* customers
  Request,     \* requests (and open forms) that can exist together
  None,        \* SQL null
  StartKey,    \* keypad numbers of the products there are at the start
  StartLabels, \* the labels there are at the start
  StartMarks,  \* the allergens each product carries and each user excludes
  StartCategory, \* the category of every product there is at the start
  MaxBegun,    \* bound: requests begun (purchases and deliveries included)
  MaxLost      \* bound: requests cut off

Label == Category \union Allergen
Owner == Product \union User
LabelState == {"absent", "active", "disabled", "deleted"}

ASSUME CatalogueAssumption ==
  /\ Category \intersect Allergen = {} /\ Product \intersect User = {}
  /\ IsFiniteSet(Product)
  /\ None \notin Label \union Owner
  /\ StartKey \in [Product -> Nat]
  /\ StartLabels \subseteq Label
  /\ StartCategory \in Category \intersect StartLabels
  /\ StartMarks \in [Owner -> SUBSET (Allergen \intersect StartLabels)]
  /\ \A p \in Product : StartKey[p] = 0 => StartMarks[p] = {}
  /\ \A p, q \in Product : StartKey[p] = StartKey[q] => StartKey[p] = 0 \/ p = q
  /\ MaxBegun \in Nat /\ MaxLost \in Nat

VARIABLES
  label,     \* tables categories and allergens
  key,       \* products.keypad_id; 0 for a product that does not exist
  category,  \* products.category_id
  marks,     \* tables product_allergen and user_excluded_allergen
  req,       \* the requests and forms
  begun, lost, \* counters of the bounds
  declared,  \* history: what the last completed request said of each owner
  blurred,   \* history: owners two requests wrote at once, or one half wrote
  crossed    \* history: labels that met a product while being retired

rows == <<label, key, category, marks>>
history == <<declared, blurred, crossed>>
catalogueVars == <<rows, req, begun, lost, history>>

Blank == [pc |-> "idle", owner |-> None, holds |-> {}, category |-> None,
          marks |-> {}, key |-> 0, label |-> None, want |-> None, read |-> {}]

Stored(p) == key[p] > 0
Products == {p \in Product : Stored(p)}
Existing == {l \in Label : label[l] \in {"active", "disabled"}}
Enabled == {l \in Label : label[l] = "active"}
LabelsOf(p) == ({category[p]} \ {None}) \union marks[p]
InUse(l) == \E p \in Products : l \in LabelsOf(p)

Init ==
  /\ label = [l \in Label |-> IF l \in StartLabels THEN "active" ELSE "absent"]
  /\ key = StartKey
  /\ category = [p \in Product |-> IF StartKey[p] = 0 THEN None ELSE StartCategory]
  /\ marks = StartMarks
  /\ req = [r \in Request |-> Blank]
  /\ begun = 0 /\ lost = 0
  /\ declared = [o \in Owner |->
       [category |-> IF o \in Product /\ StartKey[o] > 0 THEN StartCategory ELSE None,
        marks |-> StartMarks[o]]]
  /\ blurred = {} /\ crossed = {}

-----------------------------------------------------------------------------
Step(r, q) == req' = [req EXCEPT ![r] = q] /\ UNCHANGED <<begun, lost>>
End(r) == Step(r, Blank)

Begin(r, q) ==
  /\ req[r].pc = "idle" /\ begun < MaxBegun
  /\ begun' = begun + 1
  /\ req' = [req EXCEPT ![r] = q] /\ UNCHANGED lost

\* Some request is at work on the rows of o.
Writing(o) ==
  \E r \in Request : req[r].owner = o /\ req[r].pc \in {"attach", "save", "syncRead", "syncWrite"}

\* History: a product takes labels L while one of them is being retired.
Meets(L) ==
  crossed' = crossed \union
    {l \in L : \E r \in Request : req[r].label = l /\ req[r].pc \in {"saveLabel", "removeLabel"}}

-----------------------------------------------------------------------------
(* The forms.  What may be chosen is what the page was rendered with.      *)

\* Mutant: the forms offer disabled labels too.
AllOffered == Existing
\* ProductService.getCategories and getAllergens.
Offered == Enabled

\* ProductsController.create.
OpenCreateForm(r) ==
  /\ Begin(r, [Blank EXCEPT !.pc = "form", !.holds = Offered])
  /\ UNCHANGED <<rows, history>>

\* ProductsController.edit: the product's own labels are preselected.
OpenEditForm(r, p) ==
  /\ Stored(p)
  /\ Begin(r, [Blank EXCEPT !.pc = "form", !.owner = p, !.holds = Offered \union LabelsOf(p)])
  /\ UNCHANGED <<rows, history>>

\* Mutant: the number of products plus one.
CountKey == Cardinality(Products) + 1
\* createProduct: the largest keypad number plus one.
NextKey == Max({key[p] : p \in Product} \union {0}) + 1

\* What the validator keeps of the allergens A: the numbers of a JSON list.
\* In a list of form fields every id is a string, and none is kept.
Received(A, json) == IF json THEN A ELSE {}

\* ProductsController.store, up to the reading of the keypad number.  The
\* page posts form fields (forceFormData); a JSON list is what other callers
\* of the route send, as its functional test does.
SubmitCreate(r, c, A, json) ==
  LET received == Received(A, json) IN
  /\ req[r].pc = "form" /\ req[r].owner = None
  /\ c \in req[r].holds /\ A \subseteq req[r].holds
  /\ Step(r, [Blank EXCEPT !.pc = "insert", !.holds = {c} \union received,
                           !.category = c, !.marks = received, !.key = NextKey])
  /\ UNCHANGED <<rows, history>>

\* ProductsController.update, up to findOrFail: the copy of the row that
\* decides which columns are dirty is read now.  This page sends a JSON list.
SubmitEdit(r, c, A) ==
  LET p == req[r].owner IN
  /\ req[r].pc = "form" /\ p # None
  /\ c \in req[r].holds /\ A \subseteq req[r].holds
  /\ Step(r, [req[r] EXCEPT !.pc = "save", !.holds = {c} \union A,
                            !.category = c, !.marks = Received(A, TRUE), !.read = {category[p]}])
  /\ blurred' = IF Writing(p) THEN blurred \union {p} ELSE blurred
  /\ UNCHANGED <<rows, declared, crossed>>

\* The unique index on products.keypad_id.
Fits(k) == \A p \in Product : key[p] # k

\* createProduct: the row.  A taken number, or a category deleted since, is
\* an error page.
InsertProduct(r, p) ==
  LET q == req[r]
      fits == Fits(q.key) /\ q.category \in Existing
  IN
  /\ q.pc = "insert" /\ ~Stored(p)
  /\ \/ /\ ~fits
        /\ End(r) /\ UNCHANGED <<rows, history>>
     \/ /\ fits
        /\ key' = [key EXCEPT ![p] = q.key]
        /\ category' = [category EXCEPT ![p] = q.category]
        /\ IF q.marks = {} THEN End(r)
                           ELSE Step(r, [q EXCEPT !.pc = "attach", !.owner = p])
        /\ declared' = [declared EXCEPT ![p] = [category |-> q.category, marks |-> {}]]
        /\ Meets({q.category})
        /\ UNCHANGED <<label, marks, blurred>>

\* createProduct: the allergens, in one statement.  When one was deleted
\* since, the statement fails and the product stays without any.
AttachAllergens(r) ==
  LET q == req[r] IN
  /\ q.pc = "attach"
  /\ End(r)
  /\ \/ /\ q.marks \subseteq Existing /\ q.marks \intersect marks[q.owner] = {}
        /\ marks' = [marks EXCEPT ![q.owner] = @ \union q.marks]
        /\ declared' = [declared EXCEPT ![q.owner].marks = q.marks]
        /\ Meets(q.marks)
        /\ UNCHANGED <<label, key, category, blurred>>
     \/ /\ ~(q.marks \subseteq Existing /\ q.marks \intersect marks[q.owner] = {})
        /\ blurred' = blurred \union {q.owner}
        /\ UNCHANGED <<rows, declared, crossed>>

\* updateProduct: save writes the category when the copy had another one.
SaveProduct(r) ==
  LET q == req[r] IN
  /\ q.pc = "save"
  /\ \/ /\ q.category \in q.read
        /\ Step(r, [q EXCEPT !.pc = "syncRead", !.read = {}])
        /\ UNCHANGED <<rows, history>>
     \/ /\ q.category \notin q.read /\ q.category \in Existing
        /\ category' = [category EXCEPT ![q.owner] = q.category]
        /\ Meets({q.category})
        /\ Step(r, [q EXCEPT !.pc = "syncRead", !.read = {}])
        /\ UNCHANGED <<label, key, marks, declared, blurred>>
     \/ /\ q.category \notin q.read /\ q.category \notin Existing
        /\ End(r) /\ UNCHANGED <<rows, history>>

-----------------------------------------------------------------------------
(* sync, of a product's allergens or of a user's exclusions.               *)

SyncRead(r) ==
  /\ req[r].pc = "syncRead"
  /\ Step(r, [req[r] EXCEPT !.pc = "syncWrite", !.read = marks[req[r].owner]])
  /\ UNCHANGED <<rows, history>>

\* Mutant: sync never detaches.
KeepsAll(old, new, seen) == old \union new
\* Insert what was missing and delete what is not wanted, by what was read.
Synced(old, new, seen) == (old \ (seen \ new)) \union (new \ seen)

\* A row inserted by another sync since, or an allergen deleted since, fails
\* the whole transaction; the category saved before stays.
SyncWrite(r) ==
  LET q == req[r]
      o == q.owner
      new == q.marks \ q.read
      fits == new \subseteq Existing /\ new \intersect marks[o] = {}
  IN
  /\ q.pc = "syncWrite"
  /\ End(r)
  /\ \/ /\ fits
        /\ marks' = [marks EXCEPT ![o] = Synced(@, q.marks, q.read)]
        /\ declared' = [declared EXCEPT ![o] = [category |-> q.category, marks |-> q.marks]]
        /\ IF o \in Product THEN Meets(new) ELSE UNCHANGED crossed
        /\ UNCHANGED <<label, key, category, blurred>>
     \/ /\ ~fits
        /\ blurred' = blurred \union {o}
        /\ UNCHANGED <<rows, declared, crossed>>

\* ProfileController.updateExcludedAllergens.  The page may be old: any
\* allergen there ever was can be sent.
ExcludeAllergens(r, u, A) ==
  /\ \A a \in A : label[a] # "absent"
  /\ Begin(r, [Blank EXCEPT !.pc = "syncRead", !.owner = u, !.marks = A])
  /\ blurred' = IF Writing(u) THEN blurred \union {u} ELSE blurred
  /\ UNCHANGED <<rows, declared, crossed>>

-----------------------------------------------------------------------------
(* Labels.                                                                 *)

\* A label is inserted, enabled, under an id never used before.
InsertLabel(r, l) ==
  /\ label[l] = "absent"
  /\ Begin(r, Blank)
  /\ label' = [label EXCEPT ![l] = "active"]
  /\ UNCHANGED <<key, category, marks, history>>

CreateCategory(r) == \E c \in Category : InsertLabel(r, c)
CreateAllergen(r) == \E a \in Allergen : InsertLabel(r, a)

\* findOrFail; only disabling asks for products first.
FindLabel(r, l, to) ==
  /\ l \in Existing
  /\ Begin(r, [Blank EXCEPT !.pc = IF to = "active" THEN "saveLabel" ELSE "checkLabel",
                            !.label = l, !.want = to, !.read = {label[l]}])
  /\ UNCHANGED <<rows, history>>

UpdateCategory(r) == \E c \in Category, to \in {"active", "disabled"} : FindLabel(r, c, to)
UpdateAllergen(r) == \E a \in Allergen, to \in {"active", "disabled"} : FindLabel(r, a, to)
DeleteCategory(r) == \E c \in Category : FindLabel(r, c, "deleted")
DeleteAllergen(r) == \E a \in Allergen : FindLabel(r, a, "deleted")

\* CATEGORY_HAS_PRODUCTS, ALLERGEN_HAS_PRODUCTS.
Refused(l) == InUse(l)

CheckLabel(r) ==
  LET q == req[r] IN
  /\ q.pc = "checkLabel"
  /\ IF Refused(q.label) THEN End(r)
     ELSE Step(r, [q EXCEPT !.pc = IF q.want = "deleted" THEN "removeLabel" ELSE "saveLabel"])
  /\ UNCHANGED <<rows, history>>

\* save: nothing when the copy had that value already or the row is gone.
\* History: a form that still offers the label will bring it back.
SaveLabel(r) ==
  LET q == req[r]
      writes == q.want \notin q.read /\ q.label \in Existing
      open == \E o \in Request : q.label \in req[o].holds
  IN
  /\ q.pc = "saveLabel"
  /\ End(r)
  /\ label' = IF writes THEN [label EXCEPT ![q.label] = q.want] ELSE label
  /\ crossed' = IF writes /\ q.want = "disabled" /\ open THEN crossed \union {q.label} ELSE crossed
  /\ UNCHANGED <<key, category, marks, declared, blurred>>

\* The foreign keys: products lose the category (ON DELETE SET NULL), pivot
\* rows go with the allergen (CASCADE).
Cascade(l) ==
  /\ category' = [p \in Product |-> IF category[p] = l THEN None ELSE category[p]]
  /\ marks' = [o \in Owner |-> marks[o] \ {l}]

\* delete, which finds nothing when the row is gone.
RemoveLabel(r) ==
  LET l == req[r].label IN
  /\ req[r].pc = "removeLabel"
  /\ End(r)
  /\ label' = [label EXCEPT ![l] = "deleted"]
  /\ Cascade(l)
  /\ UNCHANGED <<key, history>>

-----------------------------------------------------------------------------
\* A request is cut off (a crash, a lost connection) between two statements.
Cut(r) ==
  LET q == req[r] IN
  /\ q.pc \notin {"idle", "form"} /\ lost < MaxLost
  /\ lost' = lost + 1
  /\ req' = [req EXCEPT ![r] = Blank] /\ UNCHANGED begun
  /\ blurred' = IF q.pc \in {"attach", "syncRead", "syncWrite"}
                THEN blurred \union {q.owner} ELSE blurred
  /\ UNCHANGED <<rows, declared, crossed>>

ProductStep(r) ==
  \/ OpenCreateForm(r)
  \/ \E p \in Product : OpenEditForm(r, p) \/ InsertProduct(r, p)
  \/ \E c \in Category, A \in SUBSET Allergen :
       SubmitEdit(r, c, A) \/ \E json \in BOOLEAN : SubmitCreate(r, c, A, json)
  \/ AttachAllergens(r) \/ SaveProduct(r)

LabelStep(r) ==
  \/ CreateCategory(r) \/ UpdateCategory(r) \/ DeleteCategory(r)
  \/ CreateAllergen(r) \/ UpdateAllergen(r) \/ DeleteAllergen(r)
  \/ CheckLabel(r) \/ SaveLabel(r) \/ RemoveLabel(r)

CatalogueNext ==
  \E r \in Request :
    \/ ProductStep(r) \/ LabelStep(r)
    \/ SyncRead(r) \/ SyncWrite(r)
    \/ \E u \in User, A \in SUBSET Allergen : ExcludeAllergens(r, u, A)
    \/ Cut(r)

CatalogueSpec == Init /\ [][CatalogueNext]_catalogueVars

-----------------------------------------------------------------------------
(* Properties.                                                             *)

\* Rows refer to rows there are: the foreign keys.
CatalogueTypeOK ==
  /\ label \in [Label -> LabelState]
  /\ key \in [Product -> Nat]
  /\ category \in [Product -> (Category \intersect Existing) \union {None}]
  /\ marks \in [Owner -> SUBSET (Allergen \intersect Existing)]
  /\ \A r \in Request :
       /\ req[r].owner \in Owner \union {None} /\ req[r].label \in Label \union {None}
       /\ req[r].marks \subseteq Allergen /\ req[r].holds \subseteq Label

\* The products created since the start carry the numbers that follow the
\* largest one, each once, whoever is created at the same time and whoever
\* fails: createProduct reads the maximum long before it inserts.
KeypadNumbersRun ==
  LET old == {StartKey[p] : p \in Product}
      new == {p \in Products : StartKey[p] = 0}
  IN {key[p] : p \in new} = {Max(old \union {0}) + i : i \in 1 .. Cardinality(new)}

\* No product carries a disabled label, and none is without a category,
\* unless the label met a product between the check and the write of the
\* admin who retired it, or was still offered by a form opened before.
RetiredIsUnused ==
  /\ \A p \in Products, l \in Label :
       l \in LabelsOf(p) /\ label[l] = "disabled" => l \in crossed
  /\ (\E p \in Products : category[p] = None)
       => \E c \in Category \intersect crossed : label[c] = "deleted"

\* A product carries the category and the allergens the last completed
\* request for it held once validated, and a user excludes what the last
\* completed request said, but for labels deleted since: except where two
\* requests wrote at once or one was cut off or refused half way.  What the
\* validator drops (all allergens of the create page) is not held.
CarriesWhatWasDeclared ==
  \A o \in Owner \ blurred :
    ~Writing(o) =>
      /\ marks[o] = declared[o].marks \intersect Existing
      /\ o \in Product => category[o] \in {declared[o].category, None}
=============================================================================
