-------------------------- MODULE CatalogueProofs --------------------------
(* Theorems about Catalogue and Recommendations: for any products, labels, *)
(* users, requests and bounds.                                             *)
EXTENDS Recommendations, FiniteSetTheorems, WellFoundedInduction, TLAPS

-----------------------------------------------------------------------------
(* The largest of finitely many numbers. *)

LEMMA Least ==
  ASSUME NEW S \in SUBSET Nat, S # {}
  PROVE  \E x \in S : \A y \in S : x <= y
  <1>1. \E x \in S : \A y \in S : ~(<<y, x>> \in OpToRel(<, Nat))
    BY NatLessThanWellFounded, WFMin, Zenon
  <1>2. PICK x \in S : \A y \in S : ~(<<y, x>> \in OpToRel(<, Nat))
    BY <1>1
  <1>3. ASSUME NEW y \in S PROVE x <= y
    <2>1. x \in Nat /\ y \in Nat
      OBVIOUS
    <2>2. ~(y < x)
      BY <1>2, <2>1 DEF OpToRel
    <2> QED
      BY <2>1, <2>2
  <1> QED
    BY <1>3

LEMMA Bounded ==
  ASSUME NEW S, S \subseteq Nat, IsFiniteSet(S)
  PROVE  \E b \in Nat : \A x \in S : x <= b
  <1>1. PICK n \in Nat : ExistsSurjection(1 .. n, S)
    BY FS_NatSurjection
  <1>2. PICK f : f \in Surjection(1 .. n, S)
    BY <1>1 DEF ExistsSurjection
  <1>3. f \in [1 .. n -> S] /\ \A x \in S : \E i \in 1 .. n : f[i] = x
    BY <1>2 DEF Surjection
  <1> DEFINE Under(m, b) == \A i \in 1 .. n : i <= m => f[i] <= b
             Unbounded == {m \in 0 .. n : ~\E b \in Nat : Under(m, b)}
  <1>4. CASE n \in Unbounded
    <2>1. Unbounded \subseteq Nat /\ Unbounded # {}
      BY <1>4
    <2>2. PICK m \in Unbounded : \A k \in Unbounded : m <= k
      BY <2>1, Least
    <2>3. m \in 0 .. n /\ ~\E b \in Nat : Under(m, b)
      BY <2>2
    <2>4. m # 0
      <3>1. Under(0, 0)
        OBVIOUS
      <3> QED
        BY <2>3, <3>1
    <2>5. m \in 1 .. n /\ m - 1 \in 0 .. n /\ m - 1 \notin Unbounded
      <3>1. m \in 1 .. n /\ m - 1 \in 0 .. n /\ ~(m <= m - 1)
        BY <1>1, <2>3, <2>4
      <3> HIDE DEF Unbounded
      <3> QED
        BY <2>2, <3>1
    <2>6. PICK b \in Nat : Under(m - 1, b)
      BY <2>5
    <2>7. f[m] \in Nat
      BY <1>3, <2>5
    <2>8. Under(m, b + f[m])
      <3> SUFFICES ASSUME NEW i \in 1 .. n, i <= m PROVE f[i] <= b + f[m]
        OBVIOUS
      <3>1. f[i] \in Nat
        BY <1>3
      <3>2. CASE i = m
        BY <2>7, <3>1, <3>2
      <3>3. CASE i # m
        <4>1. i <= m - 1
          BY <2>3, <3>3
        <4>2. f[i] <= b
          BY <2>6, <4>1
        <4> QED
          BY <2>7, <3>1, <4>2
      <3> QED
        BY <3>2, <3>3
    <2>9. b + f[m] \in Nat
      BY <2>7
    <2> QED
      BY <2>3, <2>8, <2>9
  <1>5. CASE n \notin Unbounded
    <2>1. PICK b \in Nat : Under(n, b)
      BY <1>5
    <2>2. ASSUME NEW x \in S PROVE x <= b
      <3>1. PICK i \in 1 .. n : f[i] = x
        BY <1>3
      <3>2. i <= n
        BY <1>1
      <3> QED
        BY <2>1, <3>1, <3>2
    <2> QED
      BY <2>1, <2>2
  <1> QED
    BY <1>4, <1>5

LEMMA MaxIs ==
  ASSUME NEW S, S \subseteq Nat, IsFiniteSet(S), S # {}
  PROVE  Max(S) \in S /\ \A x \in S : x <= Max(S)
  <1>1. PICK b \in Nat : \A x \in S : x <= b
    BY Bounded
  <1> DEFINE T == {b - x : x \in S}
  <1>2. T \in SUBSET Nat /\ T # {}
    <2>1. \A x \in S : b - x \in Nat
      BY <1>1
    <2>2. PICK x \in S : TRUE
      OBVIOUS
    <2>3. b - x \in T
      OBVIOUS
    <2> QED
      BY <2>1, <2>3
  <1>3. PICK t \in T : \A u \in T : t <= u
    BY <1>2, Least
  <1>4. PICK x \in S : t = b - x
    BY <1>3
  <1>5. ASSUME NEW y \in S PROVE x >= y
    <2>1. b - y \in T
      OBVIOUS
    <2>2. x \in Nat /\ y \in Nat
      OBVIOUS
    <2> QED
      BY <1>1, <1>3, <1>4, <2>1, <2>2
  <1>6. \E z \in S : \A y \in S : z >= y
    BY <1>5
  <1>7. Max(S) \in S /\ \A y \in S : Max(S) >= y
    BY <1>6 DEF Max
  <1> QED
    BY <1>7

\* The largest keypad number of a table k.
LEMMA MaxKeyIs ==
  ASSUME NEW k \in [Product -> Nat]
  PROVE  LET S == {k[p] : p \in Product} \union {0}
         IN  Max(S) \in S /\ Max(S) \in Nat /\ \A p \in Product : k[p] <= Max(S)
  <1> DEFINE R == {k[p] : p \in Product}
             S == R \union {0}
  <1>1. k \in Surjection(Product, R)
    BY DEF Surjection
  <1>2. IsFiniteSet(R)
    BY <1>1, FS_Surjection, CatalogueAssumption
  <1>3. IsFiniteSet(S)
    BY <1>2, FS_AddElement
  <1>4. S \subseteq Nat /\ S # {} /\ \A p \in Product : k[p] \in S
    OBVIOUS
  <1> HIDE DEF S
  <1>5. Max(S) \in S /\ \A x \in S : x <= Max(S)
    BY <1>3, <1>4, MaxIs
  <1> QED
    BY <1>4, <1>5 DEF S

-----------------------------------------------------------------------------
(* Type correctness of the catalogue, and the shape of its requests. *)

Stage == {"idle", "form", "insert", "attach", "save", "syncRead", "syncWrite",
          "checkLabel", "saveLabel", "removeLabel"}
Record ==
  [pc : Stage, owner : Owner \union {None}, holds : SUBSET Label,
   category : Category \union {None}, marks : SUBSET Allergen, key : Nat,
   label : Label \union {None}, want : LabelState \union {None},
   read : SUBSET (Label \union LabelState \union {None})]
Syncing(q) == q.pc \in {"syncRead", "syncWrite"}
Shape(q) ==
  /\ q.pc = "form" => q.owner \in Product \union {None}
  /\ q.pc \in {"attach", "save"} => q.owner \in Product
  /\ Syncing(q) => q.owner \in Owner
  /\ q.pc \in {"insert", "attach", "save"} \/ (Syncing(q) /\ q.owner \in Product) =>
       q.category \in Category /\ {q.category} \union q.marks \subseteq q.holds
  /\ q.pc \in {"checkLabel", "saveLabel", "removeLabel"} => q.label \in Label
  /\ q.pc = "insert" => q.key > 0
  /\ q.pc = "checkLabel" => q.want \in {"disabled", "deleted"}
  /\ q.pc = "saveLabel" => q.want \in {"active", "disabled"}

Typed ==
  /\ label \in [Label -> LabelState] /\ key \in [Product -> Nat]
  /\ category \in [Product -> (Category \intersect Existing) \union {None}]
  /\ marks \in [Owner -> SUBSET (Allergen \intersect Existing)]
  /\ declared \in [Owner -> [category : Category \union {None}, marks : SUBSET Allergen]]
  /\ req \in [Request -> Record] /\ \A r \in Request : Shape(req[r])
  /\ \A r \in Request : req[r].owner \in Product => Stored(req[r].owner)
  /\ \A p \in Product : ~Stored(p) => marks[p] = {}

\* Only the request r changes.
Only(r) == req' \in [Request -> Record] /\ \A s \in Request \ {r} : req'[s] = req[s]
\* The request r goes on with what it has.
Same(r) ==
  /\ req'[r].owner = req[r].owner /\ req'[r].holds = req[r].holds
  /\ req'[r].category = req[r].category /\ req'[r].marks = req[r].marks
  /\ req'[r].label = req[r].label /\ req'[r].want = req[r].want

LEMMA Changed ==
  ASSUME Typed, NEW r \in Request, NEW q \in Record, req' = [req EXCEPT ![r] = q]
  PROVE  Only(r) /\ req'[r] = q
  BY DEF Typed, Only

LEMMA BlankIs ==
  /\ Blank \in Record /\ Shape(Blank) /\ Blank.pc = "idle" /\ Blank.owner = None
  /\ Blank.holds = {} /\ Blank.marks = {} /\ Blank.category = None /\ Blank.label = None
  BY DEF Blank, Record, Stage, Shape, Syncing

LEMMA NoneIs == None \notin Label /\ None \notin Owner /\ Product \intersect User = {}
  BY CatalogueAssumption

LEMMA NextKeyIs ==
  ASSUME Typed
  PROVE  NextKey \in Nat /\ NextKey > 0
  BY MaxKeyIs DEF Typed, NextKey

LEMMA FieldsOf ==
  ASSUME Typed, NEW r \in Request
  PROVE  req[r] \in Record /\ Shape(req[r])
  BY DEF Typed

\* The rows of a product.
LEMMA LabelsTyped ==
  ASSUME Typed, NEW p \in Product
  PROVE  /\ LabelsOf(p) \subseteq Existing /\ marks[p] \subseteq LabelsOf(p)
         /\ category[p] # None => category[p] \in LabelsOf(p)
  BY NoneIs DEF Typed, LabelsOf, Owner

-----------------------------------------------------------------------------
(* What each step does to its request. *)

LEMMA Ends ==
  ASSUME Typed, NEW r \in Request, req' = [req EXCEPT ![r] = Blank]
  PROVE  Only(r) /\ req'[r] = Blank
  BY Changed, BlankIs

LEMMA OpenCreateFormDoes ==
  ASSUME Typed, NEW r \in Request, OpenCreateForm(r)
  PROVE  /\ Only(r) /\ Shape(req'[r]) /\ UNCHANGED <<rows, history>>
         /\ req'[r].pc = "form" /\ req'[r].owner = None /\ req'[r].holds = Enabled
         /\ req'[r].marks = {}
  <1> DEFINE q == [Blank EXCEPT !.pc = "form", !.holds = Offered]
  <1>1. req' = [req EXCEPT ![r] = q] /\ UNCHANGED <<rows, history>>
    BY DEF OpenCreateForm, Begin
  <1>2. Enabled \subseteq Label
    BY DEF Enabled
  <1>3. /\ q \in Record /\ q.pc = "form" /\ q.owner = None /\ q.holds = Enabled /\ q.marks = {}
    BY <1>2, BlankIs DEF Record, Stage, Offered
  <1> HIDE DEF q
  <1>4. Shape(q)
    BY <1>3 DEF Shape, Syncing
  <1> QED
    BY <1>1, <1>3, <1>4, Changed

LEMMA OpenEditFormDoes ==
  ASSUME Typed, NEW r \in Request, NEW p \in Product, OpenEditForm(r, p)
  PROVE  /\ Only(r) /\ Shape(req'[r]) /\ UNCHANGED <<rows, history>> /\ Stored(p)
         /\ req'[r].pc = "form" /\ req'[r].owner = p
         /\ req'[r].holds = Enabled \union LabelsOf(p) /\ req'[r].marks = {}
  <1> DEFINE q == [Blank EXCEPT !.pc = "form", !.owner = p, !.holds = Offered \union LabelsOf(p)]
  <1>1. req' = [req EXCEPT ![r] = q] /\ UNCHANGED <<rows, history>> /\ Stored(p)
    BY DEF OpenEditForm, Begin
  <1>2. Enabled \union LabelsOf(p) \subseteq Label
    BY LabelsTyped DEF Enabled, Existing
  <1>3. /\ q \in Record /\ q.pc = "form" /\ q.owner = p /\ q.holds = Enabled \union LabelsOf(p)
        /\ q.marks = {}
    BY <1>2, BlankIs DEF Record, Stage, Offered, Owner
  <1> HIDE DEF q
  <1>4. Shape(q)
    BY <1>3 DEF Shape, Syncing
  <1> QED
    BY <1>1, <1>3, <1>4, Changed

LEMMA SubmitCreateDoes ==
  ASSUME Typed, NEW r \in Request, NEW c \in Category, NEW A \in SUBSET Allergen,
         NEW json \in BOOLEAN, SubmitCreate(r, c, A, json)
  PROVE  /\ Only(r) /\ Shape(req'[r]) /\ UNCHANGED <<rows, history>>
         /\ req[r].pc = "form" /\ {c} \union Received(A, json) \subseteq req[r].holds
         /\ req'[r].pc = "insert" /\ req'[r].owner = None
         /\ req'[r].holds = {c} \union Received(A, json)
         /\ req'[r].category = c /\ req'[r].marks = Received(A, json) /\ req'[r].key = NextKey
  <1> DEFINE M == Received(A, json)
             q == [Blank EXCEPT !.pc = "insert", !.holds = {c} \union M,
                                !.category = c, !.marks = M, !.key = NextKey]
  <1>0. M \subseteq A
    BY DEF Received
  <1>1. /\ req' = [req EXCEPT ![r] = q] /\ UNCHANGED <<rows, history>>
        /\ req[r].pc = "form" /\ {c} \union A \subseteq req[r].holds
    BY DEF SubmitCreate, Step
  <1> HIDE DEF M
  <1>2. {c} \union M \subseteq Label /\ M \in SUBSET Allergen /\ {c} \union M \subseteq req[r].holds
    BY <1>0, <1>1 DEF Label
  <1>3. /\ q \in Record /\ q.pc = "insert" /\ q.owner = None /\ q.holds = {c} \union M
        /\ q.category = c /\ q.marks = M /\ q.key = NextKey
    BY <1>2, BlankIs, NextKeyIs DEF Record, Stage
  <1> HIDE DEF q
  <1>4. Shape(q)
    BY <1>3, NextKeyIs DEF Shape, Syncing
  <1> QED
    BY <1>1, <1>2, <1>3, <1>4, Changed DEF M

LEMMA SubmitEditDoes ==
  ASSUME Typed, NEW r \in Request, NEW c \in Category, NEW A \in SUBSET Allergen,
         SubmitEdit(r, c, A)
  PROVE  /\ Only(r) /\ Shape(req'[r]) /\ UNCHANGED <<rows, declared, crossed>>
         /\ blurred' = IF Writing(req[r].owner) THEN blurred \union {req[r].owner} ELSE blurred
         /\ req[r].pc = "form" /\ {c} \union A \subseteq req[r].holds /\ req[r].owner \in Product
         /\ req'[r].pc = "save" /\ req'[r].owner = req[r].owner /\ req'[r].holds = {c} \union A
         /\ req'[r].category = c /\ req'[r].marks = A /\ req'[r].read = {category[req[r].owner]}
  <1> DEFINE q == [req[r] EXCEPT !.pc = "save", !.holds = {c} \union A,
                                 !.category = c, !.marks = A, !.read = {category[req[r].owner]}]
  <1>1. /\ req' = [req EXCEPT ![r] = q] /\ UNCHANGED <<rows, declared, crossed>>
        /\ blurred' = IF Writing(req[r].owner) THEN blurred \union {req[r].owner} ELSE blurred
        /\ req[r].pc = "form" /\ {c} \union A \subseteq req[r].holds /\ req[r].owner # None
    BY DEF SubmitEdit, Step, Received
  <1>2. {c} \union A \subseteq Label /\ req[r] \in Record /\ req[r].owner \in Product
    BY <1>1, FieldsOf DEF Label, Shape
  <1>3. category[req[r].owner] \in Label \union {None}
    BY <1>2 DEF Typed, Label
  <1>4. /\ q \in Record /\ q.pc = "save" /\ q.owner = req[r].owner /\ q.holds = {c} \union A
        /\ q.category = c /\ q.marks = A /\ q.read = {category[req[r].owner]}
    BY <1>2, <1>3 DEF Record, Stage
  <1> HIDE DEF q
  <1>5. Shape(q)
    BY <1>2, <1>4 DEF Shape, Syncing
  <1> QED
    BY <1>1, <1>2, <1>4, <1>5, Changed

LEMMA InsertProductDoes ==
  ASSUME Typed, NEW r \in Request, NEW p \in Product, InsertProduct(r, p)
  PROVE  /\ Only(r) /\ Shape(req'[r]) /\ req[r].pc = "insert" /\ ~Stored(p)
         /\ \/ UNCHANGED <<rows, history>> /\ req'[r] = Blank
            \/ /\ Fits(req[r].key) /\ req[r].category \in Category \intersect Existing
               /\ key' = [key EXCEPT ![p] = req[r].key]
               /\ category' = [category EXCEPT ![p] = req[r].category]
               /\ declared' = [declared EXCEPT ![p] = [category |-> req[r].category, marks |-> {}]]
               /\ Meets({req[r].category}) /\ UNCHANGED <<label, marks, blurred>>
               /\ \/ req'[r] = Blank /\ req[r].marks = {}
                  \/ /\ req'[r].pc = "attach" /\ req'[r].owner = p /\ req'[r].holds = req[r].holds
                     /\ req'[r].category = req[r].category /\ req'[r].marks = req[r].marks
  <1> DEFINE q == [req[r] EXCEPT !.pc = "attach", !.owner = p]
  <1>1. req[r].pc = "insert" /\ ~Stored(p)
    BY DEF InsertProduct
  <1>2. req[r] \in Record /\ Shape(req[r])
    BY FieldsOf
  <1>3. /\ q \in Record /\ q.pc = "attach" /\ q.owner = p /\ q.holds = req[r].holds
        /\ q.category = req[r].category /\ q.marks = req[r].marks
    BY <1>2 DEF Record, Stage, Owner
  <1>4. \/ req' = [req EXCEPT ![r] = Blank] /\ UNCHANGED <<rows, history>>
        \/ /\ Fits(req[r].key) /\ req[r].category \in Existing
           /\ key' = [key EXCEPT ![p] = req[r].key]
           /\ category' = [category EXCEPT ![p] = req[r].category]
           /\ declared' = [declared EXCEPT ![p] = [category |-> req[r].category, marks |-> {}]]
           /\ Meets({req[r].category}) /\ UNCHANGED <<label, marks, blurred>>
           /\ \/ req' = [req EXCEPT ![r] = Blank] /\ req[r].marks = {}
              \/ req' = [req EXCEPT ![r] = q]
    BY DEF InsertProduct, Step, End
  <1> HIDE DEF q
  <1>5. Shape(q)
    BY <1>1, <1>2, <1>3 DEF Shape, Syncing
  <1>6. req[r].category \in Category
    BY <1>1, <1>2 DEF Shape
  <1>7. req' = [req EXCEPT ![r] = Blank] => Only(r) /\ req'[r] = Blank
    BY Ends
  <1>8. req' = [req EXCEPT ![r] = q] => Only(r) /\ req'[r] = q
    BY <1>3, Changed
  <1> QED
    BY <1>1, <1>3, <1>4, <1>5, <1>6, <1>7, <1>8, BlankIs

LEMMA AttachAllergensDoes ==
  ASSUME Typed, NEW r \in Request, AttachAllergens(r)
  PROVE  /\ Only(r) /\ req'[r] = Blank /\ req[r].pc = "attach" /\ req[r].owner \in Product
         /\ \/ /\ req[r].marks \subseteq Existing /\ req[r].marks \intersect marks[req[r].owner] = {}
               /\ marks' = [marks EXCEPT ![req[r].owner] = @ \union req[r].marks]
               /\ declared' = [declared EXCEPT ![req[r].owner].marks = req[r].marks]
               /\ Meets(req[r].marks) /\ UNCHANGED <<label, key, category, blurred>>
            \/ /\ blurred' = blurred \union {req[r].owner}
               /\ UNCHANGED <<rows, declared, crossed>>
  <1>1. req[r].pc = "attach" /\ req' = [req EXCEPT ![r] = Blank]
    BY DEF AttachAllergens, End, Step
  <1>2. req[r].owner \in Product
    BY <1>1, FieldsOf DEF Shape
  <1> QED
    BY <1>1, <1>2, Ends DEF AttachAllergens

LEMMA SaveProductDoes ==
  ASSUME Typed, NEW r \in Request, SaveProduct(r)
  PROVE  /\ Only(r) /\ Shape(req'[r]) /\ req[r].pc = "save" /\ req[r].owner \in Product
         /\ \/ req'[r] = Blank /\ UNCHANGED <<rows, history>>
            \/ /\ req'[r].pc = "syncRead" /\ Same(r)
               /\ \/ req[r].category \in req[r].read /\ UNCHANGED <<rows, history>>
                  \/ /\ req[r].category \in Category \intersect Existing
                     /\ category' = [category EXCEPT ![req[r].owner] = req[r].category]
                     /\ Meets({req[r].category})
                     /\ UNCHANGED <<label, key, marks, declared, blurred>>
  <1> DEFINE q == [req[r] EXCEPT !.pc = "syncRead", !.read = {}]
  <1>1. req[r].pc = "save"
    BY DEF SaveProduct
  <1>2. req[r] \in Record /\ Shape(req[r])
    BY FieldsOf
  <1>3. /\ q \in Record /\ q.pc = "syncRead" /\ q.owner = req[r].owner /\ q.holds = req[r].holds
        /\ q.category = req[r].category /\ q.marks = req[r].marks
        /\ q.label = req[r].label /\ q.want = req[r].want
    BY <1>2 DEF Record, Stage
  <1>4. \/ req' = [req EXCEPT ![r] = Blank] /\ UNCHANGED <<rows, history>>
        \/ /\ req' = [req EXCEPT ![r] = q]
           /\ \/ req[r].category \in req[r].read /\ UNCHANGED <<rows, history>>
              \/ /\ req[r].category \in Existing
                 /\ category' = [category EXCEPT ![req[r].owner] = req[r].category]
                 /\ Meets({req[r].category})
                 /\ UNCHANGED <<label, key, marks, declared, blurred>>
    BY DEF SaveProduct, Step, End
  <1> HIDE DEF q
  <1>5. Shape(q)
    BY <1>1, <1>2, <1>3 DEF Shape, Syncing, Owner
  <1>6. req[r].category \in Category /\ req[r].owner \in Product
    BY <1>1, <1>2 DEF Shape
  <1>7. req' = [req EXCEPT ![r] = Blank] => Only(r) /\ req'[r] = Blank
    BY Ends
  <1>8. req' = [req EXCEPT ![r] = q] => Only(r) /\ req'[r] = q
    BY <1>3, Changed
  <1> QED
    BY <1>1, <1>3, <1>4, <1>5, <1>6, <1>7, <1>8, BlankIs DEF Same

LEMMA SyncReadDoes ==
  ASSUME Typed, NEW r \in Request, SyncRead(r)
  PROVE  /\ Only(r) /\ Shape(req'[r]) /\ UNCHANGED <<rows, history>>
         /\ req[r].pc = "syncRead" /\ req[r].owner \in Owner
         /\ req'[r].pc = "syncWrite" /\ Same(r) /\ req'[r].read = marks[req[r].owner]
  <1> DEFINE q == [req[r] EXCEPT !.pc = "syncWrite", !.read = marks[req[r].owner]]
  <1>1. req[r].pc = "syncRead" /\ req' = [req EXCEPT ![r] = q] /\ UNCHANGED <<rows, history>>
    BY DEF SyncRead, Step
  <1>2. req[r] \in Record /\ Shape(req[r])
    BY FieldsOf
  <1>3. req[r].owner \in Owner /\ marks[req[r].owner] \subseteq Label
    BY <1>1, <1>2 DEF Shape, Syncing, Typed, Label
  <1>4. /\ q \in Record /\ q.pc = "syncWrite" /\ q.owner = req[r].owner /\ q.holds = req[r].holds
        /\ q.category = req[r].category /\ q.marks = req[r].marks
        /\ q.label = req[r].label /\ q.want = req[r].want /\ q.read = marks[req[r].owner]
    BY <1>2, <1>3 DEF Record, Stage
  <1> HIDE DEF q
  <1>5. Shape(q)
    BY <1>1, <1>2, <1>4 DEF Shape, Syncing
  <1> QED
    BY <1>1, <1>3, <1>4, <1>5, Changed DEF Same

LEMMA SyncWriteDoes ==
  ASSUME Typed, NEW r \in Request, SyncWrite(r)
  PROVE  /\ Only(r) /\ req'[r] = Blank /\ req[r].pc = "syncWrite" /\ req[r].owner \in Owner
         /\ \/ /\ req[r].marks \ req[r].read \subseteq Existing
               /\ marks' = [marks EXCEPT ![req[r].owner] = Synced(@, req[r].marks, req[r].read)]
               /\ declared' = [declared EXCEPT ![req[r].owner] =
                                 [category |-> req[r].category, marks |-> req[r].marks]]
               /\ IF req[r].owner \in Product THEN Meets(req[r].marks \ req[r].read)
                  ELSE UNCHANGED crossed
               /\ UNCHANGED <<label, key, category, blurred>>
            \/ /\ blurred' = blurred \union {req[r].owner}
               /\ UNCHANGED <<rows, declared, crossed>>
  <1>1. req[r].pc = "syncWrite" /\ req' = [req EXCEPT ![r] = Blank]
    BY DEF SyncWrite, End, Step
  <1>2. req[r].owner \in Owner
    BY <1>1, FieldsOf DEF Shape, Syncing
  <1> QED
    BY <1>1, <1>2, Ends DEF SyncWrite

LEMMA ExcludeAllergensDoes ==
  ASSUME Typed, NEW r \in Request, NEW u \in User, NEW A \in SUBSET Allergen,
         ExcludeAllergens(r, u, A)
  PROVE  /\ Only(r) /\ Shape(req'[r]) /\ UNCHANGED <<rows, declared, crossed>>
         /\ \A a \in A : label[a] # "absent"
         /\ blurred' = IF Writing(u) THEN blurred \union {u} ELSE blurred
         /\ req'[r].pc = "syncRead" /\ req'[r].owner = u /\ req'[r].holds = {}
         /\ req'[r].marks = A /\ req[r].pc = "idle"
  <1> DEFINE q == [Blank EXCEPT !.pc = "syncRead", !.owner = u, !.marks = A]
  <1>1. /\ req' = [req EXCEPT ![r] = q] /\ UNCHANGED <<rows, declared, crossed>>
        /\ blurred' = IF Writing(u) THEN blurred \union {u} ELSE blurred
        /\ \A a \in A : label[a] # "absent"
        /\ req[r].pc = "idle"
    BY DEF ExcludeAllergens, Begin
  <1>2. q \in Record /\ q.pc = "syncRead" /\ q.owner = u /\ q.holds = {} /\ q.marks = A
    BY BlankIs DEF Record, Stage, Owner
  <1> HIDE DEF q
  <1>3. Shape(q)
    BY <1>2, NoneIs DEF Shape, Syncing, Owner
  <1> QED
    BY <1>1, <1>2, <1>3, Changed

LEMMA InsertLabelDoes ==
  ASSUME Typed, NEW r \in Request, NEW l \in Label, InsertLabel(r, l)
  PROVE  /\ Only(r) /\ req'[r] = Blank /\ req[r].pc = "idle" /\ label[l] = "absent"
         /\ label' = [label EXCEPT ![l] = "active"]
         /\ UNCHANGED <<key, category, marks, history>>
  BY Ends DEF InsertLabel, Begin

LEMMA FindLabelDoes ==
  ASSUME Typed, NEW r \in Request, NEW l \in Label, NEW to \in {"active", "disabled", "deleted"},
         FindLabel(r, l, to)
  PROVE  /\ Only(r) /\ Shape(req'[r]) /\ UNCHANGED <<rows, history>> /\ l \in Existing
         /\ req'[r].pc = IF to = "active" THEN "saveLabel" ELSE "checkLabel"
         /\ req'[r].label = l /\ req'[r].want = to /\ req'[r].owner = None
         /\ req'[r].holds = {} /\ req'[r].marks = {}
  <1> DEFINE q == [Blank EXCEPT !.pc = IF to = "active" THEN "saveLabel" ELSE "checkLabel",
                                !.label = l, !.want = to, !.read = {label[l]}]
  <1>1. req' = [req EXCEPT ![r] = q] /\ UNCHANGED <<rows, history>> /\ l \in Existing
    BY DEF FindLabel, Begin
  <1>2. label[l] \in LabelState /\ to \in LabelState
    BY DEF Typed, LabelState
  <1>3. /\ q \in Record /\ q.pc = IF to = "active" THEN "saveLabel" ELSE "checkLabel"
        /\ q.label = l /\ q.want = to /\ q.owner = None /\ q.holds = {} /\ q.marks = {}
    BY <1>2, BlankIs DEF Record, Stage
  <1> HIDE DEF q
  <1>4. Shape(q)
    BY <1>3 DEF Shape, Syncing
  <1> QED
    BY <1>1, <1>3, <1>4, Changed

LEMMA CheckLabelDoes ==
  ASSUME Typed, NEW r \in Request, CheckLabel(r)
  PROVE  /\ Only(r) /\ Shape(req'[r]) /\ UNCHANGED <<rows, history>>
         /\ req[r].pc = "checkLabel" /\ req[r].label \in Label
         /\ \/ req'[r] = Blank
            \/ /\ ~InUse(req[r].label) /\ Same(r)
               /\ req'[r].pc = IF req[r].want = "deleted" THEN "removeLabel" ELSE "saveLabel"
  <1> DEFINE q == [req[r] EXCEPT !.pc = IF req[r].want = "deleted" THEN "removeLabel" ELSE "saveLabel"]
  <1>1. /\ req[r].pc = "checkLabel" /\ UNCHANGED <<rows, history>>
        /\ \/ req' = [req EXCEPT ![r] = Blank]
           \/ req' = [req EXCEPT ![r] = q] /\ ~InUse(req[r].label)
    BY DEF CheckLabel, Step, End, Refused
  <1>2. req[r] \in Record /\ Shape(req[r])
    BY FieldsOf
  <1>3. /\ q \in Record /\ q.pc = IF req[r].want = "deleted" THEN "removeLabel" ELSE "saveLabel"
        /\ q.owner = req[r].owner /\ q.holds = req[r].holds
        /\ q.category = req[r].category /\ q.marks = req[r].marks
        /\ q.label = req[r].label /\ q.want = req[r].want
    BY <1>2 DEF Record, Stage
  <1> HIDE DEF q
  <1>4. Shape(q) /\ req[r].label \in Label
    BY <1>1, <1>2, <1>3 DEF Shape, Syncing
  <1>5. req' = [req EXCEPT ![r] = Blank] => Only(r) /\ req'[r] = Blank
    BY Ends
  <1>6. req' = [req EXCEPT ![r] = q] => Only(r) /\ req'[r] = q
    BY <1>3, Changed
  <1> QED
    BY <1>1, <1>3, <1>4, <1>5, <1>6, BlankIs DEF Same

LEMMA SaveLabelDoes ==
  ASSUME Typed, NEW r \in Request, SaveLabel(r)
  PROVE  /\ Only(r) /\ req'[r] = Blank /\ req[r].pc = "saveLabel" /\ req[r].label \in Label
         /\ req[r].want \in {"active", "disabled"}
         /\ UNCHANGED <<key, category, marks, declared, blurred>>
         /\ \/ label' = label /\ crossed' = crossed
            \/ /\ req[r].label \in Existing
               /\ label' = [label EXCEPT ![req[r].label] = req[r].want]
               /\ crossed' = IF req[r].want = "disabled"
                                /\ \E o \in Request : req[r].label \in req[o].holds
                             THEN crossed \union {req[r].label} ELSE crossed
  <1>1. /\ req[r].pc = "saveLabel" /\ req' = [req EXCEPT ![r] = Blank]
        /\ UNCHANGED <<key, category, marks, declared, blurred>>
    BY DEF SaveLabel, End, Step
  <1>2. req[r].label \in Label /\ req[r].want \in {"active", "disabled"}
    BY <1>1, FieldsOf DEF Shape
  <1>3. \/ label' = label /\ crossed' = crossed
        \/ /\ req[r].label \in Existing
           /\ label' = [label EXCEPT ![req[r].label] = req[r].want]
           /\ crossed' = IF req[r].want = "disabled"
                            /\ \E o \in Request : req[r].label \in req[o].holds
                         THEN crossed \union {req[r].label} ELSE crossed
    BY DEF SaveLabel
  <1> QED
    BY <1>1, <1>2, <1>3, Ends

LEMMA RemoveLabelDoes ==
  ASSUME Typed, NEW r \in Request, RemoveLabel(r)
  PROVE  /\ Only(r) /\ req'[r] = Blank /\ req[r].pc = "removeLabel" /\ req[r].label \in Label
         /\ label' = [label EXCEPT ![req[r].label] = "deleted"]
         /\ Cascade(req[r].label) /\ UNCHANGED <<key, history>>
  <1>1. /\ req[r].pc = "removeLabel" /\ req' = [req EXCEPT ![r] = Blank]
    BY DEF RemoveLabel, End, Step
  <1>2. req[r].label \in Label
    BY <1>1, FieldsOf DEF Shape
  <1> QED
    BY <1>1, <1>2, Ends DEF RemoveLabel

LEMMA CutDoes ==
  ASSUME Typed, NEW r \in Request, Cut(r)
  PROVE  /\ Only(r) /\ req'[r] = Blank /\ UNCHANGED <<rows, declared, crossed>>
         /\ blurred' = IF req[r].pc \in {"attach", "syncRead", "syncWrite"}
                       THEN blurred \union {req[r].owner} ELSE blurred
  BY Ends DEF Cut

-----------------------------------------------------------------------------
(* Every step keeps the types. *)

\* A step of the catalogue is one of one request.
StepOf(r) ==
  \/ OpenCreateForm(r)
  \/ \E p \in Product : OpenEditForm(r, p)
  \/ \E c \in Category, A \in SUBSET Allergen, json \in BOOLEAN : SubmitCreate(r, c, A, json)
  \/ \E c \in Category, A \in SUBSET Allergen : SubmitEdit(r, c, A)
  \/ \E p \in Product : InsertProduct(r, p)
  \/ AttachAllergens(r)
  \/ SaveProduct(r)
  \/ SyncRead(r)
  \/ SyncWrite(r)
  \/ \E u \in User, A \in SUBSET Allergen : ExcludeAllergens(r, u, A)
  \/ \E l \in Label : InsertLabel(r, l)
  \/ \E l \in Label, to \in {"active", "disabled", "deleted"} : FindLabel(r, l, to)
  \/ CheckLabel(r)
  \/ SaveLabel(r)
  \/ RemoveLabel(r)
  \/ Cut(r)

LEMMA StepIsOfOne ==
  ASSUME CatalogueNext
  PROVE  \E r \in Request : StepOf(r)
  <1>1. PICK r \in Request :
          \/ ProductStep(r) \/ LabelStep(r)
          \/ SyncRead(r) \/ SyncWrite(r)
          \/ \E u \in User, A \in SUBSET Allergen : ExcludeAllergens(r, u, A)
          \/ Cut(r)
    BY DEF CatalogueNext
  <1>2. CASE ProductStep(r)
    BY <1>2 DEF ProductStep, StepOf
  <1>3. CASE LabelStep(r)
    <2>1. CreateCategory(r) \/ CreateAllergen(r) => \E l \in Label : InsertLabel(r, l)
      BY DEF CreateCategory, CreateAllergen, Label
    <2>2. UpdateCategory(r) \/ UpdateAllergen(r) \/ DeleteCategory(r) \/ DeleteAllergen(r)
            => \E l \in Label, to \in {"active", "disabled", "deleted"} : FindLabel(r, l, to)
      BY DEF UpdateCategory, UpdateAllergen, DeleteCategory, DeleteAllergen, Label
    <2> QED
      BY <1>3, <2>1, <2>2 DEF LabelStep, StepOf
  <1> QED
    BY <1>1, <1>2, <1>3 DEF StepOf

LEMMA TypedInit ==
  ASSUME Init
  PROVE  Typed
  <1>1. label \in [Label -> LabelState]
    BY DEF Init, LabelState
  <1>2. \A l \in StartLabels : l \in Existing
    BY CatalogueAssumption DEF Init, Existing
  <1>3. key \in [Product -> Nat] /\ marks \in [Owner -> SUBSET (Allergen \intersect Existing)]
    BY <1>2, CatalogueAssumption DEF Init
  <1>4. StartCategory \in Category \intersect Existing
    BY <1>2, CatalogueAssumption
  <1>5. category \in [Product -> (Category \intersect Existing) \union {None}]
    BY <1>4 DEF Init
  <1>6. declared \in [Owner -> [category : Category \union {None}, marks : SUBSET Allergen]]
    BY <1>4, CatalogueAssumption DEF Init
  <1>7. req \in [Request -> Record] /\ \A r \in Request : req[r] = Blank
    BY BlankIs DEF Init
  <1>8. \A p \in Product : ~Stored(p) => marks[p] = {}
    BY CatalogueAssumption DEF Init, Stored
  <1> QED
    BY <1>1, <1>3, <1>5, <1>6, <1>7, <1>8, BlankIs, NoneIs DEF Typed, Owner

\* The rows as they are, and what is said of them.
LEMMA TypedFrame ==
  ASSUME Typed, UNCHANGED <<rows, req, declared>>
  PROVE  Typed'
  BY DEF Typed, rows, Existing, Stored

LEMMA TypedStep ==
  ASSUME Typed, CatalogueNext
  PROVE  Typed'
  <1> USE NoneIs
  <1>0. PICK r \in Request : StepOf(r)
    BY StepIsOfOne
  \* Only the request changes.
  <1>1. ASSUME Only(r), Shape(req'[r]), UNCHANGED <<label, key, category, marks, declared>>,
               req'[r].owner \in Product => Stored(req'[r].owner)
        PROVE  Typed'
    <2>1. \A s \in Request : Shape(req'[s]) /\ (req'[s].owner \in Product => Stored(req'[s].owner))
      BY <1>1 DEF Only, Typed
    <2>2. Existing' = Existing /\ \A p \in Product : Stored(p)' = Stored(p)
      BY <1>1 DEF Existing, Stored
    <2> QED
      BY <1>1, <2>1, <2>2 DEF Typed, Only
  \* It also writes rows, and may end.
  <1>2. ASSUME Only(r), Shape(req'[r]), label' = label,
               key' \in [Product -> Nat], \A p \in Product : key[p] > 0 => key'[p] > 0,
               category' \in [Product -> (Category \intersect Existing) \union {None}],
               marks' \in [Owner -> SUBSET (Allergen \intersect Existing)],
               declared' \in [Owner -> [category : Category \union {None}, marks : SUBSET Allergen]],
               req'[r].owner \in Product => key'[req'[r].owner] > 0,
               \A p \in Product : marks'[p] = marks[p] \/ key'[p] > 0
        PROVE  Typed'
    <2>1. \A s \in Request : Shape(req'[s]) /\ (req'[s].owner \in Product => key'[req'[s].owner] > 0)
      BY <1>2 DEF Only, Typed, Stored
    <2>2. Existing' = Existing
      BY <1>2 DEF Existing
    <2>3. \A p \in Product : ~(key'[p] > 0) => marks'[p] = {}
      BY <1>2 DEF Typed, Stored
    <2> QED
      BY <1>2, <2>1, <2>2, <2>3 DEF Typed, Only, Stored
  <1>3. req[r].owner \in Product => Stored(req[r].owner)
    BY DEF Typed
  <1>10. CASE OpenCreateForm(r)
    BY <1>1, <1>10, OpenCreateFormDoes DEF rows, history, Owner
  <1>11. CASE \E p \in Product : OpenEditForm(r, p)
    <2>0. PICK p \in Product : OpenEditForm(r, p)
      BY <1>11
    <2> QED
      BY <1>1, <2>0, OpenEditFormDoes DEF rows, history
  <1>12. CASE \E c \in Category, A \in SUBSET Allergen, json \in BOOLEAN : SubmitCreate(r, c, A, json)
    <2>0. PICK c \in Category, A \in SUBSET Allergen, json \in BOOLEAN : SubmitCreate(r, c, A, json)
      BY <1>12
    <2> QED
      BY <1>1, <2>0, SubmitCreateDoes DEF rows, history, Owner
  <1>13. CASE \E c \in Category, A \in SUBSET Allergen : SubmitEdit(r, c, A)
    <2>0. PICK c \in Category, A \in SUBSET Allergen : SubmitEdit(r, c, A)
      BY <1>13
    <2> QED
      BY <1>1, <1>3, <2>0, SubmitEditDoes DEF rows
  <1>14. CASE \E p \in Product : InsertProduct(r, p)
    <2>0. PICK p \in Product : InsertProduct(r, p)
      BY <1>14
    <2>1. CASE UNCHANGED <<rows, history>> /\ req'[r] = Blank
      BY <1>1, <2>0, <2>1, InsertProductDoes, BlankIs DEF rows, history, Owner
    <2>2. CASE ~(UNCHANGED <<rows, history>> /\ req'[r] = Blank)
      <3>1. /\ Only(r) /\ Shape(req'[r]) /\ req[r].category \in Category \intersect Existing
            /\ key' = [key EXCEPT ![p] = req[r].key]
            /\ category' = [category EXCEPT ![p] = req[r].category]
            /\ declared' = [declared EXCEPT ![p] = [category |-> req[r].category, marks |-> {}]]
            /\ label' = label /\ marks' = marks
            /\ req'[r] = Blank \/ req'[r].owner = p
        BY <2>0, <2>2, InsertProductDoes
      <3>2. req[r].key \in Nat /\ req[r].key > 0
        BY <2>0, InsertProductDoes, FieldsOf DEF Shape, Record
      <3>3. key' \in [Product -> Nat] /\ key'[p] > 0 /\ \A x \in Product : key[x] > 0 => key'[x] > 0
        BY <3>1, <3>2 DEF Typed
      <3>4. category' \in [Product -> (Category \intersect Existing) \union {None}]
        BY <3>1 DEF Typed
      <3>5. declared' \in [Owner -> [category : Category \union {None}, marks : SUBSET Allergen]]
        BY <3>1 DEF Typed, Owner
      <3>6. marks' \in [Owner -> SUBSET (Allergen \intersect Existing)]
        BY <3>1 DEF Typed
      <3> QED
        BY <1>2, <3>1, <3>3, <3>4, <3>5, <3>6, BlankIs DEF Owner
    <2> QED
      BY <2>1, <2>2
  <1>15. CASE AttachAllergens(r)
    <2> DEFINE o == req[r].owner
    <2>1. /\ Only(r) /\ req'[r] = Blank /\ o \in Product /\ Stored(o) /\ o \in Owner
      BY <1>3, <1>15, AttachAllergensDoes DEF Owner
    <2>2. CASE UNCHANGED <<rows, declared, crossed>>
      BY <1>1, <2>1, <2>2, BlankIs DEF rows, Owner
    <2>3. CASE ~UNCHANGED <<rows, declared, crossed>>
      <3>1. /\ req[r].marks \subseteq Existing
            /\ marks' = [marks EXCEPT ![o] = @ \union req[r].marks]
            /\ declared' = [declared EXCEPT ![o].marks = req[r].marks]
            /\ UNCHANGED <<label, key, category>>
        BY <1>15, <2>3, AttachAllergensDoes
      <3>2. req[r].marks \subseteq Allergen
        BY FieldsOf DEF Record
      <3>3. marks' \in [Owner -> SUBSET (Allergen \intersect Existing)]
        BY <3>1, <3>2 DEF Typed
      <3>4. declared' \in [Owner -> [category : Category \union {None}, marks : SUBSET Allergen]]
        BY <3>1, <3>2 DEF Typed
      <3>5. \A p \in Product : marks'[p] = marks[p] \/ key'[p] > 0
        BY <2>1, <3>1 DEF Typed, Stored, Owner
      <3>6. /\ key' \in [Product -> Nat] /\ \A p \in Product : key[p] > 0 => key'[p] > 0
            /\ category' \in [Product -> (Category \intersect Existing) \union {None}]
        BY <3>1 DEF Typed
      <3> QED
        BY <1>2, <2>1, <3>1, <3>3, <3>4, <3>5, <3>6, BlankIs DEF Owner
    <2> QED
      BY <2>2, <2>3
  <1>16. CASE SaveProduct(r)
    <2> DEFINE o == req[r].owner
    <2>1. /\ Only(r) /\ Shape(req'[r]) /\ o \in Product /\ key[o] > 0 /\ o \in Owner
          /\ req'[r] = Blank \/ req'[r].owner = o
      BY <1>3, <1>16, SaveProductDoes DEF Owner, Stored, Same
    <2>2. CASE UNCHANGED <<rows, history>>
      BY <1>1, <2>1, <2>2, BlankIs DEF rows, history, Owner, Stored
    <2>3. CASE ~UNCHANGED <<rows, history>>
      <3>1. /\ req[r].category \in Category \intersect Existing
            /\ category' = [category EXCEPT ![o] = req[r].category]
            /\ UNCHANGED <<label, key, marks, declared>>
        BY <1>16, <2>3, SaveProductDoes
      <3>2. /\ category' \in [Product -> (Category \intersect Existing) \union {None}]
            /\ key' \in [Product -> Nat] /\ \A p \in Product : key[p] > 0 => key'[p] > 0
            /\ marks' \in [Owner -> SUBSET (Allergen \intersect Existing)]
            /\ declared' \in [Owner -> [category : Category \union {None}, marks : SUBSET Allergen]]
            /\ \A p \in Product : marks'[p] = marks[p]
        BY <3>1 DEF Typed
      <3> QED
        BY <1>2, <2>1, <3>1, <3>2, BlankIs DEF Owner
    <2> QED
      BY <2>2, <2>3
  <1>17. CASE SyncRead(r)
    BY <1>1, <1>3, <1>17, SyncReadDoes DEF rows, history, Same
  <1>18. CASE SyncWrite(r)
    <2> DEFINE o == req[r].owner
    <2>1. /\ Only(r) /\ req'[r] = Blank /\ o \in Owner
          /\ o \in Product => key[o] > 0
      BY <1>3, <1>18, SyncWriteDoes DEF Stored
    <2>2. CASE UNCHANGED <<rows, declared, crossed>>
      BY <1>1, <2>1, <2>2, BlankIs DEF rows, Owner
    <2>3. CASE ~UNCHANGED <<rows, declared, crossed>>
      <3>1. /\ req[r].marks \ req[r].read \subseteq Existing
            /\ marks' = [marks EXCEPT ![o] = Synced(@, req[r].marks, req[r].read)]
            /\ declared' = [declared EXCEPT ![o] =
                              [category |-> req[r].category, marks |-> req[r].marks]]
            /\ UNCHANGED <<label, key, category>>
        BY <1>18, <2>3, SyncWriteDoes
      <3>2. req[r].marks \subseteq Allergen /\ req[r].category \in Category \union {None}
        BY FieldsOf DEF Record
      <3>3. Synced(marks[o], req[r].marks, req[r].read) \subseteq Allergen \intersect Existing
        BY <2>1, <3>1, <3>2 DEF Typed, Synced
      <3>4. marks' \in [Owner -> SUBSET (Allergen \intersect Existing)]
        BY <3>1, <3>3 DEF Typed
      <3>5. declared' \in [Owner -> [category : Category \union {None}, marks : SUBSET Allergen]]
        BY <3>1, <3>2 DEF Typed
      <3>6. \A p \in Product : marks'[p] = marks[p] \/ key'[p] > 0
        BY <2>1, <3>1 DEF Typed, Owner
      <3>7. /\ key' \in [Product -> Nat] /\ \A p \in Product : key[p] > 0 => key'[p] > 0
            /\ category' \in [Product -> (Category \intersect Existing) \union {None}]
        BY <3>1 DEF Typed
      <3> QED
        BY <1>2, <2>1, <3>1, <3>4, <3>5, <3>6, <3>7, BlankIs DEF Owner
    <2> QED
      BY <2>2, <2>3
  <1>19. CASE \E u \in User, A \in SUBSET Allergen : ExcludeAllergens(r, u, A)
    <2>0. PICK u \in User, A \in SUBSET Allergen : ExcludeAllergens(r, u, A)
      BY <1>19
    <2> QED
      BY <1>1, <2>0, ExcludeAllergensDoes DEF rows, Owner
  <1>20. CASE \E l \in Label : InsertLabel(r, l)
    <2>0. PICK l \in Label : InsertLabel(r, l)
      BY <1>20
    <2>1. /\ Only(r) /\ req'[r] = Blank /\ UNCHANGED <<key, category, marks, declared>>
          /\ label' \in [Label -> LabelState]
          /\ \A x \in Label : label[x] \in {"active", "disabled"} => label'[x] \in {"active", "disabled"}
      BY <2>0, InsertLabelDoes DEF Typed, history, LabelState

    <2>2. Existing \subseteq Existing'
      BY <2>1 DEF Existing
    <2>3. /\ category' \in [Product -> (Category \intersect Existing') \union {None}]
          /\ marks' \in [Owner -> SUBSET (Allergen \intersect Existing')]
      BY <2>1, <2>2 DEF Typed
    <2>4. /\ \A s \in Request : Shape(req'[s]) /\ (req'[s].owner \in Product => key'[req'[s].owner] > 0)
          /\ \A p \in Product : Stored(p)' = Stored(p)
      BY <2>1, BlankIs DEF Only, Typed, Stored, Owner
    <2> QED
      BY <2>1, <2>3, <2>4 DEF Typed, Only, Stored
  <1>21. CASE \E l \in Label, to \in {"active", "disabled", "deleted"} : FindLabel(r, l, to)
    <2>0. PICK l \in Label, to \in {"active", "disabled", "deleted"} : FindLabel(r, l, to)
      BY <1>21
    <2> QED
      BY <1>1, <2>0, FindLabelDoes DEF rows, history, Owner
  <1>22. CASE CheckLabel(r)
    BY <1>1, <1>3, <1>22, CheckLabelDoes, BlankIs DEF rows, history, Same, Owner
  <1>23. CASE SaveLabel(r)
    <2>1. /\ Only(r) /\ req'[r] = Blank /\ UNCHANGED <<key, category, marks, declared>>
          /\ label' \in [Label -> LabelState]
          /\ \A x \in Label : label[x] \in {"active", "disabled"} => label'[x] \in {"active", "disabled"}
      BY <1>23, SaveLabelDoes DEF Typed, LabelState

    <2>2. Existing \subseteq Existing'
      BY <2>1 DEF Existing
    <2>3. /\ category' \in [Product -> (Category \intersect Existing') \union {None}]
          /\ marks' \in [Owner -> SUBSET (Allergen \intersect Existing')]
      BY <2>1, <2>2 DEF Typed
    <2>4. /\ \A s \in Request : Shape(req'[s]) /\ (req'[s].owner \in Product => key'[req'[s].owner] > 0)
          /\ \A p \in Product : Stored(p)' = Stored(p)
      BY <2>1, BlankIs DEF Only, Typed, Stored, Owner
    <2> QED
      BY <2>1, <2>3, <2>4 DEF Typed, Only, Stored
  <1>24. CASE RemoveLabel(r)
    <2> DEFINE l == req[r].label
    <2>1. /\ Only(r) /\ req'[r] = Blank /\ UNCHANGED <<key, declared>> /\ l \in Label
          /\ label' = [label EXCEPT ![l] = "deleted"]
          /\ category' = [p \in Product |-> IF category[p] = l THEN None ELSE category[p]]
          /\ marks' = [o \in Owner |-> marks[o] \ {l}]
      BY <1>24, RemoveLabelDoes DEF history, Cascade
    <2>2. label' \in [Label -> LabelState] /\ \A x \in Existing : x # l => x \in Existing'
      BY <2>1 DEF Typed, LabelState, Existing
    <2>3. /\ category' \in [Product -> (Category \intersect Existing') \union {None}]
          /\ marks' \in [Owner -> SUBSET (Allergen \intersect Existing')]
      <3>1. \A p \in Product : category[p] \in (Category \intersect Existing) \union {None}
        BY DEF Typed
      <3>2. \A o \in Owner : marks[o] \subseteq Allergen \intersect Existing
        BY DEF Typed
      <3> HIDE DEF l
      <3> QED
        BY <2>1, <2>2, <3>1, <3>2
    <2>4. /\ \A s \in Request : Shape(req'[s]) /\ (req'[s].owner \in Product => key'[req'[s].owner] > 0)
          /\ \A p \in Product : ~Stored(p)' => marks'[p] = {}
      BY <2>1, BlankIs DEF Only, Typed, Stored, Owner
    <2> QED
      BY <2>1, <2>2, <2>3, <2>4 DEF Typed, Only, Stored
  <1>25. CASE Cut(r)
    BY <1>1, <1>25, CutDoes, BlankIs DEF rows, Owner
  <1> QED
    BY <1>0, <1>10, <1>11, <1>12, <1>13, <1>14, <1>15, <1>16, <1>17, <1>18,
       <1>19, <1>20, <1>21, <1>22, <1>23, <1>24, <1>25 DEF StepOf

-----------------------------------------------------------------------------
(* The keypad numbers run. *)

Old == Max({StartKey[p] : p \in Product} \union {0})
New == {p \in Products : StartKey[p] = 0}

\* A number that was read is one of those in use since, or the next.
Numbered ==
  /\ \A p \in Product : StartKey[p] > 0 => key[p] = StartKey[p]
  /\ {key[p] : p \in New} = {Old + i : i \in 1 .. Cardinality(New)}
  /\ \A r \in Request :
       req[r].pc = "insert" => req[r].key \in Old + 1 .. Old + Cardinality(New) + 1

LEMMA NewIs ==
  ASSUME Typed
  PROVE  New \subseteq Product /\ IsFiniteSet(New) /\ Cardinality(New) \in Nat /\ Old \in Nat
  <1>1. New \subseteq Product
    BY DEF New, Products
  <1>2. IsFiniteSet(New)
    BY <1>1, FS_Subset, CatalogueAssumption
  <1>3. Old \in Nat
    BY MaxKeyIs, CatalogueAssumption DEF Old
  <1> QED
    BY <1>1, <1>2, <1>3, FS_CardinalityType

LEMMA NextKeyRuns ==
  ASSUME Typed, Numbered
  PROVE  NextKey \in Old + 1 .. Old + Cardinality(New) + 1
  <1> DEFINE M == Max({key[p] : p \in Product} \union {0})
             n == Cardinality(New)
  <1>1. n \in Nat /\ Old \in Nat
    BY NewIs
  <1>2. /\ M \in Nat /\ NextKey = M + 1 /\ \A p \in Product : key[p] <= M
        /\ M = 0 \/ \E p \in Product : M = key[p]
    BY MaxKeyIs DEF NextKey, Typed
  <1>3. /\ \A p \in Product : StartKey[p] <= Old
        /\ Old = 0 \/ \E p \in Product : Old = StartKey[p]
    BY MaxKeyIs, CatalogueAssumption DEF Old
  <1>4. \A p \in Product : key[p] \in Nat /\ StartKey[p] \in Nat
    BY CatalogueAssumption DEF Typed
  <1>5. ASSUME NEW p \in Product PROVE key[p] <= Old + n
    <2>1. CASE StartKey[p] > 0
      <3>1. key[p] = StartKey[p]
        BY <2>1 DEF Numbered
      <3> HIDE DEF n
      <3> QED
        BY <1>1, <1>3, <1>4, <3>1
    <2>2. CASE StartKey[p] = 0 /\ key[p] > 0
      <3>1. p \in New
        BY <2>2 DEF New, Products, Stored
      <3>2. key[p] \in {Old + i : i \in 1 .. n}
        BY <3>1 DEF Numbered
      <3> HIDE DEF n
      <3> QED
        BY <1>1, <3>2
    <2>3. CASE key[p] = 0
      <3> HIDE DEF n
      <3> QED
        BY <1>1, <2>3
    <2> QED
      BY <1>4, <2>1, <2>2, <2>3
  <1> HIDE DEF n, M
  <1>6. M <= Old + n
    BY <1>1, <1>2, <1>5
  <1>7. M >= Old
    <2>1. CASE Old = 0
      BY <1>2, <2>1
    <2>2. CASE Old # 0
      <3>1. PICK p \in Product : Old = StartKey[p]
        BY <1>3, <2>2
      <3>2. key[p] = Old
        BY <1>1, <1>4, <2>2, <3>1 DEF Numbered
      <3> QED
        BY <1>2, <3>2
    <2> QED
      BY <2>1, <2>2
  <1> QED
    BY <1>1, <1>2, <1>6, <1>7 DEF n

LEMMA NumberedInit ==
  ASSUME Init
  PROVE  Numbered
  <1>1. key = StartKey /\ \A p \in Product : key[p] > 0 <=> StartKey[p] > 0
    BY DEF Init
  <1>2. New = {}
    BY <1>1, CatalogueAssumption DEF New, Products, Stored
  <1>3. Cardinality(New) = 0
    BY <1>2, FS_EmptySet
  <1>4. {key[p] : p \in New} = {Old + i : i \in 1 .. Cardinality(New)}
    BY <1>2, <1>3
  <1>5. \A r \in Request : req[r].pc # "insert"
    BY BlankIs DEF Init
  <1> QED
    BY <1>1, <1>4, <1>5 DEF Numbered

LEMMA NumberedStep ==
  ASSUME Typed, Numbered, CatalogueNext
  PROVE  Numbered'
  <1>0. PICK r \in Request : StepOf(r)
    BY StepIsOfOne
  <1>1. Cardinality(New) \in Nat /\ Old \in Nat /\ IsFiniteSet(New) /\ New \subseteq Product
    BY NewIs
  \* No product is inserted.
  <1>2. ASSUME Only(r), key' = key, req'[r].pc = "insert" => req'[r].key = NextKey
        PROVE  Numbered'
    <2>1. New' = New
      BY <1>2 DEF New, Products, Stored
    <2>2. \A s \in Request :
            req'[s].pc = "insert" => req'[s].key \in Old + 1 .. Old + Cardinality(New) + 1
      BY <1>2, NextKeyRuns DEF Only, Numbered
    <2> QED
      BY <1>2, <2>1, <2>2 DEF Numbered
  <1>10. CASE OpenCreateForm(r)
    BY <1>2, <1>10, OpenCreateFormDoes DEF rows
  <1>11. CASE \E p \in Product : OpenEditForm(r, p)
    <2>0. PICK p \in Product : OpenEditForm(r, p)
      BY <1>11
    <2> QED
      BY <1>2, <2>0, OpenEditFormDoes DEF rows
  <1>12. CASE \E c \in Category, A \in SUBSET Allergen, json \in BOOLEAN : SubmitCreate(r, c, A, json)
    <2>0. PICK c \in Category, A \in SUBSET Allergen, json \in BOOLEAN : SubmitCreate(r, c, A, json)
      BY <1>12
    <2> QED
      BY <1>2, <2>0, SubmitCreateDoes DEF rows
  <1>13. CASE \E c \in Category, A \in SUBSET Allergen : SubmitEdit(r, c, A)
    <2>0. PICK c \in Category, A \in SUBSET Allergen : SubmitEdit(r, c, A)
      BY <1>13
    <2> QED
      BY <1>2, <2>0, SubmitEditDoes DEF rows
  <1>14. CASE \E p \in Product : InsertProduct(r, p)
    <2>0. PICK p \in Product : InsertProduct(r, p)
      BY <1>14
    <2> DEFINE k == req[r].key
               n == Cardinality(New)
    <2>1. CASE UNCHANGED <<rows, history>> /\ req'[r] = Blank
      BY <1>2, <2>0, <2>1, InsertProductDoes, BlankIs DEF rows
    <2>2. CASE ~(UNCHANGED <<rows, history>> /\ req'[r] = Blank)
      <3>1. /\ Only(r) /\ req[r].pc = "insert" /\ ~Stored(p) /\ req'[r].pc # "insert"
            /\ Fits(k) /\ key' = [key EXCEPT ![p] = k]
        BY <2>0, <2>2, InsertProductDoes, BlankIs
      <3>2. k \in Old + 1 .. Old + n + 1
        BY <3>1 DEF Numbered
      <3>3. key \in [Product -> Nat] /\ key[p] = 0
        BY <3>1 DEF Typed, Stored
      <3>4. StartKey[p] = 0 /\ p \notin New
        BY <3>3, CatalogueAssumption DEF Numbered, New, Products, Stored
      <3>5. key'[p] = k /\ k > 0 /\ \A x \in Product : x # p => key'[x] = key[x]
        BY <1>1, <3>1, <3>2, <3>3
      <3>6. New' = New \union {p}
        BY <3>4, <3>5 DEF New, Products, Stored
      <3>7. Cardinality(New') = n + 1
        BY <1>1, <3>4, <3>6, FS_AddElement
      <3>8. k = Old + (n + 1)
        <4>1. ASSUME NEW i \in 1 .. n, k = Old + i PROVE FALSE
          <5>1. k \in {key[x] : x \in New}
            BY <4>1 DEF Numbered
          <5> QED
            BY <1>1, <3>1, <5>1 DEF Fits
        <4>2. k - Old \in 1 .. n + 1 /\ k = Old + (k - Old)
          BY <1>1, <3>2
        <4> HIDE DEF k, n
        <4>3. n \in Nat
          BY <1>1 DEF n
        <4>4. k - Old = n + 1
          BY <4>1, <4>2, <4>3
        <4> QED
          BY <1>1, <4>2, <4>4
      <3>9. {key'[x] : x \in New'} = {key[x] : x \in New} \union {k}
        <4>1. {key'[x] : x \in New'} = {key'[x] : x \in New} \union {key'[p]}
          BY <3>6
        <4>2. \A x \in New : key'[x] = key[x]
          BY <1>1, <3>4, <3>5
        <4> QED
          BY <3>5, <4>1, <4>2
      <3>10. {key'[x] : x \in New'} = {Old + i : i \in 1 .. Cardinality(New')}
        <4>1. 1 .. n + 1 = (1 .. n) \union {n + 1}
          BY <1>1
        <4>2. {Old + i : i \in 1 .. n + 1} = {Old + i : i \in 1 .. n} \union {Old + (n + 1)}
          BY <4>1
        <4> QED
          BY <3>7, <3>8, <3>9, <4>2 DEF Numbered
      <3>11. \A x \in Product : StartKey[x] > 0 => key'[x] = StartKey[x]
        BY <3>4, <3>5 DEF Numbered
      <3>12. \A s \in Request :
               req'[s].pc = "insert" => req'[s].key \in Old + 1 .. Old + Cardinality(New') + 1
        <4> SUFFICES ASSUME NEW s \in Request, req'[s].pc = "insert"
                     PROVE  req'[s].key \in Old + 1 .. Old + (n + 1) + 1
          BY <3>7
        <4>1. req'[s] = req[s]
          BY <3>1 DEF Only
        <4>2. req[s].key \in Old + 1 .. Old + n + 1
          BY <4>1 DEF Numbered
        <4> QED
          BY <1>1, <4>1, <4>2
      <3> QED
        BY <3>10, <3>11, <3>12 DEF Numbered
    <2> QED
      BY <2>1, <2>2
  <1>15. CASE AttachAllergens(r)
    BY <1>2, <1>15, AttachAllergensDoes, BlankIs DEF rows
  <1>16. CASE SaveProduct(r)
    BY <1>2, <1>16, SaveProductDoes, BlankIs DEF rows
  <1>17. CASE SyncRead(r)
    BY <1>2, <1>17, SyncReadDoes DEF rows
  <1>18. CASE SyncWrite(r)
    BY <1>2, <1>18, SyncWriteDoes, BlankIs DEF rows
  <1>19. CASE \E u \in User, A \in SUBSET Allergen : ExcludeAllergens(r, u, A)
    <2>0. PICK u \in User, A \in SUBSET Allergen : ExcludeAllergens(r, u, A)
      BY <1>19
    <2> QED
      BY <1>2, <2>0, ExcludeAllergensDoes DEF rows
  <1>20. CASE \E l \in Label : InsertLabel(r, l)
    <2>0. PICK l \in Label : InsertLabel(r, l)
      BY <1>20
    <2> QED
      BY <1>2, <2>0, InsertLabelDoes, BlankIs DEF rows
  <1>21. CASE \E l \in Label, to \in {"active", "disabled", "deleted"} : FindLabel(r, l, to)
    <2>0. PICK l \in Label, to \in {"active", "disabled", "deleted"} : FindLabel(r, l, to)
      BY <1>21
    <2> QED
      BY <1>2, <2>0, FindLabelDoes DEF rows
  <1>22. CASE CheckLabel(r)
    BY <1>2, <1>22, CheckLabelDoes, BlankIs DEF rows
  <1>23. CASE SaveLabel(r)
    BY <1>2, <1>23, SaveLabelDoes, BlankIs DEF rows
  <1>24. CASE RemoveLabel(r)
    BY <1>2, <1>24, RemoveLabelDoes, BlankIs DEF rows
  <1>25. CASE Cut(r)
    BY <1>2, <1>25, CutDoes, BlankIs DEF rows
  <1> QED
    BY <1>0, <1>10, <1>11, <1>12, <1>13, <1>14, <1>15, <1>16, <1>17, <1>18,
       <1>19, <1>20, <1>21, <1>22, <1>23, <1>24, <1>25 DEF StepOf

-----------------------------------------------------------------------------
(* Labels that were retired are not in use. *)

Retiring(r) == req[r].pc = "removeLabel" \/ (req[r].pc = "saveLabel" /\ req[r].want = "disabled")

\* A disabled label that a form still offers, and a label that came into use after
\* the check, have met a product.
Retired ==
  /\ \A p \in Products : \A l \in LabelsOf(p) : label[l] = "disabled" => l \in crossed
  /\ \A r \in Request : \A l \in req[r].holds : label[l] = "disabled" => l \in crossed
  /\ \A r \in Request : Retiring(r) /\ InUse(req[r].label) => req[r].label \in crossed
  /\ (\E p \in Products : category[p] = None)
       => \E c \in Category \intersect crossed : label[c] = "deleted"

LEMMA RetiredInit ==
  ASSUME Init
  PROVE  Retired
  <1>1. \A l \in Label : label[l] # "disabled"
    BY DEF Init
  <1>2. \A p \in Products : category[p] # None /\ LabelsOf(p) \subseteq Label
    <2>1. \A p \in Products : p \in Product /\ StartKey[p] # 0
      BY CatalogueAssumption DEF Init, Products, Stored
    <2>2. \A p \in Products : category[p] = StartCategory /\ marks[p] \subseteq Label
      BY <2>1, CatalogueAssumption DEF Init, Label, Owner
    <2> QED
      BY <2>2, CatalogueAssumption DEF LabelsOf, Label
  <1>3. \A r \in Request : req[r].holds = {} /\ ~Retiring(r)
    BY BlankIs DEF Init, Retiring
  <1> QED
    BY <1>1, <1>2, <1>3 DEF Retired

LEMMA RetiredStep ==
  ASSUME Typed, Retired, CatalogueNext
  PROVE  Retired'
  <1>0. PICK r \in Request : StepOf(r)
    BY StepIsOfOne
  \* No product takes a label.
  <1>1. ASSUME Only(r), UNCHANGED <<label, key, category, marks, crossed>>,
               \A l \in req'[r].holds : label[l] = "disabled" => l \in crossed,
               Retiring(r)' => ~InUse(req'[r].label)
        PROVE  Retired'
    <2>1. /\ Products' = Products /\ \A p : LabelsOf(p)' = LabelsOf(p)
          /\ \A l : InUse(l)' <=> InUse(l)
      BY <1>1 DEF Products, Stored, LabelsOf, InUse
    <2>2. \A s \in Request : s # r => req'[s] = req[s] /\ (Retiring(s)' <=> Retiring(s))
      BY <1>1 DEF Only, Retiring
    <2> QED
      BY <1>1, <2>1, <2>2 DEF Retired
  \* A product takes the labels L.
  <1>2. ASSUME NEW L, Only(r), label' = label, Meets(L), L \subseteq req[r].holds,
               req'[r].holds \subseteq req[r].holds, ~Retiring(r)',
               \A p \in Products' : \/ LabelsOf(p)' \subseteq L
                                    \/ p \in Products /\ LabelsOf(p)' \subseteq L \union LabelsOf(p),
               \A p \in Products' : category'[p] = None => p \in Products /\ category[p] = None
        PROVE  Retired'
    <2>1. crossed \subseteq crossed'
      BY <1>2 DEF Meets
    <2>2. ASSUME NEW p \in Products', NEW l \in LabelsOf(p)', label[l] = "disabled"
          PROVE  l \in crossed'
      <3>1. l \in req[r].holds \/ (p \in Products /\ l \in LabelsOf(p))
        BY <1>2
      <3> QED
        BY <2>1, <2>2, <3>1 DEF Retired
    <2>3. ASSUME NEW s \in Request, NEW l \in req'[s].holds, label[l] = "disabled"
          PROVE  l \in crossed'
      <3>1. l \in req[s].holds
        BY <1>2 DEF Only
      <3> QED
        BY <2>1, <2>3, <3>1 DEF Retired
    <2>4. ASSUME NEW s \in Request, Retiring(s)', InUse(req[s].label)'
          PROVE  req'[s].label \in crossed'
      <3>1. s # r /\ req'[s] = req[s] /\ Retiring(s)
        BY <1>2, <2>4 DEF Only, Retiring
      <3>2. CASE req[s].label \in L
        <4>1. req[s].pc \in {"saveLabel", "removeLabel"}
          BY <3>1 DEF Retiring
        <4> QED
          BY <1>2, <3>1, <3>2, <4>1 DEF Meets
      <3>3. CASE req[s].label \notin L
        <4>1. PICK p \in Products' : req[s].label \in LabelsOf(p)'
          BY <2>4, <3>1 DEF InUse
        <4>2. p \in Products /\ req[s].label \in LabelsOf(p)
          BY <1>2, <3>3, <4>1
        <4>3. InUse(req[s].label)
          BY <4>2 DEF InUse
        <4> QED
          BY <2>1, <3>1, <4>3 DEF Retired
      <3> QED
        BY <3>2, <3>3
    <2>5. (\E p \in Products' : category'[p] = None)
            => \E c \in Category \intersect crossed' : label[c] = "deleted"
      BY <1>2, <2>1 DEF Retired
    <2> QED
      BY <1>2, <2>2, <2>3, <2>4, <2>5 DEF Retired
  \* The request ends.
  <1>3. ASSUME Only(r), UNCHANGED <<label, key, category, marks, crossed>>, req'[r] = Blank
        PROVE  Retired'
    BY <1>1, <1>3, BlankIs DEF Retiring
  <1>10. CASE OpenCreateForm(r)
    <2>1. \A l \in Enabled : label[l] # "disabled"
      BY DEF Enabled
    <2> QED
      BY <1>1, <1>10, <2>1, OpenCreateFormDoes DEF rows, history, Retiring
  <1>11. CASE \E p \in Product : OpenEditForm(r, p)
    <2>0. PICK p \in Product : OpenEditForm(r, p)
      BY <1>11
    <2>1. \A l \in Enabled : label[l] # "disabled"
      BY DEF Enabled
    <2>2. \A l \in LabelsOf(p) : label[l] = "disabled" => l \in crossed
      BY <2>0, OpenEditFormDoes DEF Retired, Products
    <2> QED
      BY <1>1, <2>0, <2>1, <2>2, OpenEditFormDoes DEF rows, history, Retiring
  <1>12. CASE \E c \in Category, A \in SUBSET Allergen, json \in BOOLEAN : SubmitCreate(r, c, A, json)
    <2>0. PICK c \in Category, A \in SUBSET Allergen, json \in BOOLEAN : SubmitCreate(r, c, A, json)
      BY <1>12
    <2>1. \A l \in req'[r].holds : label[l] = "disabled" => l \in crossed
      BY <2>0, SubmitCreateDoes DEF Retired
    <2> QED
      BY <1>1, <2>0, <2>1, SubmitCreateDoes DEF rows, history, Retiring
  <1>13. CASE \E c \in Category, A \in SUBSET Allergen : SubmitEdit(r, c, A)
    <2>0. PICK c \in Category, A \in SUBSET Allergen : SubmitEdit(r, c, A)
      BY <1>13
    <2>1. \A l \in req'[r].holds : label[l] = "disabled" => l \in crossed
      BY <2>0, SubmitEditDoes DEF Retired
    <2> QED
      BY <1>1, <2>0, <2>1, SubmitEditDoes DEF rows, history, Retiring
  <1>14. CASE \E p \in Product : InsertProduct(r, p)
    <2>0. PICK p \in Product : InsertProduct(r, p)
      BY <1>14
    <2>1. CASE UNCHANGED <<rows, history>> /\ req'[r] = Blank
      BY <1>3, <2>0, <2>1, InsertProductDoes DEF rows, history
    <2>2. CASE ~(UNCHANGED <<rows, history>> /\ req'[r] = Blank)
      <3> DEFINE c == req[r].category
      <3>1. /\ Only(r) /\ ~Stored(p) /\ c \in Category /\ req[r].pc = "insert"
            /\ key' = [key EXCEPT ![p] = req[r].key] /\ category' = [category EXCEPT ![p] = c]
            /\ Meets({c}) /\ label' = label /\ marks' = marks
            /\ req'[r].holds \subseteq req[r].holds /\ ~Retiring(r)'
        BY <2>0, <2>2, InsertProductDoes, BlankIs DEF Retiring
      <3>2. {c} \subseteq req[r].holds /\ c # None
        BY <3>1, FieldsOf, NoneIs DEF Shape, Label
      <3>3. marks[p] = {} /\ category'[p] = c
        BY <3>1 DEF Typed
      <3>4. \A x \in Product : x # p => key'[x] = key[x] /\ category'[x] = category[x]
        BY <3>1 DEF Typed
      <3>5. LabelsOf(p)' \subseteq {c}
        BY <3>1, <3>3 DEF LabelsOf
      <3>6. \A x \in Products' : x # p => x \in Products /\ LabelsOf(x)' = LabelsOf(x)
        BY <3>1, <3>4 DEF Products, Stored, LabelsOf
      <3>7. \A x \in Products' : x \in Product
        BY DEF Products
      <3> HIDE DEF c
      <3>8. /\ \A x \in Products' : LabelsOf(x)' \subseteq {c}
                                    \/ (x \in Products /\ LabelsOf(x)' \subseteq {c} \union LabelsOf(x))
            /\ \A x \in Products' : category'[x] = None => x \in Products /\ category[x] = None
        BY <3>2, <3>3, <3>4, <3>5, <3>6, <3>7
      <3> QED
        BY <1>2, <3>1, <3>2, <3>8
    <2> QED
      BY <2>1, <2>2
  <1>15. CASE AttachAllergens(r)
    <2> DEFINE o == req[r].owner
    <2>1. CASE UNCHANGED <<rows, declared, crossed>>
      BY <1>3, <1>15, <2>1, AttachAllergensDoes DEF rows
    <2>2. CASE ~UNCHANGED <<rows, declared, crossed>>
      <3> DEFINE L == req[r].marks
      <3>1. /\ Only(r) /\ req'[r] = Blank /\ req[r].pc = "attach" /\ o \in Owner
            /\ marks' = [marks EXCEPT ![o] = @ \union L]
            /\ Meets(L) /\ UNCHANGED <<label, key, category>>
        BY <1>15, <2>2, AttachAllergensDoes DEF Owner
      <3>2. L \subseteq req[r].holds
        BY <3>1, FieldsOf DEF Shape
      <3>3. \A x \in Owner : marks'[x] \subseteq marks[x] \union L
        BY <3>1 DEF Typed
      <3> HIDE DEF L
      <3>4. \A x \in Products' : x \in Products /\ LabelsOf(x)' \subseteq L \union LabelsOf(x)
        BY <3>1, <3>3 DEF Products, Stored, LabelsOf, Owner
      <3>5. req'[r].holds \subseteq req[r].holds /\ ~Retiring(r)'
        BY <3>1, BlankIs DEF Retiring
      <3> QED
        BY <1>2, <3>1, <3>2, <3>4, <3>5
    <2> QED
      BY <2>1, <2>2
  <1>16. CASE SaveProduct(r)
    <2> DEFINE o == req[r].owner
    <2>1. CASE UNCHANGED <<rows, history>>
      <3>1. Only(r) /\ (req'[r] = Blank \/ (req'[r].pc = "syncRead" /\ Same(r)))
        BY <1>16, SaveProductDoes
      <3>2. CASE req'[r] = Blank
        BY <1>3, <2>1, <3>1, <3>2 DEF rows, history
      <3>3. CASE req'[r].pc = "syncRead" /\ Same(r)
        BY <1>1, <2>1, <3>1, <3>3 DEF rows, history, Retiring, Same, Retired
      <3> QED
        BY <3>1, <3>2, <3>3
    <2>2. CASE ~UNCHANGED <<rows, history>>
      <3> DEFINE c == req[r].category
      <3>1. /\ Only(r) /\ o \in Product /\ c \in Category /\ req[r].pc = "save"
            /\ req'[r].pc = "syncRead" /\ Same(r)
            /\ category' = [category EXCEPT ![o] = c]
            /\ Meets({c}) /\ UNCHANGED <<label, key, marks>>
        BY <1>16, <2>2, SaveProductDoes
      <3>2. {c} \subseteq req[r].holds /\ c # None
        BY <3>1, FieldsOf, NoneIs DEF Shape, Label
      <3>3. \A x \in Product : category'[x] = c \/ category'[x] = category[x]
        BY <3>1 DEF Typed
      <3> HIDE DEF c
      <3>4. \A x \in Products' : x \in Products /\ LabelsOf(x)' \subseteq {c} \union LabelsOf(x)
        BY <3>1, <3>3 DEF Products, Stored, LabelsOf
      <3>5. \A x \in Products' : category'[x] = None => x \in Products /\ category[x] = None
        BY <3>2, <3>3, <3>4 DEF Products
      <3>6. req'[r].holds \subseteq req[r].holds /\ ~Retiring(r)'
        BY <3>1 DEF Retiring, Same
      <3> QED
        BY <1>2, <3>1, <3>2, <3>4, <3>5, <3>6
    <2> QED
      BY <2>1, <2>2
  <1>17. CASE SyncRead(r)
    BY <1>1, <1>17, SyncReadDoes DEF rows, history, Retiring, Same, Retired
  <1>18. CASE SyncWrite(r)
    <2> DEFINE o == req[r].owner
    <2>1. CASE UNCHANGED <<rows, declared, crossed>>
      BY <1>3, <1>18, <2>1, SyncWriteDoes DEF rows
    <2>2. CASE ~UNCHANGED <<rows, declared, crossed>>
      <3> DEFINE L == IF o \in Product THEN req[r].marks \ req[r].read ELSE {}
      <3>1. /\ Only(r) /\ req'[r] = Blank /\ req[r].pc = "syncWrite" /\ o \in Owner
            /\ marks' = [marks EXCEPT ![o] = Synced(@, req[r].marks, req[r].read)]
            /\ IF o \in Product THEN Meets(req[r].marks \ req[r].read) ELSE UNCHANGED crossed
            /\ UNCHANGED <<label, key, category>>
        BY <1>18, <2>2, SyncWriteDoes
      <3>2. L \subseteq req[r].holds
        BY <3>1, FieldsOf DEF Shape, Syncing
      <3>3. \A x \in Product : marks'[x] \subseteq marks[x] \union L
        <4> SUFFICES ASSUME NEW x \in Product PROVE marks'[x] \subseteq marks[x] \union L
          OBVIOUS
        <4>1. CASE x = o
          <5>1. marks'[x] = Synced(marks[o], req[r].marks, req[r].read)
            BY <3>1, <4>1 DEF Typed
          <5> QED
            BY <4>1, <5>1 DEF Synced
        <4>2. CASE x # o
          BY <3>1, <4>2 DEF Typed, Owner
        <4> QED
          BY <4>1, <4>2
      <3>4. Meets(L)
        <4>1. CASE o \in Product
          BY <3>1, <4>1
        <4>2. CASE o \notin Product
          BY <3>1, <4>2 DEF Meets
        <4> QED
          BY <4>1, <4>2
      <3> HIDE DEF L
      <3>5. \A x \in Products' : x \in Products /\ LabelsOf(x)' \subseteq L \union LabelsOf(x)
        BY <3>1, <3>3 DEF Products, Stored, LabelsOf
      <3>6. req'[r].holds \subseteq req[r].holds /\ ~Retiring(r)'
        BY <3>1, BlankIs DEF Retiring
      <3> QED
        BY <1>2, <3>1, <3>2, <3>4, <3>5, <3>6
    <2> QED
      BY <2>1, <2>2
  <1>19. CASE \E u \in User, A \in SUBSET Allergen : ExcludeAllergens(r, u, A)
    <2>0. PICK u \in User, A \in SUBSET Allergen : ExcludeAllergens(r, u, A)
      BY <1>19
    <2> QED
      BY <1>1, <2>0, ExcludeAllergensDoes DEF rows, Retiring
  <1>20. CASE \E l \in Label : InsertLabel(r, l)
    <2>0. PICK l \in Label : InsertLabel(r, l)
      BY <1>20
    <2>1. /\ Only(r) /\ req'[r] = Blank /\ UNCHANGED <<key, category, marks, crossed>>
          /\ label[l] = "absent" /\ label' = [label EXCEPT ![l] = "active"]
      BY <2>0, InsertLabelDoes DEF history
    <2>2. /\ \A x \in Label : label'[x] = "disabled" => label[x] = "disabled"
          /\ \A x \in Label : label[x] = "deleted" => label'[x] = "deleted"
      BY <2>1 DEF Typed
    <2>3. /\ Products' = Products /\ \A p : LabelsOf(p)' = LabelsOf(p)
          /\ \A x : InUse(x)' <=> InUse(x)
      BY <2>1 DEF Products, Stored, LabelsOf, InUse
    <2>4. \A s \in Request : req'[s].holds \subseteq req[s].holds /\ req[s].holds \subseteq Label
      BY <2>1, BlankIs DEF Only, Typed, Record
    <2>5. \A s \in Request : Retiring(s)' => Retiring(s) /\ req'[s].label = req[s].label
      BY <2>1, BlankIs DEF Only, Retiring
    <2>6. \A p \in Products : LabelsOf(p) \subseteq Label
      BY LabelsTyped DEF Products, Existing
    <2>7. Category \subseteq Label
      BY DEF Label
    <2> QED
      BY <2>1, <2>2, <2>3, <2>4, <2>5, <2>6, <2>7 DEF Retired
  <1>21. CASE \E l \in Label, to \in {"active", "disabled", "deleted"} : FindLabel(r, l, to)
    <2>0. PICK l \in Label, to \in {"active", "disabled", "deleted"} : FindLabel(r, l, to)
      BY <1>21
    <2> QED
      BY <1>1, <2>0, FindLabelDoes DEF rows, history, Retiring
  <1>22. CASE CheckLabel(r)
    <2>1. Only(r) /\ UNCHANGED <<label, key, category, marks, crossed>>
      BY <1>22, CheckLabelDoes DEF rows, history
    <2>2. CASE req'[r] = Blank
      BY <1>3, <2>1, <2>2
    <2>3. CASE req'[r] # Blank
      <3>1. ~InUse(req'[r].label) /\ req'[r].holds = req[r].holds
        BY <1>22, <2>3, CheckLabelDoes DEF Same
      <3> QED
        BY <1>1, <2>1, <3>1 DEF Retired
    <2> QED
      BY <2>2, <2>3
  <1>23. CASE SaveLabel(r)
    <2> DEFINE x == req[r].label
    <2>1. CASE label' = label /\ crossed' = crossed
      BY <1>3, <1>23, <2>1, SaveLabelDoes
    <2>2. CASE ~(label' = label /\ crossed' = crossed)
      <3>1. /\ Only(r) /\ req'[r] = Blank /\ UNCHANGED <<key, category, marks>>
            /\ x \in Label /\ x \in Existing /\ req[r].pc = "saveLabel"
            /\ req[r].want \in {"active", "disabled"} /\ label' = [label EXCEPT ![x] = req[r].want]
            /\ crossed' = IF req[r].want = "disabled" /\ \E o \in Request : x \in req[o].holds
                          THEN crossed \union {x} ELSE crossed
        BY <1>23, <2>2, SaveLabelDoes
      <3>2. /\ Products' = Products /\ \A p : LabelsOf(p)' = LabelsOf(p)
            /\ \A l : InUse(l)' <=> InUse(l)
        BY <3>1 DEF Products, Stored, LabelsOf, InUse
      <3>3. crossed \subseteq crossed'
        BY <3>1
      <3>4. /\ \A l \in Label : l # x => label'[l] = label[l]
            /\ label'[x] = req[r].want /\ label[x] # "deleted"
        BY <3>1 DEF Typed, Existing
      <3>5. \A s \in Request : req'[s].holds \subseteq req[s].holds /\ req[s].holds \subseteq Label
        BY <3>1, BlankIs DEF Only, Typed, Record
      <3>6. \A s \in Request : Retiring(s)' => Retiring(s) /\ req'[s].label = req[s].label
        BY <3>1, BlankIs DEF Only, Retiring
      <3>7. \A p \in Products : LabelsOf(p) \subseteq Label
        BY LabelsTyped DEF Products, Existing
      <3>8. ASSUME NEW p \in Products, NEW l \in LabelsOf(p), label'[l] = "disabled"
            PROVE  l \in crossed'
        <4>1. CASE l = x
          <5>1. InUse(x) /\ Retiring(r)
            BY <3>1, <3>4, <3>8, <4>1 DEF InUse, Retiring
          <5> QED
            BY <3>3, <4>1, <5>1 DEF Retired
        <4>2. CASE l # x
          BY <3>3, <3>4, <3>7, <3>8, <4>2 DEF Retired
        <4> QED
          BY <4>1, <4>2
      <3>9. ASSUME NEW s \in Request, NEW l \in req'[s].holds, label'[l] = "disabled"
            PROVE  l \in crossed'
        <4>1. CASE l = x
          BY <3>1, <3>4, <3>5, <3>9, <4>1
        <4>2. CASE l # x
          BY <3>3, <3>4, <3>5, <3>9, <4>2 DEF Retired
        <4> QED
          BY <4>1, <4>2
      <3>10. \A s \in Request : Retiring(s)' /\ InUse(req[s].label)' => req'[s].label \in crossed'
        BY <3>2, <3>3, <3>6 DEF Retired
      <3>11. (\E p \in Products : category[p] = None)
               => \E c \in Category \intersect crossed' : label'[c] = "deleted"
        BY <3>3, <3>4 DEF Retired, Label
      <3> QED
        BY <3>1, <3>2, <3>8, <3>9, <3>10, <3>11 DEF Retired
    <2> QED
      BY <2>1, <2>2
  <1>24. CASE RemoveLabel(r)
    <2> DEFINE x == req[r].label
    <2>1. /\ Only(r) /\ req'[r] = Blank /\ UNCHANGED <<key, crossed>> /\ x \in Label
          /\ req[r].pc = "removeLabel" /\ label' = [label EXCEPT ![x] = "deleted"]
          /\ category' = [p \in Product |-> IF category[p] = x THEN None ELSE category[p]]
          /\ marks' = [o \in Owner |-> marks[o] \ {x}]
      BY <1>24, RemoveLabelDoes DEF history, Cascade
    <2>2. /\ \A l \in Label : label'[l] = "disabled" => label[l] = "disabled"
          /\ \A l \in Label : label[l] = "deleted" => label'[l] = "deleted"
          /\ label'[x] = "deleted"
      BY <2>1 DEF Typed
    <2>3. Products' = Products
      BY <2>1 DEF Products, Stored
    <2>4. \A p \in Product : LabelsOf(p)' \subseteq LabelsOf(p) /\ LabelsOf(p) \subseteq Label
      <3> SUFFICES ASSUME NEW p \in Product
                   PROVE  LabelsOf(p)' \subseteq LabelsOf(p) /\ LabelsOf(p) \subseteq Label
        OBVIOUS
      <3>1. category'[p] \in {None, category[p]} /\ marks'[p] \subseteq marks[p]
        BY <2>1 DEF Owner
      <3> QED
        BY <3>1, LabelsTyped DEF LabelsOf, Existing
    <2>5. \A l : InUse(l)' => InUse(l)
      BY <2>3, <2>4 DEF InUse, Products
    <2>6. \A s \in Request : req'[s].holds \subseteq req[s].holds /\ req[s].holds \subseteq Label
      BY <2>1, BlankIs DEF Only, Typed, Record
    <2>7. \A s \in Request : Retiring(s)' => Retiring(s) /\ req'[s].label = req[s].label
      BY <2>1, BlankIs DEF Only, Retiring
    <2>8. ASSUME NEW p \in Products, category'[p] = None
          PROVE  \E c \in Category \intersect crossed : label'[c] = "deleted"
      <3>1. p \in Product
        BY DEF Products
      <3>2. CASE category[p] = None
        BY <2>2, <3>2 DEF Retired, Label
      <3>3. CASE category[p] # None
        <4>1. category[p] = x
          BY <2>1, <2>8, <3>1, <3>3
        <4>2. x \in Category /\ InUse(x)
          BY <3>1, <3>3, <4>1, LabelsTyped DEF Typed, InUse
        <4>3. x \in crossed
          BY <2>1, <4>2 DEF Retired, Retiring
        <4> QED
          BY <2>2, <4>2, <4>3
      <3> QED
        BY <3>2, <3>3
    <2>9. \A p \in Products' : \A l \in LabelsOf(p)' : label'[l] = "disabled" => l \in crossed'
      BY <2>1, <2>2, <2>3, <2>4 DEF Retired, Products
    <2>10. \A s \in Request : \A l \in req'[s].holds : label'[l] = "disabled" => l \in crossed'
      BY <2>1, <2>2, <2>6 DEF Retired
    <2>11. \A s \in Request : Retiring(s)' /\ InUse(req[s].label)' => req'[s].label \in crossed'
      BY <2>1, <2>5, <2>7 DEF Retired
    <2> QED
      BY <2>1, <2>3, <2>8, <2>9, <2>10, <2>11 DEF Retired
  <1>25. CASE Cut(r)
    BY <1>3, <1>25, CutDoes DEF rows
  <1> QED
    BY <1>0, <1>10, <1>11, <1>12, <1>13, <1>14, <1>15, <1>16, <1>17, <1>18,
       <1>19, <1>20, <1>21, <1>22, <1>23, <1>24, <1>25 DEF StepOf

-----------------------------------------------------------------------------
(* Labels named anywhere were inserted once. *)

Seen == {l \in Label : label[l] # "absent"}
Known ==
  /\ \A r \in Request : req[r].holds \union req[r].marks \subseteq Seen
  /\ \A r \in Request : req[r].pc = "syncWrite" => req[r].read \subseteq Seen
  /\ \A o \in Owner : declared[o].marks \subseteq Seen

LEMMA KnownInit ==
  ASSUME Init
  PROVE  Known
  <1>1. \A r \in Request : req[r] = Blank
    BY DEF Init
  <1>2. \A l \in StartLabels : l \in Seen
    BY CatalogueAssumption DEF Init, Seen
  <1>3. \A o \in Owner : declared[o].marks = StartMarks[o]
    BY DEF Init
  <1> QED
    BY <1>1, <1>2, <1>3, BlankIs, CatalogueAssumption DEF Known

LEMMA KnownStep ==
  ASSUME Typed, Known, CatalogueNext
  PROVE  Known'
  <1>0. PICK r \in Request : StepOf(r)
    BY StepIsOfOne
  <1>1. /\ Existing \subseteq Seen /\ Enabled \subseteq Seen
        /\ \A p \in Product : LabelsOf(p) \subseteq Seen
        /\ \A o \in Owner : marks[o] \subseteq Seen
    <2>1. Existing \subseteq Seen /\ Enabled \subseteq Existing
      BY DEF Existing, Seen, Enabled
    <2>2. \A o \in Owner : marks[o] \subseteq Existing
      BY DEF Typed
    <2> QED
      BY <2>1, <2>2, LabelsTyped
  \* What the request holds is known, and so is what was declared.
  <1>2. ASSUME Only(r), Seen \subseteq Seen',
               req'[r].holds \union req'[r].marks \subseteq Seen,
               req'[r].pc = "syncWrite" => req'[r].read \subseteq Seen,
               \A o \in Owner : declared'[o].marks \subseteq Seen
        PROVE  Known'
    BY <1>2 DEF Known, Only
  <1>3. rows' = rows => Seen' = Seen
    BY DEF rows, Seen
  <1>4. label' = label => Seen' = Seen
    BY DEF Seen
  <1>5. declared' = declared => \A o \in Owner : declared'[o].marks \subseteq Seen
    BY DEF Known
  <1>6. req[r].holds \union req[r].marks \subseteq Seen
    BY DEF Known
  <1>10. CASE OpenCreateForm(r)
    BY <1>1, <1>2, <1>3, <1>5, <1>10, OpenCreateFormDoes DEF history
  <1>11. CASE \E p \in Product : OpenEditForm(r, p)
    <2>0. PICK p \in Product : OpenEditForm(r, p)
      BY <1>11
    <2> QED
      BY <1>1, <1>2, <1>3, <1>5, <2>0, OpenEditFormDoes DEF history
  <1>12. CASE \E c \in Category, A \in SUBSET Allergen, json \in BOOLEAN : SubmitCreate(r, c, A, json)
    <2>0. PICK c \in Category, A \in SUBSET Allergen, json \in BOOLEAN : SubmitCreate(r, c, A, json)
      BY <1>12
    <2>1. UNCHANGED <<rows, history>> /\ Only(r)
      BY <2>0, SubmitCreateDoes
    <2>2. req'[r].holds \union req'[r].marks \subseteq req[r].holds \union req[r].marks
      <3>1. /\ {c} \union Received(A, json) \subseteq req[r].holds
            /\ req'[r].holds = {c} \union Received(A, json)
            /\ req'[r].marks = Received(A, json)
        BY <2>0, SubmitCreateDoes, SMTT(60)
      <3> QED
        BY <3>1
    <2>3. req'[r].pc # "syncWrite"
      BY <2>0, SubmitCreateDoes
    <2> QED
      BY <1>2, <1>3, <1>5, <1>6, <2>1, <2>2, <2>3 DEF history
  <1>13. CASE \E c \in Category, A \in SUBSET Allergen : SubmitEdit(r, c, A)
    <2>0. PICK c \in Category, A \in SUBSET Allergen : SubmitEdit(r, c, A)
      BY <1>13
    <2> QED
      BY <1>2, <1>3, <1>5, <1>6, <2>0, SubmitEditDoes DEF history
  <1>14. CASE \E p \in Product : InsertProduct(r, p)
    <2>0. PICK p \in Product : InsertProduct(r, p)
      BY <1>14
    <2>1. CASE UNCHANGED <<rows, history>> /\ req'[r] = Blank
      BY <1>2, <1>3, <1>5, <2>0, <2>1, InsertProductDoes, BlankIs DEF history
    <2>2. CASE ~(UNCHANGED <<rows, history>> /\ req'[r] = Blank)
      <3>1. /\ Only(r) /\ label' = label
            /\ declared' = [declared EXCEPT ![p] = [category |-> req[r].category, marks |-> {}]]
            /\ req'[r].holds \union req'[r].marks \subseteq req[r].holds \union req[r].marks
            /\ req'[r].pc # "syncWrite"
        BY <2>0, <2>2, InsertProductDoes, BlankIs
      <3>2. \A o \in Owner : declared'[o].marks \subseteq Seen
        BY <3>1 DEF Known, Typed
      <3> QED
        BY <1>2, <1>4, <1>6, <3>1, <3>2
    <2> QED
      BY <2>1, <2>2
  <1>15. CASE AttachAllergens(r)
    <2>1. \/ declared' = declared
          \/ declared' = [declared EXCEPT ![req[r].owner].marks = req[r].marks]
      BY <1>15, AttachAllergensDoes
    <2>2. \A o \in Owner : declared'[o].marks \subseteq Seen
      BY <1>6, <2>1 DEF Known, Typed
    <2> QED
      BY <1>2, <1>4, <1>15, <2>2, AttachAllergensDoes, BlankIs DEF rows
  <1>16. CASE SaveProduct(r)
    <2>1. /\ Only(r) /\ label' = label /\ declared' = declared
          /\ req'[r] = Blank \/ (req'[r].pc = "syncRead" /\ Same(r))
      BY <1>16, SaveProductDoes DEF rows, history
    <2> QED
      BY <1>2, <1>4, <1>5, <1>6, <2>1, BlankIs DEF Same
  <1>17. CASE SyncRead(r)
    BY <1>1, <1>2, <1>3, <1>5, <1>6, <1>17, SyncReadDoes DEF Same, history
  <1>18. CASE SyncWrite(r)
    <2>1. \/ declared' = declared
          \/ declared' = [declared EXCEPT ![req[r].owner] =
                            [category |-> req[r].category, marks |-> req[r].marks]]
      BY <1>18, SyncWriteDoes
    <2>2. \A o \in Owner : declared'[o].marks \subseteq Seen
      BY <1>6, <2>1 DEF Known, Typed
    <2> QED
      BY <1>2, <1>4, <1>18, <2>2, SyncWriteDoes, BlankIs DEF rows
  <1>19. CASE \E u \in User, A \in SUBSET Allergen : ExcludeAllergens(r, u, A)
    <2>0. PICK u \in User, A \in SUBSET Allergen : ExcludeAllergens(r, u, A)
      BY <1>19
    <2>1. \A a \in A : label[a] # "absent" /\ a \in Label
      BY <2>0, ExcludeAllergensDoes DEF Label
    <2>2. A \subseteq Seen
      BY <2>1 DEF Seen
    <2> QED
      BY <1>2, <1>3, <1>5, <2>0, <2>2, ExcludeAllergensDoes
  <1>20. CASE \E l \in Label : InsertLabel(r, l)
    <2>0. PICK l \in Label : InsertLabel(r, l)
      BY <1>20
    <2>1. Seen \subseteq Seen'
      BY <2>0, InsertLabelDoes DEF Seen, Typed
    <2> QED
      BY <1>2, <1>5, <2>0, <2>1, InsertLabelDoes, BlankIs DEF history
  <1>21. CASE \E l \in Label, to \in {"active", "disabled", "deleted"} : FindLabel(r, l, to)
    <2>0. PICK l \in Label, to \in {"active", "disabled", "deleted"} : FindLabel(r, l, to)
      BY <1>21
    <2> QED
      BY <1>1, <1>2, <1>3, <1>5, <2>0, FindLabelDoes DEF history
  <1>22. CASE CheckLabel(r)
    <2>1. /\ Only(r) /\ label' = label /\ declared' = declared
          /\ req'[r] = Blank \/ (req'[r].pc \in {"removeLabel", "saveLabel"} /\ Same(r))
      BY <1>22, CheckLabelDoes DEF rows, history
    <2> QED
      BY <1>2, <1>4, <1>5, <1>6, <2>1, BlankIs DEF Same
  <1>23. CASE SaveLabel(r)
    <2>1. Seen \subseteq Seen'
      BY <1>23, SaveLabelDoes DEF Seen, Typed
    <2> QED
      BY <1>2, <1>5, <1>23, <2>1, SaveLabelDoes, BlankIs DEF history
  <1>24. CASE RemoveLabel(r)
    <2>1. Seen \subseteq Seen'
      BY <1>24, RemoveLabelDoes DEF Seen, Typed
    <2> QED
      BY <1>2, <1>5, <1>24, <2>1, RemoveLabelDoes, BlankIs DEF history
  <1>25. CASE Cut(r)
    BY <1>2, <1>3, <1>5, <1>25, CutDoes, BlankIs
  <1> QED
    BY <1>0, <1>10, <1>11, <1>12, <1>13, <1>14, <1>15, <1>16, <1>17, <1>18,
       <1>19, <1>20, <1>21, <1>22, <1>23, <1>24, <1>25 DEF StepOf

-----------------------------------------------------------------------------
(* Rows say what was declared, or who is at work on them says what they hold. *)

AtWork(r, o) == req[r].owner = o /\ req[r].pc \in {"attach", "save", "syncRead", "syncWrite"}
Agrees(o) ==
  /\ marks[o] = declared[o].marks \intersect Existing
  /\ o \in Product => category[o] \in {declared[o].category, None}
\* What is in the rows of o while r is at work on them.
Doing(r, o) ==
  /\ req[r].pc = "attach" => /\ declared[o].marks = {} /\ marks[o] = {}
                             /\ category[o] \in {declared[o].category, None}
  /\ req[r].pc = "save" => /\ Agrees(o)
                           /\ \E c : req[r].read = {c} /\ category[o] \in {c, None}
  /\ req[r].pc \in {"syncRead", "syncWrite"} /\ o \in Product => category[o] \in {req[r].category, None}
  /\ req[r].pc = "syncWrite" => marks[o] = req[r].read \intersect Existing
Alone(o) ==
  /\ \A r, s \in Request : AtWork(r, o) /\ AtWork(s, o) => r = s
  /\ ~Writing(o) => Agrees(o)
  /\ \A r \in Request : AtWork(r, o) => Doing(r, o)
Kept == \A o \in Owner \ blurred : Alone(o)

LEMMA WritingIs ==
  ASSUME NEW o
  PROVE  Writing(o) <=> \E r \in Request : AtWork(r, o)
  BY DEF Writing, AtWork

LEMMA KeptInit ==
  ASSUME Init
  PROVE  Kept
  <1>1. \A r \in Request : req[r].pc = "idle"
    BY BlankIs DEF Init
  <1>2. \A l \in StartLabels : l \in Existing
    BY CatalogueAssumption DEF Init, Existing
  <1>3. \A o \in Owner : marks[o] = StartMarks[o] /\ StartMarks[o] \subseteq Existing
    BY <1>2, CatalogueAssumption DEF Init
  <1>4. \A o \in Owner : declared[o].marks = StartMarks[o]
    BY DEF Init
  <1>5. \A p \in Product : category[p] \in {declared[p].category, None}
    BY CatalogueAssumption DEF Init, Owner
  <1>6. \A o \in Owner : Agrees(o)
    BY <1>3, <1>4, <1>5 DEF Agrees
  <1> QED
    BY <1>1, <1>6 DEF Kept, Alone, AtWork

LEMMA WorksOnProduct ==
  ASSUME Typed, NEW r \in Request, req[r].pc \in {"attach", "save"}
  PROVE  req[r].owner \in Product
  BY FieldsOf DEF Shape

\* Only r is at work on o.
LEMMA OneWorks ==
  ASSUME NEW r \in Request, NEW o \in Owner, Only(r),
         \A s \in Request : s # r => ~AtWork(s, o),
         AtWork(r, o)' => Doing(r, o)', ~AtWork(r, o)' => Agrees(o)'
  PROVE  Alone(o)'
  <1>1. \A s \in Request : s # r => ~AtWork(s, o)'
    BY DEF Only, AtWork
  <1>2. ~Writing(o)' => ~AtWork(r, o)'
    BY DEF Writing, AtWork
  <1> QED
    BY <1>1, <1>2 DEF Alone

\* r is at work elsewhere; a label may appear, or vanish and take its marks along.
LEMMA Elsewhere ==
  ASSUME Typed, Known, NEW r \in Request, NEW o \in Owner, Only(r), Alone(o),
         ~AtWork(r, o), ~AtWork(r, o)', declared'[o] = declared[o],
         Seen \intersect Existing' \subseteq Existing,
         marks'[o] = marks[o] \intersect Existing',
         o \in Product => category'[o] \in {category[o], None}
  PROVE  Alone(o)'
  <1>1. \A s \in Request : AtWork(s, o)' => s # r /\ AtWork(s, o) /\ req'[s] = req[s]
    BY DEF Only, AtWork
  <1>2. Agrees(o) => Agrees(o)'
    BY DEF Agrees, Known
  <1>3. ~Writing(o)' => ~Writing(o)
    BY DEF Only, AtWork, Writing
  <1>4. ASSUME NEW s \in Request, AtWork(s, o)'
        PROVE  Doing(s, o)'
    <2>1. req'[s] = req[s] /\ Doing(s, o) /\ AtWork(s, o)
      BY <1>1, <1>4 DEF Alone
    <2>2. o \in Product => category'[o] \in {category[o], None}
      OBVIOUS
    <2>3. req[s].pc = "attach" => /\ declared'[o].marks = {} /\ marks'[o] = {}
                                  /\ category'[o] \in {declared'[o].category, None}
      <3> SUFFICES ASSUME req[s].pc = "attach"
                   PROVE  /\ declared'[o].marks = {} /\ marks'[o] = {}
                          /\ category'[o] \in {declared'[o].category, None}
        OBVIOUS
      <3>1. o \in Product
        BY <2>1, WorksOnProduct DEF AtWork
      <3> QED
        BY <2>1, <3>1 DEF Doing
    <2>4. req[s].pc = "save" => /\ Agrees(o)'
                                /\ \E c : req[s].read = {c} /\ category'[o] \in {c, None}
      <3> SUFFICES ASSUME req[s].pc = "save"
                   PROVE  /\ Agrees(o)'
                          /\ \E c : req[s].read = {c} /\ category'[o] \in {c, None}
        OBVIOUS
      <3>1. o \in Product
        BY <2>1, WorksOnProduct DEF AtWork
      <3> QED
        BY <1>2, <2>1, <3>1 DEF Doing
    <2>5. req[s].pc \in {"syncRead", "syncWrite"} /\ o \in Product
            => category'[o] \in {req[s].category, None}
      BY <2>1 DEF Doing
    <2>6. req[s].pc = "syncWrite" => marks'[o] = req[s].read \intersect Existing'
      BY <2>1 DEF Doing, Known
    <2> QED
      BY <2>1, <2>3, <2>4, <2>5, <2>6 DEF Doing
  <1> QED
    BY <1>1, <1>2, <1>3, <1>4 DEF Alone

LEMMA KeptStep ==
  ASSUME Typed, Known, Kept, CatalogueNext
  PROVE  Kept'
  <1>0. PICK r \in Request : StepOf(r)
    BY StepIsOfOne
  <1> SUFFICES ASSUME NEW o \in Owner, o \notin blurred'
               PROVE  Alone(o)'
    BY DEF Kept
  <1>1. marks[o] \subseteq Existing
    BY DEF Typed
  \* r is at work elsewhere, and no row of o changes.
  <1>2. ASSUME Only(r), o \notin blurred, ~AtWork(r, o), ~AtWork(r, o)', label' = label,
               declared'[o] = declared[o], marks'[o] = marks[o],
               o \in Product => category'[o] = category[o]
        PROVE  Alone(o)'
    <2>1. Existing' = Existing
      BY <1>2 DEF Existing
    <2>2. Alone(o)
      BY <1>2 DEF Kept
    <2> QED
      BY <1>1, <1>2, <2>1, <2>2, Elsewhere
  \* r begins to work on o.
  <1>3. ASSUME Only(r), o \notin blurred, ~Writing(o), label' = label, declared' = declared,
               AtWork(r, o)', Agrees(o) => Doing(r, o)'
        PROVE  Alone(o)'
    <2>1. \A s \in Request : ~AtWork(s, o)
      BY <1>3, WritingIs
    <2>2. Agrees(o)
      BY <1>3 DEF Kept, Alone
    <2> QED
      BY <1>3, <2>1, <2>2, OneWorks
  \* r goes on, or leaves o.
  <1>4. ASSUME Only(r), o \notin blurred, AtWork(r, o),
               Doing(r, o) => (AtWork(r, o)' => Doing(r, o)') /\ (~AtWork(r, o)' => Agrees(o)')
        PROVE  Alone(o)'
    <2>1. Doing(r, o) /\ \A s \in Request : s # r => ~AtWork(s, o)
      BY <1>4 DEF Kept, Alone
    <2> QED
      BY <1>4, <2>1, OneWorks
  <1>5. Blank.pc = "idle"
    BY BlankIs
  <1>10. CASE OpenCreateForm(r)
    <2>1. Only(r) /\ UNCHANGED <<rows, history>>
      BY <1>10, OpenCreateFormDoes
    <2>2. ~AtWork(r, o) /\ ~AtWork(r, o)'
      BY <1>5, <1>10, OpenCreateFormDoes DEF AtWork, OpenCreateForm, OpenEditForm, FindLabel, Begin
    <2> QED
      BY <1>2, <2>1, <2>2 DEF rows, history
  <1>11. CASE \E p \in Product : OpenEditForm(r, p)
    <2>0. PICK p \in Product : OpenEditForm(r, p)
      BY <1>11
    <2>1. Only(r) /\ UNCHANGED <<rows, history>>
      BY <2>0, OpenEditFormDoes
    <2>2. ~AtWork(r, o) /\ ~AtWork(r, o)'
      BY <1>5, <2>0, OpenEditFormDoes DEF AtWork, OpenCreateForm, OpenEditForm, FindLabel, Begin
    <2> QED
      BY <1>2, <2>1, <2>2 DEF rows, history
  <1>12. CASE \E c \in Category, A \in SUBSET Allergen, json \in BOOLEAN : SubmitCreate(r, c, A, json)
    <2>0. PICK c \in Category, A \in SUBSET Allergen, json \in BOOLEAN : SubmitCreate(r, c, A, json)
      BY <1>12
    <2>1. Only(r) /\ UNCHANGED <<rows, history>>
      BY <2>0, SubmitCreateDoes
    <2>2. ~AtWork(r, o) /\ ~AtWork(r, o)'
      BY <1>5, <2>0, SubmitCreateDoes DEF AtWork
    <2> QED
      BY <1>2, <2>1, <2>2 DEF rows, history
  <1>13. CASE \E c \in Category, A \in SUBSET Allergen : SubmitEdit(r, c, A)
    <2>0. PICK c \in Category, A \in SUBSET Allergen : SubmitEdit(r, c, A)
      BY <1>13
    <2>1. /\ Only(r) /\ UNCHANGED <<label, key, category, marks, declared>> /\ o \notin blurred
          /\ req[r].pc = "form" /\ req'[r].owner = req[r].owner
          /\ req'[r].read = {category[req[r].owner]} /\ req'[r].pc = "save"
      BY <2>0, SubmitEditDoes DEF rows
    <2>2. CASE req[r].owner = o
      <3>1. ~Writing(o)
        BY <2>0, <2>2, SubmitEditDoes
      <3>2. AtWork(r, o)'
        BY <2>1, <2>2 DEF AtWork
      <3>3. Agrees(o) => Agrees(o)'
        BY <2>1 DEF Agrees, Existing
      <3>4. Agrees(o) => Doing(r, o)'
        BY <2>1, <2>2, <3>3 DEF Doing
      <3> QED
        BY <1>3, <2>1, <3>1, <3>2, <3>4
    <2>3. CASE req[r].owner # o
      BY <1>2, <2>1, <2>3 DEF AtWork
    <2> QED
      BY <2>2, <2>3
  <1>14. CASE \E p \in Product : InsertProduct(r, p)
    <2>0. PICK p \in Product : InsertProduct(r, p)
      BY <1>14
    <2>1. CASE UNCHANGED <<rows, history>> /\ req'[r] = Blank
      <3>1. ~AtWork(r, o) /\ ~AtWork(r, o)'
        BY <1>5, <2>0, <2>1, InsertProductDoes DEF AtWork
      <3> QED
        BY <1>2, <2>0, <2>1, <3>1, InsertProductDoes DEF rows, history
    <2>2. CASE ~(UNCHANGED <<rows, history>> /\ req'[r] = Blank)
      <3>1. /\ Only(r) /\ req[r].pc = "insert" /\ ~Stored(p)
            /\ category' = [category EXCEPT ![p] = req[r].category]
            /\ declared' = [declared EXCEPT ![p] = [category |-> req[r].category, marks |-> {}]]
            /\ UNCHANGED <<label, marks, blurred>>
            /\ req'[r] = Blank \/ (req'[r].pc = "attach" /\ req'[r].owner = p)
        BY <2>0, <2>2, InsertProductDoes
      <3>2. CASE o = p
        <4>1. \A s \in Request : req[s].owner # p /\ marks[p] = {}
          BY <3>1 DEF Typed
        <4>2. /\ category'[p] = req[r].category /\ marks'[p] = {}
              /\ declared'[p].category = req[r].category /\ declared'[p].marks = {}
          BY <3>1, <3>2, <4>1 DEF Typed, Owner
        <4>3. Agrees(o)'
          BY <3>2, <4>2 DEF Agrees
        <4>4. Doing(r, o)' \/ ~AtWork(r, o)'
          BY <1>5, <3>1, <3>2, <4>2 DEF Doing, AtWork
        <4>5. \A s \in Request : ~AtWork(s, o)
          BY <3>2, <4>1 DEF AtWork
        <4> QED
          BY <3>1, <4>3, <4>4, <4>5, OneWorks
      <3>3. CASE o # p
        <4>1. ~AtWork(r, o) /\ ~AtWork(r, o)'
          BY <1>5, <3>1, <3>3 DEF AtWork
        <4>2. declared'[o] = declared[o] /\ (o \in Product => category'[o] = category[o])
          BY <3>1, <3>3 DEF Typed
        <4> QED
          BY <1>2, <3>1, <4>1, <4>2
      <3> QED
        BY <3>2, <3>3
    <2> QED
      BY <2>1, <2>2
  <1>15. CASE AttachAllergens(r)
    <2>1. Only(r) /\ req[r].pc = "attach" /\ ~AtWork(r, o)' /\ o \notin blurred /\ label' = label
          /\ category' = category
      BY <1>5, <1>15, AttachAllergensDoes DEF AtWork, rows
    <2>2. CASE req[r].owner = o
      <3>1. /\ req[r].marks \subseteq Existing
            /\ marks' = [marks EXCEPT ![o] = @ \union req[r].marks]
            /\ declared' = [declared EXCEPT ![o].marks = req[r].marks]
        BY <1>15, <2>2, AttachAllergensDoes
      <3>2. marks'[o] = marks[o] \union req[r].marks
        BY <3>1 DEF Typed
      <3>3. declared'[o].marks = req[r].marks /\ declared'[o].category = declared[o].category
        BY <3>1 DEF Typed
      <3>4. AtWork(r, o)
        BY <2>1, <2>2 DEF AtWork
      <3>5. Doing(r, o) => Agrees(o)'
        BY <2>1, <3>1, <3>2, <3>3 DEF Doing, Agrees, Existing
      <3> QED
        BY <1>4, <2>1, <3>4, <3>5
    <2>3. CASE req[r].owner # o
      <3>1. marks'[o] = marks[o] /\ declared'[o] = declared[o]
        BY <1>15, <2>3, AttachAllergensDoes DEF Typed, rows
      <3>2. ~AtWork(r, o)
        BY <2>3 DEF AtWork
      <3> QED
        BY <1>2, <2>1, <3>1, <3>2
    <2> QED
      BY <2>2, <2>3
  <1>16. CASE SaveProduct(r)
    <2>1. /\ Only(r) /\ req[r].pc = "save" /\ o \notin blurred /\ req[r].owner \in Product
          /\ UNCHANGED <<label, marks, declared>>
      BY <1>16, SaveProductDoes DEF rows, history
    <2>2. \/ req'[r] = Blank /\ category' = category
          \/ /\ req'[r].pc = "syncRead" /\ Same(r)
             /\ \/ req[r].category \in req[r].read /\ category' = category
                \/ category' = [category EXCEPT ![req[r].owner] = req[r].category]
      BY <1>16, SaveProductDoes DEF rows
    <2>3. CASE req[r].owner = o
      <3>1. AtWork(r, o)
        BY <2>1, <2>3 DEF AtWork
      <3>2. CASE req'[r] = Blank /\ category' = category
        <4>1. Doing(r, o) => Agrees(o)'
          BY <2>1, <3>2 DEF Doing, Agrees, Existing
        <4>2. ~AtWork(r, o)'
          BY <1>5, <3>2 DEF AtWork
        <4> QED
          BY <1>4, <2>1, <3>1, <4>1, <4>2
      <3>3. CASE req'[r].pc = "syncRead" /\ Same(r)
        <4>1. AtWork(r, o)'
          BY <2>3, <3>3 DEF AtWork, Same
        <4>2. Doing(r, o) => category'[o] \in {req[r].category, None}
          BY <2>1, <2>2, <2>3, <1>5, <3>3 DEF Doing, Typed
        <4>3. Doing(r, o) => Doing(r, o)'
          BY <3>3, <4>2 DEF Doing, Same
        <4> QED
          BY <1>4, <2>1, <3>1, <4>1, <4>3
      <3> QED
        BY <2>2, <3>2, <3>3
    <2>4. CASE req[r].owner # o
      <3>1. ~AtWork(r, o) /\ ~AtWork(r, o)'
        BY <1>5, <2>2, <2>4 DEF AtWork, Same
      <3>2. o \in Product => category'[o] = category[o]
        BY <2>1, <2>2, <2>4 DEF Typed
      <3> QED
        BY <1>2, <2>1, <3>1, <3>2
    <2> QED
      BY <2>3, <2>4
  <1>17. CASE SyncRead(r)
    <2>1. /\ Only(r) /\ req[r].pc = "syncRead" /\ UNCHANGED <<label, key, category, marks, declared, blurred>>
          /\ req'[r].pc = "syncWrite" /\ Same(r) /\ req'[r].read = marks[req[r].owner]
      BY <1>17, SyncReadDoes DEF rows, history
    <2>2. CASE req[r].owner = o
      <3>1. AtWork(r, o) /\ AtWork(r, o)'
        BY <2>1, <2>2 DEF AtWork, Same
      <3>2. marks'[o] = req'[r].read \intersect Existing'
        BY <1>1, <2>1, <2>2 DEF Existing
      <3>3. Doing(r, o) => Doing(r, o)'
        BY <2>1, <3>2 DEF Doing, Same
      <3> QED
        BY <1>4, <2>1, <3>1, <3>3
    <2>3. CASE req[r].owner # o
      BY <1>2, <2>1, <2>3 DEF AtWork, Same
    <2> QED
      BY <2>2, <2>3
  <1>18. CASE SyncWrite(r)
    <2>1. Only(r) /\ req[r].pc = "syncWrite" /\ ~AtWork(r, o)' /\ o \notin blurred /\ label' = label
          /\ category' = category
      BY <1>5, <1>18, SyncWriteDoes DEF AtWork, rows
    <2>2. CASE req[r].owner = o
      <3>1. /\ req[r].marks \ req[r].read \subseteq Existing
            /\ marks' = [marks EXCEPT ![o] = Synced(@, req[r].marks, req[r].read)]
            /\ declared' = [declared EXCEPT ![o] = [category |-> req[r].category, marks |-> req[r].marks]]
        BY <1>18, <2>2, SyncWriteDoes
      <3>2. marks'[o] = (marks[o] \ (req[r].read \ req[r].marks)) \union (req[r].marks \ req[r].read)
        BY <3>1 DEF Typed, Synced
      <3>3. declared'[o].marks = req[r].marks /\ declared'[o].category = req[r].category
        BY <3>1 DEF Typed
      <3>4. AtWork(r, o)
        BY <2>1, <2>2 DEF AtWork
      <3>5. Existing' = Existing
        BY <2>1 DEF Existing
      <3>6. Doing(r, o) => marks'[o] = req[r].marks \intersect Existing
        BY <2>1, <3>1, <3>2 DEF Doing
      <3>7. Doing(r, o) => Agrees(o)'
        BY <2>1, <3>3, <3>5, <3>6 DEF Doing, Agrees
      <3> QED
        BY <1>4, <2>1, <3>4, <3>7
    <2>3. CASE req[r].owner # o
      <3>0. \/ /\ marks' = [marks EXCEPT ![req[r].owner] = Synced(@, req[r].marks, req[r].read)]
               /\ declared' = [declared EXCEPT ![req[r].owner] =
                                 [category |-> req[r].category, marks |-> req[r].marks]]
            \/ UNCHANGED <<marks, declared>>
        BY <1>18, SyncWriteDoes DEF rows
      <3>1. marks'[o] = marks[o] /\ declared'[o] = declared[o]
        BY <2>3, <3>0 DEF Typed
      <3>2. ~AtWork(r, o)
        BY <2>3 DEF AtWork
      <3> QED
        BY <1>2, <2>1, <3>1, <3>2
    <2> QED
      BY <2>2, <2>3
  <1>19. CASE \E u \in User, A \in SUBSET Allergen : ExcludeAllergens(r, u, A)
    <2>0. PICK u \in User, A \in SUBSET Allergen : ExcludeAllergens(r, u, A)
      BY <1>19
    <2>1. /\ Only(r) /\ UNCHANGED <<label, key, category, marks, declared>> /\ o \notin blurred
          /\ req[r].pc = "idle" /\ req'[r].owner = u /\ req'[r].pc = "syncRead"
      BY <2>0, ExcludeAllergensDoes DEF rows
    <2>2. CASE o = u
      <3>1. ~Writing(o)
        BY <2>0, <2>2, ExcludeAllergensDoes
      <3>2. o \notin Product
        BY <2>2, NoneIs
      <3>3. AtWork(r, o)' /\ Doing(r, o)'
        BY <2>1, <2>2, <3>2 DEF AtWork, Doing
      <3> QED
        BY <1>3, <2>1, <3>1, <3>3
    <2>3. CASE o # u
      BY <1>2, <2>1, <2>3 DEF AtWork
    <2> QED
      BY <2>2, <2>3
  <1>20. CASE \E l \in Label : InsertLabel(r, l)
    <2>0. PICK l \in Label : InsertLabel(r, l)
      BY <1>20
    <2>1. /\ Only(r) /\ ~AtWork(r, o) /\ ~AtWork(r, o)' /\ o \notin blurred
          /\ UNCHANGED <<category, marks, declared>>
          /\ label[l] = "absent" /\ label' = [label EXCEPT ![l] = "active"]
      BY <1>5, <2>0, InsertLabelDoes DEF AtWork, history
    <2>2. Existing \subseteq Existing' /\ Seen \intersect Existing' \subseteq Existing
      BY <2>1 DEF Existing, Seen, Typed
    <2> QED
      BY <1>1, <2>1, <2>2, Elsewhere DEF Kept
  <1>21. CASE \E l \in Label, to \in {"active", "disabled", "deleted"} : FindLabel(r, l, to)
    <2>0. PICK l \in Label, to \in {"active", "disabled", "deleted"} : FindLabel(r, l, to)
      BY <1>21
    <2>1. Only(r) /\ UNCHANGED <<rows, history>> /\ req'[r].owner = None
      BY <2>0, FindLabelDoes
    <2>2. req[r].pc = "idle"
      BY <2>0 DEF FindLabel, Begin
    <2>3. ~AtWork(r, o) /\ ~AtWork(r, o)'
      BY <2>1, <2>2, NoneIs DEF AtWork
    <2> QED
      BY <1>2, <2>1, <2>3 DEF rows, history
  <1>22. CASE CheckLabel(r)
    <2>1. Only(r) /\ UNCHANGED <<rows, history>>
      BY <1>22, CheckLabelDoes
    <2>2. ~AtWork(r, o) /\ ~AtWork(r, o)'
      BY <1>5, <1>22, CheckLabelDoes DEF AtWork
    <2> QED
      BY <1>2, <2>1, <2>2 DEF rows, history
  <1>23. CASE SaveLabel(r)
    <2>1. /\ Only(r) /\ ~AtWork(r, o) /\ ~AtWork(r, o)' /\ o \notin blurred
          /\ UNCHANGED <<category, marks, declared>>
      BY <1>5, <1>23, SaveLabelDoes DEF AtWork
    <2>2. Existing' = Existing
      BY <1>23, SaveLabelDoes DEF Existing, Typed
    <2> QED
      BY <1>1, <2>1, <2>2, Elsewhere DEF Kept
  <1>24. CASE RemoveLabel(r)
    <2> DEFINE x == req[r].label
    <2>1. /\ Only(r) /\ ~AtWork(r, o) /\ ~AtWork(r, o)' /\ o \notin blurred /\ declared' = declared
          /\ label' = [label EXCEPT ![x] = "deleted"] /\ x \in Label
          /\ category' = [p \in Product |-> IF category[p] = x THEN None ELSE category[p]]
          /\ marks' = [e \in Owner |-> marks[e] \ {x}]
      BY <1>5, <1>24, RemoveLabelDoes DEF AtWork, Cascade, history
    <2>2. Existing' = Existing \ {x}
      BY <2>1 DEF Existing, Typed
    <2>3. marks'[o] = marks[o] \ {x} /\ (o \in Product => category'[o] \in {category[o], None})
      BY <2>1
    <2> HIDE DEF x
    <2> QED
      BY <1>1, <2>1, <2>2, <2>3, Elsewhere DEF Kept
  <1>25. CASE Cut(r)
    <2>1. /\ Only(r) /\ req'[r] = Blank /\ UNCHANGED <<label, key, category, marks, declared>>
          /\ ~AtWork(r, o)' /\ o \notin blurred
      BY <1>5, <1>25, CutDoes DEF rows, AtWork
    <2>2. CASE AtWork(r, o)
      <3>1. req[r].pc = "save"
        BY <1>25, <2>2, CutDoes DEF AtWork
      <3>2. Doing(r, o) => Agrees(o)'
        BY <2>1, <3>1 DEF Doing, Agrees, Existing
      <3> QED
        BY <1>4, <2>1, <2>2, <3>2
    <2>3. CASE ~AtWork(r, o)
      BY <1>2, <2>1, <2>3
    <2> QED
      BY <2>2, <2>3
  <1> QED
    BY <1>0, <1>10, <1>11, <1>12, <1>13, <1>14, <1>15, <1>16, <1>17, <1>18,
       <1>19, <1>20, <1>21, <1>22, <1>23, <1>24, <1>25 DEF StepOf

-----------------------------------------------------------------------------
(* What the shop and the nightly job leave alone. *)

CatalogueInv == Typed /\ Numbered /\ Retired /\ Known /\ Kept

LEMMA CatalogueInvInit == Init => CatalogueInv
  BY TypedInit, NumberedInit, RetiredInit, KnownInit, KeptInit DEF CatalogueInv

LEMMA CatalogueInvFrame ==
  ASSUME CatalogueInv, UNCHANGED <<rows, req, history>>
  PROVE  CatalogueInv'
  <1>1. UNCHANGED <<label, key, category, marks, req, declared, blurred, crossed>>
    BY DEF rows, history
  <1>2. Typed'
    BY TypedFrame DEF CatalogueInv, history
  <1>3. New' = New /\ Old' = Old
    BY <1>1 DEF New, Products, Stored, Old
  <1>4. Numbered'
    BY <1>1, <1>3 DEF CatalogueInv, Numbered
  <1>5. /\ Products' = Products /\ Existing' = Existing /\ Seen' = Seen
        /\ \A p : LabelsOf(p)' = LabelsOf(p)
        /\ \A l : InUse(l)' <=> InUse(l)
    BY <1>1 DEF Products, Stored, Existing, Seen, LabelsOf, InUse
  <1>6. Retired'
    BY <1>1, <1>5 DEF CatalogueInv, Retired, Retiring
  <1>7. Known'
    BY <1>1, <1>5 DEF CatalogueInv, Known
  <1>8. \A o : Alone(o)' <=> Alone(o)
    BY <1>1, <1>5 DEF Alone, AtWork, Writing, Agrees, Doing
  <1>9. Kept'
    BY <1>1, <1>8 DEF CatalogueInv, Kept
  <1> QED
    BY <1>2, <1>4, <1>6, <1>7, <1>9 DEF CatalogueInv

\* A product that is stored stays.
LEMMA ProductsStay ==
  ASSUME Typed, Typed', CatalogueNext
  PROVE  Products \subseteq Products'
  <1>0. PICK r \in Request : StepOf(r)
    BY StepIsOfOne
  <1>1. CASE \E p \in Product : InsertProduct(r, p)
    <2>1. PICK p \in Product : InsertProduct(r, p)
      BY <1>1
    <2>2. ~Stored(p) /\ (key' = key \/ key' = [key EXCEPT ![p] = req[r].key])
      BY <2>1, InsertProductDoes DEF rows
    <2> QED
      BY <2>2 DEF Typed, Products, Stored
  <1>2. CASE ~\E p \in Product : InsertProduct(r, p)
    <2>1. key' = key
      BY <1>0, <1>2, OpenCreateFormDoes, OpenEditFormDoes, SubmitCreateDoes, SubmitEditDoes,
         AttachAllergensDoes, SaveProductDoes, SyncReadDoes, SyncWriteDoes, ExcludeAllergensDoes,
         InsertLabelDoes, FindLabelDoes, CheckLabelDoes, SaveLabelDoes, RemoveLabelDoes, CutDoes
      DEF StepOf, rows
    <2> QED
      BY <2>1 DEF Products, Stored
  <1> QED
    BY <1>1, <1>2

-----------------------------------------------------------------------------
(* The types of the recommendations. *)

Pages == [pc : {"idle", "rows", "compute", "done"}, excluded : SUBSET Allergen, shown : SUBSET Product]
Job == [pc : {"idle", "compute", "delete", "insert"}, todo : SUBSET User,
        excluded : [User -> SUBSET Allergen], user : User \union {None}, scored : SUBSET Product]
Steady == [excluded : SUBSET Allergen, any : BOOLEAN]
RTyped ==
  /\ bought \in [User -> SUBSET Product] /\ recommended \in [User -> SUBSET Product]
  /\ stocked \subseteq Products
  /\ job \in Job /\ (job.pc \in {"delete", "insert"} => job.user \in User) /\ job.scored \subseteq Products
  /\ view \in [User -> Pages]
  /\ \A u \in User : bought[u] \union recommended[u] \union view[u].shown \subseteq Products

\* The step of a page, of the job, or of the trade.
LEMMA RTypedKeeps ==
  ASSUME RTyped, Products \subseteq Products', UNCHANGED <<trade, recommended, nightly, pages>>
  PROVE  RTyped'
  <1>1. UNCHANGED <<bought, stocked, recommended, job, view>>
    BY DEF trade, nightly, pages
  <1> QED
    BY <1>1 DEF RTyped

LEMMA NoViewIs == NoView \in Pages /\ NoView.pc = "idle" /\ NoView.excluded = {} /\ NoView.shown = {}
  BY DEF NoView, Pages

LEMMA NoJobIs ==
  /\ NoJob \in Job /\ NoJob.pc = "idle" /\ NoJob.scored = {}
  <1>1. [u \in User |-> {}] \in [User -> SUBSET Allergen]
    OBVIOUS
  <1> QED
    BY <1>1 DEF NoJob, Job

\* What each action of a page does.
LEMMA ReadExcludedDoes ==
  ASSUME Typed, RTyped, NEW u \in User, ReadExcluded(u)
  PROVE  /\ view' \in [User -> Pages] /\ \A v \in User \ {u} : view'[v] = view[v]
         /\ view[u].pc \in {"idle", "done"}
         /\ view'[u].pc = "rows" /\ view'[u].excluded = marks[u] /\ view'[u].shown = {}
  <1> DEFINE q == [NoView EXCEPT !.pc = "rows", !.excluded = marks[u]]
  <1>1. view' = [view EXCEPT ![u] = q] /\ view[u].pc \in {"idle", "done"}
    BY DEF ReadExcluded
  <1>2. marks[u] \subseteq Allergen
    BY DEF Typed, Owner
  <1>3. q \in Pages /\ q.pc = "rows" /\ q.excluded = marks[u] /\ q.shown = {}
    BY <1>2, NoViewIs DEF Pages
  <1> HIDE DEF q
  <1> QED
    BY <1>1, <1>3 DEF RTyped

LEMMA ReadRowsDoes ==
  ASSUME RTyped, NEW u \in User, ReadRows(u)
  PROVE  /\ view' \in [User -> Pages] /\ \A v \in User \ {u} : view'[v] = view[v]
         /\ view[u].pc = "rows" /\ view'[u].excluded = view[u].excluded
         /\ view'[u].shown = Precomputed(u, view[u].excluded)
         /\ view'[u].pc = AfterRows(Precomputed(u, view[u].excluded))
         /\ Precomputed(u, view[u].excluded) \subseteq Products
  <1> DEFINE found == Precomputed(u, view[u].excluded)
  <1>1. /\ view[u].pc = "rows"
        /\ view' = [view EXCEPT ![u].pc = AfterRows(found), ![u].shown = found]
    BY DEF ReadRows
  <1>2. found \subseteq Products /\ Products \subseteq Product
    BY DEF RTyped, Precomputed, Products
  <1>3. AfterRows(found) \in {"compute", "done"}
    BY DEF AfterRows
  <1> HIDE DEF found
  <1>4. view \in [User -> Pages]
    BY DEF RTyped
  <1> QED
    BY <1>1, <1>2, <1>3, <1>4 DEF Pages, found

LEMMA ComputeLiveDoes ==
  ASSUME RTyped, NEW u \in User, ComputeLive(u)
  PROVE  /\ view' \in [User -> Pages] /\ \A v \in User \ {u} : view'[v] = view[v]
         /\ view[u].pc = "compute" /\ view'[u].excluded = view[u].excluded /\ view'[u].pc = "done"
         /\ view'[u].shown = Candidates(u, view[u].excluded)
         /\ Candidates(u, view[u].excluded) \subseteq Products
  <1> DEFINE found == Candidates(u, view[u].excluded)
  <1>1. view[u].pc = "compute" /\ view' = [view EXCEPT ![u].pc = "done", ![u].shown = found]
    BY DEF ComputeLive
  <1>2. found \subseteq Products /\ Products \subseteq Product
    BY DEF RTyped, Candidates, Products
  <1> HIDE DEF found
  <1>3. view \in [User -> Pages]
    BY DEF RTyped
  <1> QED
    BY <1>1, <1>2, <1>3 DEF Pages, found

LEMMA ViewTyped ==
  ASSUME Typed, RTyped, View
  PROVE  RTyped'
  <1>1. UNCHANGED <<rows, bought, stocked, recommended, job>>
    BY DEF View, ReadExcluded, ReadRows, ComputeLive, trade, nightly, catalogueVars
  <1>2. Products' = Products
    BY <1>1 DEF rows, Products, Stored
  <1>3. PICK u \in User : ReadExcluded(u) \/ ReadRows(u) \/ ComputeLive(u)
    BY DEF View
  <1>4. /\ view' \in [User -> Pages] /\ \A v \in User \ {u} : view'[v] = view[v]
        /\ view'[u].shown \subseteq Products
    BY <1>3, ReadExcludedDoes, ReadRowsDoes, ComputeLiveDoes
  <1> QED
    BY <1>1, <1>2, <1>4 DEF RTyped

LEMMA TradeTyped ==
  ASSUME RTyped, Trade
  PROVE  RTyped'
  <1>1. UNCHANGED <<rows, recommended, job, view>>
    BY DEF Trade, Restock, Buy, Trades, nightly, pages
  <1>2. Products' = Products /\ Products \subseteq Product
    BY <1>1 DEF rows, Products, Stored
  <1>3. CASE \E p \in Product : Restock(p)
    BY <1>1, <1>2, <1>3 DEF RTyped, Restock, Products
  <1>4. CASE \E u \in User, p \in Product, last \in BOOLEAN : Buy(u, p, last)
    <2>1. PICK u \in User, p \in Product, last \in BOOLEAN : Buy(u, p, last)
      BY <1>4
    <2>2. /\ p \in stocked /\ bought' = [bought EXCEPT ![u] = @ \union {p}]
          /\ stocked' \subseteq stocked
      BY <2>1 DEF Buy
    <2>3. /\ bought' \in [User -> SUBSET Product]
          /\ \A v \in User : bought'[v] \subseteq bought[v] \union {p}
      BY <2>2 DEF RTyped
    <2> QED
      BY <1>1, <1>2, <2>2, <2>3 DEF RTyped
  <1> QED
    BY <1>3, <1>4 DEF Trade

LEMMA RefreshTyped ==
  ASSUME Typed, RTyped, Refresh
  PROVE  RTyped'
  <1>1. UNCHANGED <<rows, bought, stocked, view>>
    BY DEF Refresh, StartRefresh, DeleteOld, InsertNew, CutRefresh, ComputeScores,
           trade, pages, catalogueVars
  <1>2. Products' = Products /\ Products \subseteq Product
    BY <1>1 DEF rows, Products, Stored
  <1>3. job \in Job /\ recommended \in [User -> SUBSET Product]
    BY DEF RTyped
  \* The rows and the job stay well-formed.
  <1>4. ASSUME job' \in Job, job'.pc \in {"delete", "insert"} => job'.user \in User,
               job'.scored \subseteq Products, recommended' \in [User -> SUBSET Product],
               \A u \in User : recommended'[u] \subseteq Products
        PROVE  RTyped'
    BY <1>1, <1>2, <1>4 DEF RTyped
  <1>5. CASE StartRefresh
    <2> DEFINE E == [u \in User |-> marks[u]]
               q == [NoJob EXCEPT !.pc = "compute", !.todo = User, !.excluded = E]
    <2>1. job' = q /\ recommended' = recommended
      BY <1>5 DEF StartRefresh
    <2>2. E \in [User -> SUBSET Allergen]
      BY DEF Typed, Owner
    <2> HIDE DEF E
    <2>3. q \in Job /\ q.pc = "compute" /\ q.scored = {}
      BY <2>2, NoJobIs DEF Job
    <2> QED
      BY <1>4, <2>1, <2>3 DEF RTyped
  <1>6. CASE \E u \in User : ComputeScores(u)
    <2>1. PICK u \in User : ComputeScores(u)
      BY <1>6
    <2> DEFINE S == Candidates(u, job.excluded[u])
    <2>2. /\ job' = [job EXCEPT !.pc = "delete", !.user = u, !.scored = S]
          /\ recommended' = recommended
      BY <2>1 DEF ComputeScores
    <2>3. S \subseteq Products
      BY DEF RTyped, Candidates
    <2> HIDE DEF S
    <2>4. job' \in Job /\ job'.user = u /\ job'.scored = S
      BY <1>2, <1>3, <2>2, <2>3 DEF Job
    <2> QED
      BY <1>4, <2>2, <2>3, <2>4 DEF RTyped
  <1>7. CASE DeleteOld
    <2>1. /\ job.pc = "delete" /\ job' = [job EXCEPT !.pc = "insert"]
          /\ recommended' = [recommended EXCEPT ![job.user] = {}]
      BY <1>7 DEF DeleteOld
    <2>2. job' \in Job /\ job'.user = job.user /\ job'.scored = job.scored
      BY <1>3, <2>1 DEF Job
    <2>3. job.user \in User /\ job.scored \subseteq Products
      BY <2>1 DEF RTyped
    <2>4. /\ recommended' \in [User -> SUBSET Product]
          /\ \A u \in User : recommended'[u] \subseteq Products
      BY <2>1 DEF RTyped
    <2> QED
      BY <1>4, <2>2, <2>3, <2>4
  <1>8. CASE InsertNew
    <2> DEFINE rest == job.todo \ {job.user}
               q == [job EXCEPT !.pc = "compute", !.todo = rest, !.user = None, !.scored = {}]
    <2>1. /\ job.pc = "insert" /\ job' = (IF rest = {} THEN NoJob ELSE q)
          /\ recommended' = [recommended EXCEPT ![job.user] = @ \union job.scored]
      BY <1>8 DEF InsertNew
    <2>2. q \in Job /\ q.pc = "compute" /\ q.scored = {}
      BY <1>3 DEF Job
    <2>3. job.user \in User /\ job.scored \subseteq Products
      BY <2>1 DEF RTyped
    <2>4. /\ recommended' \in [User -> SUBSET Product]
          /\ \A u \in User : recommended'[u] \subseteq Products
      BY <1>2, <1>3, <2>1, <2>3 DEF RTyped
    <2> HIDE DEF q, rest
    <2>5. job' \in Job /\ job'.pc \in {"idle", "compute"} /\ job'.scored = {}
      BY <2>1, <2>2, NoJobIs
    <2> QED
      BY <1>4, <2>4, <2>5
  <1>9. CASE CutRefresh
    <2>1. job' = NoJob /\ recommended' = recommended
      BY <1>9 DEF CutRefresh
    <2> QED
      BY <1>4, <2>1, NoJobIs DEF RTyped
  <1> QED
    BY <1>5, <1>6, <1>7, <1>8, <1>9 DEF Refresh

-----------------------------------------------------------------------------
(* Pages. *)

\* What a page goes by is no less than what its user excluded all the time,
\* and what can be recommended all the time can be recommended now.
Safe ==
  /\ steady \in [User -> Steady]
  /\ \A u \in User : Making(u) => /\ steady[u].excluded \subseteq view[u].excluded
                                  /\ steady[u].any => Available(u)

LEMMA WatchTyped ==
  ASSUME Typed', Safe, Watch
  PROVE  steady' \in [User -> Steady]
  <1> DEFINE W(u) == IF ~Making(u)' THEN [excluded |-> {}, any |-> FALSE]
                     ELSE IF ~Making(u) THEN [excluded |-> marks'[u], any |-> Available(u)']
                     ELSE [excluded |-> steady[u].excluded \intersect marks'[u],
                           any |-> steady[u].any /\ Available(u)']
  <1>1. steady' = [u \in User |-> W(u)]
    BY DEF Watch
  <1>2. ASSUME NEW u \in User PROVE W(u) \in Steady
    <2>1. marks'[u] \subseteq Allergen
      BY DEF Typed, Owner
    <2>2. Available(u)' \in BOOLEAN
      BY DEF Available
    <2>3. steady[u].any \in BOOLEAN
      BY DEF Safe, Steady
    <2>4. (steady[u].any /\ Available(u)') \in BOOLEAN
      BY <2>2, <2>3
    <2> QED
      BY <2>1, <2>2, <2>4 DEF Steady
  <1> HIDE DEF W
  <1> QED
    BY <1>1, <1>2

LEMMA SafeStep ==
  ASSUME Typed, Typed', RTyped, Safe, RecommendationsNext
  PROVE  Safe'
  <1>1. Watch
    BY DEF RecommendationsNext
  <1>2. steady' \in [User -> Steady]
    BY <1>1, WatchTyped
  <1>3. ASSUME NEW u \in User, Making(u)'
        PROVE  /\ steady'[u].excluded \subseteq view'[u].excluded
               /\ steady'[u].any => Available(u)'
    <2>1. CASE Making(u)
      <3>1. /\ steady'[u].excluded = steady[u].excluded \intersect marks'[u]
            /\ steady'[u].any = (steady[u].any /\ Available(u)')
        BY <1>1, <1>3, <2>1 DEF Watch
      <3>2. view'[u].excluded = view[u].excluded
        <4>1. view' = view \/ View
          BY DEF RecommendationsNext, Trade, Refresh, Restock, Buy, StartRefresh, DeleteOld,
                 InsertNew, CutRefresh, ComputeScores, pages
        <4>2. ASSUME NEW v \in User, ReadExcluded(v) \/ ReadRows(v) \/ ComputeLive(v)
              PROVE  view'[u].excluded = view[u].excluded
          <5>1. CASE ReadExcluded(v)
            <6>1. v # u /\ view'[u] = view[u]
              BY <2>1, <5>1, ReadExcludedDoes DEF Making
            <6> QED
              BY <6>1
          <5>2. CASE ReadRows(v)
            BY <5>2, ReadRowsDoes
          <5>3. CASE ComputeLive(v)
            BY <5>3, ComputeLiveDoes
          <5> QED
            BY <4>2, <5>1, <5>2, <5>3
        <4> QED
          BY <4>1, <4>2 DEF View
      <3> QED
        BY <2>1, <3>1, <3>2 DEF Safe
    <2>2. CASE ~Making(u)
      <3>1. /\ steady'[u].excluded = marks'[u]
            /\ steady'[u].any = Available(u)'
        BY <1>1, <1>3, <2>2 DEF Watch
      <3>2. View
        <4>1. view' # view
          BY <1>3, <2>2 DEF Making
        <4> QED
          BY <4>1 DEF RecommendationsNext, Trade, Refresh, Restock, Buy, StartRefresh, DeleteOld,
                      InsertNew, CutRefresh, ComputeScores, pages
      <3>3. PICK v \in User : ReadExcluded(v) \/ ReadRows(v) \/ ComputeLive(v)
        BY <3>2 DEF View
      <3>4. view'[u].excluded = marks[u]
        <4>1. CASE v = u
          BY <2>2, <3>3, <4>1, ReadExcludedDoes, ReadRowsDoes, ComputeLiveDoes DEF Making
        <4>2. CASE v # u
          <5>1. view'[u] = view[u]
            BY <3>3, <4>2, ReadExcludedDoes, ReadRowsDoes, ComputeLiveDoes
          <5> QED
            BY <1>3, <2>2, <5>1 DEF Making
        <4> QED
          BY <4>1, <4>2
      <3>5. marks' = marks
        BY <3>2 DEF View, ReadExcluded, ReadRows, ComputeLive, catalogueVars, rows
      <3> QED
        BY <3>1, <3>4, <3>5
    <2> QED
      BY <2>1, <2>2
  <1> QED
    BY <1>2, <1>3 DEF Safe

Inv == CatalogueInv /\ RTyped /\ Safe

LEMMA InvInit == RecommendationsInit => Inv
  <1> SUFFICES ASSUME RecommendationsInit PROVE Inv
    OBVIOUS
  <1>1. CatalogueInv /\ Init
    BY CatalogueInvInit DEF RecommendationsInit
  <1>2. Products = {p \in Product : StartKey[p] > 0}
    BY <1>1 DEF Init, Products, Stored
  <1>3. /\ bought \in [User -> SUBSET Product] /\ stocked \subseteq Products
        /\ \A u \in User : bought[u] \subseteq Products
    BY <1>2, RecommendationsAssumption DEF RecommendationsInit
  <1>4. /\ recommended \in [User -> SUBSET Product] /\ view \in [User -> Pages]
        /\ \A u \in User : recommended[u] = {} /\ view[u] = NoView
    BY NoViewIs DEF RecommendationsInit
  <1>5. job \in Job /\ job.pc = "idle" /\ job.scored = {}
    BY NoJobIs DEF RecommendationsInit
  <1>6. RTyped
    BY <1>3, <1>4, <1>5, NoViewIs DEF RTyped
  <1>7. steady \in [User -> Steady] /\ \A u \in User : ~Making(u)
    BY <1>4, NoViewIs DEF RecommendationsInit, Steady, Making
  <1>8. Safe
    BY <1>7 DEF Safe
  <1> QED
    BY <1>1, <1>6, <1>8 DEF Inv

LEMMA InvStep == Inv /\ [RecommendationsNext]_vars => Inv'
  <1> SUFFICES ASSUME Inv, [RecommendationsNext]_vars PROVE Inv'
    OBVIOUS
  <1>1. ASSUME CatalogueNext, UNCHANGED <<trade, recommended, nightly, pages>>
        PROVE  CatalogueInv' /\ RTyped'
    <2>1. CatalogueInv'
      BY <1>1, TypedStep, NumberedStep, RetiredStep, KnownStep, KeptStep DEF Inv, CatalogueInv
    <2>2. Products \subseteq Products'
      BY <1>1, <2>1, ProductsStay DEF Inv, CatalogueInv
    <2> QED
      BY <1>1, <2>1, <2>2, RTypedKeeps DEF Inv
  <1>2. ASSUME Trade \/ Refresh \/ View
        PROVE  CatalogueInv' /\ RTyped'
    <2>1. UNCHANGED <<rows, req, history>>
      BY <1>2 DEF Trade, Refresh, View, Restock, Buy, Trades, StartRefresh, DeleteOld, InsertNew,
                  CutRefresh, ComputeScores, ReadExcluded, ReadRows, ComputeLive, catalogueVars
    <2>2. CatalogueInv'
      BY <2>1, CatalogueInvFrame DEF Inv
    <2>3. RTyped'
      BY <1>2, TradeTyped, RefreshTyped, ViewTyped DEF Inv, CatalogueInv
    <2> QED
      BY <2>2, <2>3
  <1>3. CASE RecommendationsNext
    <2>1. CatalogueInv' /\ RTyped'
      BY <1>1, <1>2, <1>3 DEF RecommendationsNext
    <2>2. Safe'
      BY <1>3, <2>1, SafeStep DEF Inv, CatalogueInv
    <2> QED
      BY <2>1, <2>2 DEF Inv
  <1>4. CASE UNCHANGED vars
    <2>1. UNCHANGED <<rows, req, history, trade, recommended, nightly, pages, steady>>
      BY <1>4 DEF vars, catalogueVars
    <2>2. CatalogueInv'
      BY <2>1, CatalogueInvFrame DEF Inv
    <2>3. Products' = Products
      BY <2>1 DEF rows, Products, Stored
    <2>4. RTyped'
      BY <2>1, <2>3, RTypedKeeps DEF Inv
    <2>5. Safe'
      BY <2>1 DEF Inv, Safe, Making, Available, Candidates, rows, trade, pages
    <2> QED
      BY <2>2, <2>4, <2>5 DEF Inv
  <1> QED
    BY <1>3, <1>4

\* A page is shown by its rows or by the scores computed for it.
LEMMA ShowsIs ==
  ASSUME Inv, RecommendationsNext, NEW u \in User, Shows(u)
  PROVE  ReadRows(u) \/ ComputeLive(u)
  <1>1. View
    <2>1. view' # view
      BY DEF Shows
    <2> QED
      BY <2>1 DEF RecommendationsNext, Trade, Refresh, Restock, Buy, StartRefresh, DeleteOld,
                  InsertNew, CutRefresh, ComputeScores, pages
  <1>2. PICK v \in User : ReadExcluded(v) \/ ReadRows(v) \/ ComputeLive(v)
    BY <1>1 DEF View
  <1>3. v = u
    <2>1. \A x \in User : x # v => view'[x] = view[x]
      BY <1>2, ReadExcludedDoes, ReadRowsDoes, ComputeLiveDoes DEF Inv, CatalogueInv
    <2> QED
      BY <2>1 DEF Shows
  <1>4. ~ReadExcluded(u)
    BY ReadExcludedDoes DEF Inv, CatalogueInv, Shows
  <1> QED
    BY <1>2, <1>3, <1>4

\* The rows of products, labels and requests keep their types and their meaning, and
\* so do the recommendations.
THEOREM CatalogueKeepsItsInvariant == Spec => []Inv
  BY InvInit, InvStep, PTL DEF Spec

\* Rows refer to rows there are: no product or exclusion names a label that was
\* deleted, nor a recommendation or a delivery a product that is not there.
THEOREM CatalogueRefersToRows == Spec => []TypeOK
  <1>1. Inv => TypeOK
    <2> SUFFICES ASSUME Inv PROVE TypeOK
      OBVIOUS
    <2>1. CatalogueTypeOK
      BY DEF Inv, CatalogueInv, Typed, CatalogueTypeOK, Record
    <2> QED
      BY <2>1 DEF Inv, RTyped, TypeOK, Job, Pages
  <1> QED
    BY <1>1, CatalogueKeepsItsInvariant, PTL

\* The new products carry the next keypad numbers, each once, however many are created
\* at the same time (createProduct).
THEOREM KeypadRuns == Spec => []KeypadNumbersRun
  <1>1. Inv => KeypadNumbersRun
    BY DEF Inv, CatalogueInv, Numbered, Old, New, KeypadNumbersRun
  <1> QED
    BY <1>1, CatalogueKeepsItsInvariant, PTL

\* A label that was disabled or deleted is on no product, unless it met one while it
\* was being retired or an old form brought it back (CategoriesController,
\* AllergensController, ProductsController).
THEOREM LabelsAreRetiredUnused == Spec => []RetiredIsUnused
  <1>1. Inv => RetiredIsUnused
    BY DEF Inv, CatalogueInv, Retired, RetiredIsUnused
  <1> QED
    BY <1>1, CatalogueKeepsItsInvariant, PTL

\* Products and users carry the labels last given to them, unless two requests wrote at
\* once or one failed half way (updateProduct, updateExcludedAllergens).
THEOREM LabelsAreAsDeclared == Spec => []CarriesWhatWasDeclared
  <1>1. Inv => CarriesWhatWasDeclared
    BY DEF Inv, CatalogueInv, Kept, Alone, Agrees, CarriesWhatWasDeclared
  <1> QED
    BY <1>1, CatalogueKeepsItsInvariant, PTL

\* What is shown was filtered by stock and by what the user excluded all the time the
\* page was made (getRecommendedIds).
THEOREM ShownStaysSafe == Spec => ShownIsSafe
  <1>1. Inv /\ [RecommendationsNext]_vars
          => [\A u \in User : Shows(u) =>
                \A p \in view'[u].shown : p \in stocked /\ marks[p] \intersect steady[u].excluded = {}]_vars
    <2> SUFFICES ASSUME Inv, RecommendationsNext, NEW u \in User, Shows(u),
                        NEW p \in view'[u].shown
                 PROVE  p \in stocked /\ marks[p] \intersect steady[u].excluded = {}
      OBVIOUS
    <2>1. ReadRows(u) \/ ComputeLive(u)
      BY ShowsIs
    <2>2. view'[u].shown \in {Precomputed(u, view[u].excluded), Candidates(u, view[u].excluded)}
          /\ Making(u)
      BY <2>1, ReadRowsDoes, ComputeLiveDoes DEF Inv, Making
    <2>3. p \in stocked /\ marks[p] \intersect view[u].excluded = {}
      BY <2>2 DEF Precomputed, Candidates
    <2>4. steady[u].excluded \subseteq view[u].excluded
      BY <2>2 DEF Inv, Safe
    <2> QED
      BY <2>3, <2>4
  <1> QED
    BY <1>1, CatalogueKeepsItsInvariant, PTL DEF Spec, ShownIsSafe

\* With something to recommend all the time the page was made, something is shown
\* (getRecommendedIds, computeForUser), whatever the nightly job is about.
THEOREM SomethingIsShown == Spec => NothingOnlyWhenNothing
  <1>1. Inv /\ [RecommendationsNext]_vars
          => [\A u \in User : Shows(u) /\ steady[u].any => view'[u].shown # {}]_vars
    <2> SUFFICES ASSUME Inv, RecommendationsNext, NEW u \in User, Shows(u), steady[u].any
                 PROVE  view'[u].shown # {}
      OBVIOUS
    <2>1. CASE ReadRows(u)
      BY <2>1, ReadRowsDoes DEF Inv, Shows, AfterRows
    <2>2. CASE ComputeLive(u)
      <3>1. Available(u)
        BY <2>2, ComputeLiveDoes DEF Inv, Safe, Making
      <3> QED
        BY <2>2, <3>1, ComputeLiveDoes DEF Inv, Available
    <2> QED
      BY <2>1, <2>2, ShowsIs
  <1> QED
    BY <1>1, CatalogueKeepsItsInvariant, PTL DEF Spec, NothingOnlyWhenNothing
=============================================================================
