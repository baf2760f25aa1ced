---------------------------- MODULE KioskProofs ----------------------------
(* Kiosk: types, one awaited checkout, no second checkout after an answer  *)
(* with ok, and that the page fills a basket the way the server accepts.   *)
EXTENDS Kiosk, FiniteSetTheorems, SequenceTheorems, WellFoundedInduction, TLAPS

-----------------------------------------------------------------------------
(* Least and greatest elements. *)

LEMMA LeastExists ==
  ASSUME NEW S \in SUBSET Nat, S # {}
  PROVE  \E x \in S : \A y \in S : x <= y
  <1>1. \E x \in S : \A y \in S : ~ (<<y, x>> \in OpToRel(<, Nat))
    BY NatLessThanWellFounded, WFMin, Zenon
  <1>2. PICK x \in S : \A y \in S : ~ (<<y, x>> \in OpToRel(<, Nat))
    BY <1>1
  <1>3. ASSUME NEW y \in S PROVE x <= y
    <2>1. x \in Nat /\ y \in Nat
      OBVIOUS
    <2>2. ~ (y < x)
      BY <1>2, <2>1 DEF OpToRel
    <2> QED
      BY <2>1, <2>2
  <1> QED
    BY <1>3

LEMMA MinProperties ==
  ASSUME NEW S \in SUBSET Nat, S # {}
  PROVE  Min(S) \in S /\ \A y \in S : Min(S) <= y
  BY LeastExists DEF Min

LEMMA MaxProperties ==
  ASSUME NEW n \in Nat, NEW S \in SUBSET (1 .. n), S # {}
  PROVE  Max(S) \in S /\ \A y \in S : y <= Max(S)
  <1> DEFINE T == {n - x : x \in S}
  <1>1. T \in SUBSET Nat /\ T # {}
    <2>1. \A x \in S : n - x \in Nat
      OBVIOUS
    <2>2. PICK x \in S : TRUE
      OBVIOUS
    <2>3. n - x \in T
      OBVIOUS
    <2> QED
      BY <2>1, <2>3
  <1>2. PICK t \in T : \A u \in T : t <= u
    BY <1>1, LeastExists
  <1>3. PICK x \in S : t = n - x
    BY <1>2
  <1>4. ASSUME NEW y \in S PROVE x >= y
    <2>1. n - y \in T
      OBVIOUS
    <2>2. x \in Nat /\ y \in Nat
      OBVIOUS
    <2> QED
      BY <1>2, <1>3, <2>1, <2>2
  <1>5. \E z \in S : \A y \in S : z >= y
    BY <1>4
  <1>6. Max(S) \in S /\ \A y \in S : Max(S) >= y
    BY <1>5 DEF Max
  <1> QED
    BY <1>6

-----------------------------------------------------------------------------
(* The units of a basket. *)

\* A basket of lines with no lot twice, and no more units on a line than were
\* shown when it was added.
Basket(b) ==
  /\ b \in Seq(Line)
  /\ \A j, k \in DOMAIN b : b[j].lot = b[k].lot => j = k
  /\ \A k \in DOMAIN b : b[k].quantity <= b[k].maxStock

LEMMA LineTyped ==
  ASSUME NEW b \in Seq(Line), NEW k \in DOMAIN b
  PROVE  /\ b[k].lot \in Lot
         /\ b[k].quantity \in Nat /\ b[k].quantity > 0 /\ b[k].quantity <= MaxStock
         /\ b[k].maxStock \in Nat /\ b[k].maxStock > 0 /\ b[k].maxStock <= MaxStock
  <1>1. b[k] \in Line
    OBVIOUS
  <1> QED
    BY <1>1, KioskAssumption DEF Line, KioskAssumption

\* The units of a lot are those of its line.
LEMMA UnitsOfLine ==
  ASSUME NEW b, Basket(b), NEW k \in DOMAIN b
  PROVE  UnitsOf(b, b[k].lot) = b[k].quantity
  <1>1. LineOf(b, b[k].lot) = {k}
    BY DEF LineOf, Basket
  <1> QED
    BY <1>1 DEF UnitsOf

LEMMA UnitsOfNoLine ==
  ASSUME NEW b, NEW d, \A k \in DOMAIN b : b[k].lot # d
  PROVE  UnitsOf(b, d) = 0
  BY DEF UnitsOf, LineOf

LEMMA UnitsTyped ==
  ASSUME NEW b, Basket(b), NEW d \in Lot
  PROVE  /\ UnitsOf(b, d) \in Nat
         /\ UnitsOf(b, d) > 0 => \E k \in DOMAIN b : b[k].lot = d
  <1>1. CASE \E k \in DOMAIN b : b[k].lot = d
    <2>1. PICK k \in DOMAIN b : b[k].lot = d
      BY <1>1
    <2>2. b[k].quantity \in Nat
      BY LineTyped DEF Basket
    <2> QED
      BY <2>1, <2>2, UnitsOfLine
  <1>2. CASE \A k \in DOMAIN b : b[k].lot # d
    BY <1>2, UnitsOfNoLine
  <1> QED
    BY <1>1, <1>2

\* Two baskets that agree on the line of a lot have as many units of it.
LEMMA SameUnits ==
  ASSUME NEW b, Basket(b), NEW c, Basket(c), NEW d,
         \A k \in DOMAIN b : b[k].lot = d =>
           \E j \in DOMAIN c : c[j].lot = d /\ c[j].quantity = b[k].quantity,
         \A j \in DOMAIN c : c[j].lot = d => \E k \in DOMAIN b : b[k].lot = d
  PROVE  UnitsOf(b, d) = UnitsOf(c, d)
  <1>1. CASE \E k \in DOMAIN b : b[k].lot = d
    <2>1. PICK k \in DOMAIN b : b[k].lot = d
      BY <1>1
    <2>2. PICK j \in DOMAIN c : c[j].lot = d /\ c[j].quantity = b[k].quantity
      BY <2>1
    <2> QED
      BY <2>1, <2>2, UnitsOfLine
  <1>2. CASE \A k \in DOMAIN b : b[k].lot # d
    BY <1>2, UnitsOfNoLine
  <1> QED
    BY <1>1, <1>2

-----------------------------------------------------------------------------
(* One more unit, one unit less. *)

\* What is true of a basket that was filled while the page showed the stock s:
\* the lines of a product are in the order of their lots, and a lot is used
\* only when the older ones of its product are used up.
Filled(b, s) ==
  /\ \A k \in DOMAIN b : b[k].maxStock = s[b[k].lot]
  /\ \A j, k \in DOMAIN b :
       j < k /\ ProductOf[b[j].lot] = ProductOf[b[k].lot] => b[j].lot < b[k].lot
  /\ \A k \in DOMAIN b, e \in Lot :
       ProductOf[e] = ProductOf[b[k].lot] /\ e < b[k].lot => UnitsOf(b, e) = s[e]

LEMMA OpenLotsTyped ==
  ASSUME NEW p, OpenLots(p) # {}
  PROVE  /\ Min(OpenLots(p)) \in OpenLots(p)
         /\ \A d \in OpenLots(p) : Min(OpenLots(p)) <= d
  <1>1. OpenLots(p) \in SUBSET Nat
    BY KioskAssumption DEF OpenLots, KioskAssumption
  <1> QED
    BY <1>1, MinProperties

LEMMA AddedBasket ==
  ASSUME Basket(basket), shown \in Stock, NEW d \in Lot, shown[d] > UnitsOf(basket, d)
  PROVE  Basket(Added(d))
  <1>1. CASE LineOf(basket, d) = {}
    <2> DEFINE l == [lot |-> d, quantity |-> 1, maxStock |-> shown[d]]
    <2>1. shown[d] \in 1 .. MaxStock /\ 1 \in 1 .. MaxStock
      BY UnitsTyped, KioskAssumption DEF Stock, KioskAssumption
    <2>2. l \in Line
      BY <2>1 DEF Line
    <2>3. Added(d) = Append(basket, l)
      BY <1>1 DEF Added
    <2>4. basket \in Seq(Line) /\ \A k \in DOMAIN basket : basket[k].lot # d
      BY <1>1 DEF Basket, LineOf
    <2>5. /\ Append(basket, l) \in Seq(Line)
          /\ DOMAIN Append(basket, l) = 1 .. Len(basket) + 1
          /\ \A k \in DOMAIN basket : Append(basket, l)[k] = basket[k]
          /\ Append(basket, l)[Len(basket) + 1] = l
      BY <2>2, <2>4
    <2> HIDE DEF l
    <2>6. l.lot = d /\ l.quantity <= l.maxStock
      BY <2>1 DEF l
    <2>7. DOMAIN basket = 1 .. Len(basket) /\ Len(basket) \in Nat
      BY <2>4
    <2> QED
      BY <2>3, <2>4, <2>5, <2>6, <2>7 DEF Basket
  <1>2. CASE LineOf(basket, d) # {}
    <2>1. Added(d) = [k \in DOMAIN basket |->
            IF basket[k].lot = d /\ basket[k].quantity < basket[k].maxStock
              THEN [basket[k] EXCEPT !.quantity = @ + 1] ELSE basket[k]]
      BY <1>2 DEF Added
    <2>2. ASSUME NEW k \in DOMAIN basket
          PROVE  /\ Added(d)[k] \in Line
                 /\ Added(d)[k].lot = basket[k].lot
                 /\ Added(d)[k].quantity <= Added(d)[k].maxStock
      <3>1. /\ basket[k] \in Line /\ basket[k].quantity \in 1 .. MaxStock
            /\ basket[k].maxStock \in 1 .. MaxStock
            /\ basket[k].quantity <= basket[k].maxStock
        <4>1. basket \in Seq(Line) /\ basket[k].quantity <= basket[k].maxStock
          BY DEF Basket
        <4>2. basket[k] \in Line
          BY <4>1
        <4> QED
          BY <4>1, <4>2 DEF Line
      <3>2. CASE basket[k].lot = d /\ basket[k].quantity < basket[k].maxStock
        <4>1. Added(d)[k] = [basket[k] EXCEPT !.quantity = @ + 1]
          BY <2>1, <3>2
        <4>2. basket[k].quantity + 1 \in 1 .. MaxStock
          BY <3>1, <3>2, KioskAssumption DEF KioskAssumption
        <4> QED
          BY <3>1, <3>2, <4>1, <4>2 DEF Line
      <3>3. CASE ~ (basket[k].lot = d /\ basket[k].quantity < basket[k].maxStock)
        <4>1. Added(d)[k] = basket[k]
          BY <2>1, <3>3
        <4> QED
          BY <3>1, <4>1
      <3> QED
        BY <3>2, <3>3
    <2>3. basket \in Seq(Line)
      BY DEF Basket
    <2>4. DOMAIN Added(d) = DOMAIN basket
      BY <2>1
    <2>5. Added(d) \in Seq(Line)
      <3>1. DOMAIN basket = 1 .. Len(basket) /\ Len(basket) \in Nat
        BY <2>3
      <3>2. Added(d) \in [1 .. Len(basket) -> Line]
        BY <2>1, <2>2, <3>1
      <3> QED
        BY <3>1, <3>2
    <2> QED
      BY <2>2, <2>4, <2>5 DEF Basket
  <1> QED
    BY <1>1, <1>2

\* Adding a unit of lot d changes the units of no other lot; that of lot d
\* goes up if its line still shows what is left.
LEMMA AddedUnits ==
  ASSUME Basket(basket), shown \in Stock, NEW d \in Lot, shown[d] > UnitsOf(basket, d)
  PROVE  /\ \A e \in Lot \ {d} : UnitsOf(Added(d), e) = UnitsOf(basket, e)
         /\ \A k \in DOMAIN Added(d) :
              \/ k \in DOMAIN basket /\ Added(d)[k].lot = basket[k].lot
                                    /\ Added(d)[k].maxStock = basket[k].maxStock
              \/ /\ k = Len(basket) + 1
                 /\ Added(d)[k].lot = d /\ Added(d)[k].maxStock = shown[d]
                 /\ \A j \in DOMAIN basket : basket[j].lot # d
  <1>0. Basket(Added(d)) /\ basket \in Seq(Line)
    BY AddedBasket DEF Basket
  <1>1. CASE LineOf(basket, d) = {}
    <2> DEFINE l == [lot |-> d, quantity |-> 1, maxStock |-> shown[d]]
    <2>1. shown[d] \in 1 .. MaxStock /\ 1 \in 1 .. MaxStock
      BY UnitsTyped, KioskAssumption DEF Stock, KioskAssumption
    <2>2. l \in Line
      BY <2>1 DEF Line
    <2>3. Added(d) = Append(basket, l)
      BY <1>1 DEF Added
    <2>4. /\ DOMAIN Append(basket, l) = 1 .. Len(basket) + 1
          /\ \A k \in DOMAIN basket : Append(basket, l)[k] = basket[k]
          /\ Append(basket, l)[Len(basket) + 1] = l
      BY <1>0, <2>2
    <2>5. DOMAIN basket = 1 .. Len(basket) /\ Len(basket) \in Nat
      BY <1>0
    <2>6. l.lot = d /\ l.maxStock = shown[d]
      OBVIOUS
    <2> HIDE DEF l
    <2>7. \A k \in DOMAIN Added(d) : k \in DOMAIN basket \/ k = Len(basket) + 1
      BY <2>3, <2>4, <2>5
    <2>8. \A j \in DOMAIN basket : basket[j].lot # d
      BY <1>1 DEF LineOf
    <2>9. ASSUME NEW e \in Lot \ {d} PROVE UnitsOf(Added(d), e) = UnitsOf(basket, e)
      <3>1. ASSUME NEW k \in DOMAIN basket, basket[k].lot = e
            PROVE  \E j \in DOMAIN Added(d) :
                     Added(d)[j].lot = e /\ Added(d)[j].quantity = basket[k].quantity
        <4>1. k \in DOMAIN Added(d)
          BY <2>3, <2>4, <2>5
        <4> QED
          BY <2>3, <2>4, <3>1, <4>1
      <3>2. ASSUME NEW j \in DOMAIN Added(d), Added(d)[j].lot = e
            PROVE  \E k \in DOMAIN basket : basket[k].lot = e
        BY <2>3, <2>4, <2>6, <2>7, <3>2
      <3> QED
        BY <1>0, <3>1, <3>2, SameUnits
    <2> QED
      BY <2>3, <2>4, <2>6, <2>7, <2>8, <2>9
  <1>2. CASE LineOf(basket, d) # {}
    <2>1. Added(d) = [k \in DOMAIN basket |->
            IF basket[k].lot = d /\ basket[k].quantity < basket[k].maxStock
              THEN [basket[k] EXCEPT !.quantity = @ + 1] ELSE basket[k]]
      BY <1>2 DEF Added
    <2>2. DOMAIN Added(d) = DOMAIN basket
      BY <2>1
    <2>3. ASSUME NEW k \in DOMAIN basket
          PROVE  /\ Added(d)[k].lot = basket[k].lot
                 /\ Added(d)[k].maxStock = basket[k].maxStock
                 /\ basket[k].lot # d => Added(d)[k].quantity = basket[k].quantity
      <3>1. basket[k] \in Line
        BY <1>0
      <3> QED
        BY <2>1, <3>1 DEF Line
    <2>4. ASSUME NEW e \in Lot \ {d} PROVE UnitsOf(Added(d), e) = UnitsOf(basket, e)
      <3>1. \A k \in DOMAIN basket : basket[k].lot = e =>
              \E j \in DOMAIN Added(d) :
                Added(d)[j].lot = e /\ Added(d)[j].quantity = basket[k].quantity
        BY <2>2, <2>3
      <3>2. \A j \in DOMAIN Added(d) :
              Added(d)[j].lot = e => \E k \in DOMAIN basket : basket[k].lot = e
        BY <2>2, <2>3
      <3> QED
        BY <1>0, <3>1, <3>2, SameUnits
    <2> QED
      BY <2>2, <2>3, <2>4
  <1> QED
    BY <1>1, <1>2

\* Adding the oldest lot that is left keeps the basket filled.
LEMMA AddedFilled ==
  ASSUME Basket(basket), shown \in Stock, Filled(basket, shown),
         NEW p, OpenLots(p) # {}
  PROVE  Filled(Added(Min(OpenLots(p))), shown)
  <1> DEFINE d == Min(OpenLots(p))
             b == Added(d)
  <1>1. /\ d \in Lot /\ ProductOf[d] = p /\ shown[d] > UnitsOf(basket, d)
        /\ \A e \in Lot : ProductOf[e] = p /\ shown[e] > UnitsOf(basket, e) => d <= e
    BY OpenLotsTyped DEF OpenLots
  <1> HIDE DEF d
  <1>2. basket \in Seq(Line) /\ Basket(b)
    BY <1>1, AddedBasket DEF Basket
  <1>3. DOMAIN basket = 1 .. Len(basket) /\ Len(basket) \in Nat
    BY <1>2
  <1>4. /\ \A e \in Lot \ {d} : UnitsOf(b, e) = UnitsOf(basket, e)
        /\ \A k \in DOMAIN b :
              \/ k \in DOMAIN basket /\ b[k].lot = basket[k].lot
                                    /\ b[k].maxStock = basket[k].maxStock
              \/ /\ k = Len(basket) + 1
                 /\ b[k].lot = d /\ b[k].maxStock = shown[d]
                 /\ \A j \in DOMAIN basket : basket[j].lot # d
    BY <1>1, AddedUnits
  <1> HIDE DEF b
  <1>5. \A e \in Lot : e \in Nat /\ shown[e] \in Nat /\ UnitsOf(basket, e) \in Nat
    <2>1. ASSUME NEW e \in Lot PROVE e \in Nat /\ shown[e] \in Nat
      BY KioskAssumption DEF Stock, KioskAssumption
    <2>2. ASSUME NEW e \in Lot PROVE UnitsOf(basket, e) \in Nat
      BY UnitsTyped
    <2> QED
      BY <2>1, <2>2
  \* The basket has no younger lot of the product.
  <1>6. ASSUME NEW k \in DOMAIN basket, ProductOf[basket[k].lot] = p
        PROVE  basket[k].lot <= d
    <2>1. basket[k].lot \in Lot
      BY <1>2, LineTyped
    <2> QED
      BY <1>1, <1>5, <1>6, <2>1 DEF Filled
  \* Every older lot of the product is used up.
  <1>7. ASSUME NEW e \in Lot, ProductOf[e] = p, e < d
        PROVE  UnitsOf(basket, e) = shown[e]
    <2>1. ~ (shown[e] > UnitsOf(basket, e))
      BY <1>1, <1>5, <1>7
    <2>2. UnitsOf(basket, e) <= shown[e]
      <3>1. CASE \E k \in DOMAIN basket : basket[k].lot = e
        <4>1. PICK k \in DOMAIN basket : basket[k].lot = e
          BY <3>1
        <4> QED
          BY <4>1, UnitsOfLine DEF Basket, Filled
      <3>2. CASE \A k \in DOMAIN basket : basket[k].lot # e
        BY <1>5, <3>2, UnitsOfNoLine
      <3> QED
        BY <3>1, <3>2
    <2> QED
      BY <1>5, <2>1, <2>2
  <1>8. \A k \in DOMAIN b : b[k].maxStock = shown[b[k].lot]
    BY <1>4 DEF Filled
  <1>9. ASSUME NEW j \in DOMAIN b, NEW k \in DOMAIN b, j < k,
               ProductOf[b[j].lot] = ProductOf[b[k].lot]
        PROVE  b[j].lot < b[k].lot
    <2>1. CASE k \in DOMAIN basket /\ b[k].lot = basket[k].lot
      <3>1. j \in DOMAIN basket /\ b[j].lot = basket[j].lot
        BY <1>3, <1>4, <1>9, <2>1
      <3> QED
        BY <1>9, <2>1, <3>1 DEF Filled
    <2>2. CASE k = Len(basket) + 1 /\ b[k].lot = d /\ \A i \in DOMAIN basket : basket[i].lot # d
      <3>1. j \in DOMAIN basket /\ b[j].lot = basket[j].lot
        BY <1>3, <1>4, <1>9, <2>2
      <3>2. basket[j].lot \in Lot
        BY <1>2, <3>1, LineTyped
      <3> QED
        BY <1>1, <1>5, <1>6, <1>9, <2>2, <3>1, <3>2
    <2> QED
      BY <1>4, <2>1, <2>2
  <1>10. ASSUME NEW k \in DOMAIN b, NEW e \in Lot,
                ProductOf[e] = ProductOf[b[k].lot], e < b[k].lot
         PROVE  UnitsOf(b, e) = shown[e]
    <2>1. CASE k \in DOMAIN basket /\ b[k].lot = basket[k].lot
      <3>1. UnitsOf(basket, e) = shown[e]
        BY <1>10, <2>1 DEF Filled
      <3>2. e # d
        BY <1>1, <1>5, <3>1
      <3> QED
        BY <1>4, <3>1, <3>2
    <2>2. CASE b[k].lot = d
      <3>1. UnitsOf(basket, e) = shown[e]
        BY <1>1, <1>7, <1>10, <2>2
      <3>2. e # d
        BY <1>1, <1>5, <3>1
      <3> QED
        BY <1>4, <3>1, <3>2
    <2> QED
      BY <1>4, <2>1, <2>2
  <1>11. Filled(b, shown)
    BY <1>8, <1>9, <1>10 DEF Filled
  <1> QED
    BY <1>11 DEF b, d

\* Line k of b is the last one of its product.
LastOfProduct(b, k) ==
  \A j \in DOMAIN b : ProductOf[b[j].lot] = ProductOf[b[k].lot] => j <= k

\* c is b with fewer units on line k, or without it; f says where each line
\* of c comes from.
LEMMA Thinned ==
  ASSUME NEW b, Basket(b), NEW k \in DOMAIN b, NEW c \in Seq(Line),
         NEW f \in [DOMAIN c -> DOMAIN b],
         \A i, j \in DOMAIN c : i < j => f[i] < f[j],
         \A i \in DOMAIN c : c[i].lot = b[f[i]].lot,
         \A i \in DOMAIN c : c[i].maxStock = b[f[i]].maxStock,
         \A i \in DOMAIN c : c[i].quantity <= b[f[i]].quantity,
         \A i \in DOMAIN c : f[i] # k => c[i].quantity = b[f[i]].quantity,
         \A j \in DOMAIN b \ {k} : \E i \in DOMAIN c : f[i] = j
  PROVE  /\ Basket(c)
         /\ \A s : Filled(b, s) /\ LastOfProduct(b, k) => Filled(c, s)
  <1>1. /\ b \in Seq(Line) /\ c \in Seq(Line)
        /\ DOMAIN b \subseteq Nat /\ DOMAIN c \subseteq Nat
    BY DEF Basket
  <1>2. ASSUME NEW i \in DOMAIN c, NEW j \in DOMAIN c, c[i].lot = c[j].lot PROVE i = j
    <2>1. f[i] = f[j]
      BY <1>2 DEF Basket
    <2>2. i \in Nat /\ j \in Nat /\ f[i] \in Nat
      BY <1>1
    <2> QED
      BY <2>1, <2>2
  <1>3. ASSUME NEW i \in DOMAIN c PROVE c[i].quantity <= c[i].maxStock
    <2>1. /\ c[i].quantity \in Nat /\ b[f[i]].quantity \in Nat /\ b[f[i]].maxStock \in Nat
      BY <1>1, LineTyped
    <2>2. b[f[i]].quantity <= b[f[i]].maxStock
      BY DEF Basket
    <2> QED
      BY <2>1, <2>2
  <1>4. Basket(c)
    BY <1>2, <1>3 DEF Basket
  <1>5. ASSUME NEW e, e # b[k].lot PROVE UnitsOf(c, e) = UnitsOf(b, e)
    <2>1. ASSUME NEW j \in DOMAIN b, b[j].lot = e
          PROVE  \E i \in DOMAIN c : c[i].lot = e /\ c[i].quantity = b[j].quantity
      <3>1. j # k
        BY <1>5, <2>1
      <3> QED
        BY <2>1, <3>1
    <2>2. \A i \in DOMAIN c : c[i].lot = e => \E j \in DOMAIN b : b[j].lot = e
      OBVIOUS
    <2> QED
      BY <1>4, <2>1, <2>2, SameUnits
  <1>6. ASSUME NEW s, Filled(b, s), LastOfProduct(b, k)
        PROVE  Filled(c, s)
    <2>1. \A i \in DOMAIN c : c[i].maxStock = s[c[i].lot]
      BY <1>6 DEF Filled
    <2>2. \A i, j \in DOMAIN c :
            i < j /\ ProductOf[c[i].lot] = ProductOf[c[j].lot] => c[i].lot < c[j].lot
      BY <1>6 DEF Filled
    <2>3. ASSUME NEW i \in DOMAIN c, NEW e \in Lot,
                 ProductOf[e] = ProductOf[c[i].lot], e < c[i].lot
          PROVE  UnitsOf(c, e) = s[e]
      <3>1. UnitsOf(b, e) = s[e]
        BY <1>6, <2>3 DEF Filled
      <3>2. e # b[k].lot
        <4>1. SUFFICES ASSUME e = b[k].lot PROVE FALSE
          OBVIOUS
        <4>2. f[i] <= k
          BY <1>6, <2>3, <4>1 DEF LastOfProduct
        <4>3. f[i] = k \/ f[i] < k
          BY <1>1, <4>2
        <4>4. c[i].lot \in Nat /\ e \in Nat
          BY LineTyped, KioskAssumption DEF KioskAssumption
        <4>5. c[i].lot < e \/ c[i].lot = e
          BY <1>6, <2>3, <4>1, <4>3 DEF Filled
        <4> QED
          BY <2>3, <4>4, <4>5
      <3> QED
        BY <1>5, <3>1, <3>2
    <2> QED
      BY <2>1, <2>2, <2>3 DEF Filled
  <1> QED
    BY <1>4, <1>6

LEMMA RemoveAtProperties ==
  ASSUME NEW S, NEW b \in Seq(S), NEW k \in 1 .. Len(b)
  PROVE  /\ RemoveAt(b, k) \in Seq(S)
         /\ Len(RemoveAt(b, k)) = Len(b) - 1
         /\ \A i \in 1 .. Len(b) - 1 :
              RemoveAt(b, k)[i] = IF i < k THEN b[i] ELSE b[i + 1]
  <1> DEFINE a == SubSeq(b, 1, k - 1)
             z == SubSeq(b, k + 1, Len(b))
  <1>1. Len(b) \in Nat /\ \A i \in 1 .. Len(b) : b[i] \in S
    OBVIOUS
  <1>2. /\ a \in Seq(S) /\ Len(a) = k - 1
        /\ \A i \in 1 .. k - 1 : a[i] = b[i]
    BY <1>1
  <1>3. /\ z \in Seq(S)
        /\ Len(z) = IF k + 1 <= Len(b) THEN Len(b) - (k + 1) + 1 ELSE 0
        /\ \A i \in 1 .. Len(b) - (k + 1) + 1 : z[i] = b[k + 1 + i - 1]
    <2>1. k + 1 \in Int /\ Len(b) \in Int /\ \A i \in k + 1 .. Len(b) : b[i] \in S
      BY <1>1
    <2> QED
      BY <2>1, SubSeqProperties
  <1>4. RemoveAt(b, k) = a \o z
    BY DEF RemoveAt
  <1> HIDE DEF a, z
  <1>5. Len(z) = Len(b) - k
    BY <1>1, <1>3
  <1>6. /\ a \o z \in Seq(S) /\ Len(a \o z) = Len(a) + Len(z)
        /\ \A i \in 1 .. Len(a) + Len(z) :
             (a \o z)[i] = IF i <= Len(a) THEN a[i] ELSE z[i - Len(a)]
    BY <1>2, <1>3, ConcatProperties
  <1>7. Len(a) + Len(z) = Len(b) - 1
    BY <1>1, <1>2, <1>5
  <1>8. ASSUME NEW i \in 1 .. Len(b) - 1
        PROVE  (a \o z)[i] = IF i < k THEN b[i] ELSE b[i + 1]
    <2>1. CASE i < k
      <3>1. i \in 1 .. k - 1 /\ i <= Len(a)
        BY <1>2, <2>1
      <3> QED
        BY <1>2, <1>6, <1>7, <2>1, <3>1
    <2>2. CASE i >= k
      <3>1. /\ ~ (i <= Len(a)) /\ ~ (i < k)
            /\ i - Len(a) \in 1 .. Len(b) - (k + 1) + 1
            /\ k + 1 + (i - Len(a)) - 1 = i + 1
        BY <1>1, <1>2, <2>2
      <3>2. (a \o z)[i] = z[i - Len(a)]
        BY <1>6, <1>7, <3>1
      <3>3. z[i - Len(a)] = b[k + 1 + (i - Len(a)) - 1]
        BY <1>3, <3>1
      <3> QED
        BY <3>1, <3>2, <3>3
    <2>3. i < k \/ i >= k
      <3>1. i \in Int /\ k \in Int
        BY <1>1
      <3> QED
        BY <3>1
    <2> QED
      BY <2>1, <2>2, <2>3, Zenon
  <1> QED
    BY <1>4, <1>6, <1>7, <1>8

\* Taking a unit from the last line of a product keeps the basket a basket,
\* and filled.
LEMMA RemovedBasket ==
  ASSUME Basket(basket), NEW p, \E j \in DOMAIN basket : ProductOf[basket[j].lot] = p
  PROVE  /\ Basket(Removed(p))
         /\ \A s : Filled(basket, s) => Filled(Removed(p), s)
  <1> DEFINE K == {j \in DOMAIN basket : ProductOf[basket[j].lot] = p}
             k == LastLine(K)
             c == Removed(p)
  <1>1. basket \in Seq(Line)
    BY DEF Basket
  <1>2. DOMAIN basket = 1 .. Len(basket) /\ Len(basket) \in Nat
    BY <1>1
  <1>3. k \in K /\ \A j \in K : j <= k
    <2>1. K \in SUBSET (1 .. Len(basket)) /\ K # {}
      BY <1>2
    <2> HIDE DEF K
    <2> QED
      BY <1>2, <2>1, MaxProperties DEF LastLine
  <1>4. k \in DOMAIN basket /\ ProductOf[basket[k].lot] = p
    BY <1>3
  <1>5. LastOfProduct(basket, k)
    BY <1>3, <1>4 DEF LastOfProduct
  <1>6. c = IF basket[k].quantity > 1 THEN [basket EXCEPT ![k].quantity = @ - 1]
            ELSE RemoveAt(basket, k)
    BY DEF Removed
  <1> HIDE DEF k, c, K
  <1>7. CASE basket[k].quantity > 1
    <2>1. c = [basket EXCEPT ![k] = [basket[k] EXCEPT !.quantity = basket[k].quantity - 1]]
      BY <1>6, <1>7
    <2>2. basket[k] \in Line /\ basket[k].quantity \in 1 .. MaxStock
      <3>1. basket[k] \in Line
        BY <1>1, <1>4
      <3> QED
        BY <3>1 DEF Line
    <2>3. basket[k].quantity - 1 \in 1 .. MaxStock
      BY <1>7, <2>2, KioskAssumption DEF KioskAssumption
    <2> DEFINE l == [basket[k] EXCEPT !.quantity = basket[k].quantity - 1]
    <2>4. /\ l \in Line /\ l.lot = basket[k].lot /\ l.maxStock = basket[k].maxStock
          /\ l.quantity = basket[k].quantity - 1
      BY <2>2, <2>3 DEF Line
    <2>5. c = [basket EXCEPT ![k] = l]
      BY <2>1
    <2> HIDE DEF l
    <2>6. c \in Seq(Line) /\ DOMAIN c = DOMAIN basket
      BY <1>1, <1>4, <2>4, <2>5
    <2>7. c[k] = l /\ \A j \in DOMAIN basket \ {k} : c[j] = basket[j]
      BY <1>4, <2>5
    <2> DEFINE f == [j \in DOMAIN c |-> j]
    <2>8. \A j \in DOMAIN basket : basket[j].quantity \in Nat
      BY <1>1, LineTyped
    <2>9. f \in [DOMAIN c -> DOMAIN basket]
      BY <2>6
    <2>10. \A i, j \in DOMAIN c : i < j => f[i] < f[j]
      BY <2>6
    <2>11. \A i \in DOMAIN c : c[i].lot = basket[f[i]].lot
      BY <1>4, <2>4, <2>6, <2>7
    <2>12. \A i \in DOMAIN c : c[i].maxStock = basket[f[i]].maxStock
      BY <1>4, <2>4, <2>6, <2>7
    <2>13. \A i \in DOMAIN c : c[i].quantity <= basket[f[i]].quantity
      BY <1>4, <2>4, <2>6, <2>7, <2>8
    <2>14. \A i \in DOMAIN c : f[i] # k => c[i].quantity = basket[f[i]].quantity
      BY <2>6, <2>7
    <2>15. \A j \in DOMAIN basket \ {k} : \E i \in DOMAIN c : f[i] = j
      BY <2>6
    <2>16. c \in Seq(Line)
      BY <2>6
    <2> HIDE DEF f
    <2>17. Basket(c) /\ \A s : Filled(basket, s) /\ LastOfProduct(basket, k) => Filled(c, s)
      BY <1>4, <2>9, <2>10, <2>11, <2>12, <2>13, <2>14, <2>15, <2>16, Thinned, Zenon
    <2> QED
      BY <1>5, <2>17 DEF c
  <1>8. CASE ~ (basket[k].quantity > 1)
    <2>1. c = RemoveAt(basket, k)
      BY <1>6, <1>8
    <2> DEFINE f == [i \in 1 .. Len(basket) - 1 |-> IF i < k THEN i ELSE i + 1]
    <2>2. /\ c \in Seq(Line) /\ DOMAIN c = 1 .. Len(basket) - 1
          /\ \A i \in 1 .. Len(basket) - 1 : c[i] = basket[f[i]]
      <3>1. k \in 1 .. Len(basket)
        BY <1>2, <1>4
      <3>2. /\ c \in Seq(Line) /\ Len(c) = Len(basket) - 1
            /\ \A i \in 1 .. Len(basket) - 1 : c[i] = IF i < k THEN basket[i] ELSE basket[i + 1]
        BY <1>1, <2>1, <3>1, RemoveAtProperties
      <3>3. \A i \in 1 .. Len(basket) - 1 : f[i] = IF i < k THEN i ELSE i + 1
        OBVIOUS
      <3> HIDE DEF f
      <3> QED
        BY <1>2, <3>2, <3>3
    <2>3. f \in [DOMAIN c -> DOMAIN basket]
      BY <1>2, <1>4, <2>2
    <2>4. \A i, j \in DOMAIN c : i < j => f[i] < f[j]
      BY <1>2, <1>4, <2>2
    <2>5. ASSUME NEW j \in DOMAIN basket \ {k} PROVE \E i \in DOMAIN c : f[i] = j
      <3>0. j \in 1 .. Len(basket) /\ k \in 1 .. Len(basket) /\ j # k
        BY <1>2, <1>4
      <3>1. CASE j < k
        <4>1. j \in DOMAIN c /\ f[j] = j
          BY <1>2, <3>0, <2>2, <3>1
        <4> QED
          BY <4>1
      <3>2. CASE j > k
        <4>1. j - 1 \in DOMAIN c /\ f[j - 1] = j
          BY <1>2, <3>0, <2>2, <3>2
        <4> QED
          BY <4>1
      <3>3. Len(basket) \in Nat /\ (j < k \/ j > k)
        BY <1>2, <3>0
      <3> HIDE DEF f
      <3> QED
        BY <3>1, <3>2, <3>3
    <2> HIDE DEF f
    <2>6. \A j \in DOMAIN basket : basket[j].quantity \in Nat
      BY <1>1, LineTyped
    <2>7. \A i \in DOMAIN c : c[i].lot = basket[f[i]].lot
      BY <2>2
    <2>8. \A i \in DOMAIN c : c[i].maxStock = basket[f[i]].maxStock
      BY <2>2
    <2>9. \A i \in DOMAIN c : c[i].quantity <= basket[f[i]].quantity
      BY <2>2, <2>3, <2>6
    <2>10. \A i \in DOMAIN c : f[i] # k => c[i].quantity = basket[f[i]].quantity
      BY <2>2
    <2>11. c \in Seq(Line)
      BY <2>2
    <2>12. Basket(c) /\ \A s : Filled(basket, s) /\ LastOfProduct(basket, k) => Filled(c, s)
      BY <1>4, <2>3, <2>4, <2>5, <2>7, <2>8, <2>9, <2>10, <2>11, Thinned, Zenon
    <2> QED
      BY <1>5, <2>12 DEF c
  <1> QED
    BY <1>7, <1>8

-----------------------------------------------------------------------------
(* The steps. *)

LEMMA NextSteps ==
  Next => \/ \E p \in Products : addToBasket(p) \/ decrementProduct(p)
          \/ \E c \in Customer : onKeypadSubmit(c) \/ Identified(c) \/ NotIdentified(c)
          \/ resetToIdle
          \/ \E s \in {"none", "checkout", "cancel"} :
               /\ dialog' = s
               /\ customer # Nobody \/ s = "none"
               /\ s = "checkout" => ~thanks /\ ~loading
               /\ UNCHANGED <<left, sold, customer, basket, shown, loading, thanks,
                              requests, history>>
          \/ submitBasket
          \/ \E q \in checkouts :
               \/ Sell(q) \/ Refuse(q) \/ Fail(q)
               \/ AnswerOk(q) \/ AnswerNotOk(q) \/ AnswerLost(q)
          \/ ReadProducts \/ ShowProducts
          \/ \E d \in Lot, n \in 0 .. MaxStock : Elsewhere(d, n)
  <1>1. IdleTimeout \/ ThankYouClosed \/ AcceptCancel => resetToIdle
    BY DEF IdleTimeout, ThankYouClosed, AcceptCancel
  <1>2. requestCancel \/ RejectDialog \/ requestCheckout =>
          \/ resetToIdle
          \/ \E s \in {"none", "checkout", "cancel"} :
               /\ dialog' = s
               /\ customer # Nobody \/ s = "none"
               /\ s = "checkout" => ~thanks /\ ~loading
               /\ UNCHANGED <<left, sold, customer, basket, shown, loading, thanks,
                              requests, history>>
    BY DEF requestCancel, RejectDialog, requestCheckout, Touchable
  <1> QED
    BY <1>1, <1>2 DEF Next

-----------------------------------------------------------------------------
(* The invariant. *)

\* Nobody stands at an idle page, and there is nothing on it.
Idle ==
  /\ customer = Nobody => basket = <<>> /\ dialog = "none"
  /\ customer # Nobody => session > 0

\* The page waits for at most one checkout, with loading set and the
\* confirmation closed; what is judged goes back to it.
OneWaits(C, l) ==
  /\ l <=> \E q \in C : q.waiting
  /\ \A q, r \in C : q.waiting /\ r.waiting => q = r
  /\ \A q \in C : q.verdict # "sent" => q.waiting

Waiting ==
  /\ OneWaits(checkouts, loading)
  /\ loading => dialog # "checkout"
  /\ \A q \in checkouts : q.session \in 1 .. session

\* Whoever was told ok sees the thank-you modal until the page resets.
Thanked ==
  customer # Nobody /\ session \in told => thanks /\ dialog # "checkout"

\* In a steady session the page shows what is left, and so does the basket.
SteadyFilled ==
  steady /\ customer # Nobody => shown = left /\ Filled(basket, shown)

\* What was sent in a steady session is what the server accepts.
SureAccepted == \A q \in checkouts : q.sure => Accepted(q.items)

Inv ==
  /\ TypeOK
  /\ Basket(basket)
  /\ Idle
  /\ Waiting
  /\ Thanked
  /\ SteadyFilled
  /\ SureAccepted

-----------------------------------------------------------------------------
(* The basket and what it shows. *)

LEMMA BasketNext ==
  ASSUME Inv, Next
  PROVE  Basket(basket')
  <1>1. Basket(basket) /\ shown \in Stock
    BY DEF Inv, TypeOK
  <1>2. CASE \E p \in Products : addToBasket(p)
    <2>1. PICK p \in Products : addToBasket(p)
      BY <1>2
    <2>2. /\ Min(OpenLots(p)) \in OpenLots(p)
          /\ basket' = Added(Min(OpenLots(p)))
      BY <2>1, OpenLotsTyped DEF addToBasket
    <2>3. Min(OpenLots(p)) \in Lot /\ shown[Min(OpenLots(p))] > UnitsOf(basket, Min(OpenLots(p)))
      BY <2>2 DEF OpenLots
    <2> QED
      BY <1>1, <2>2, <2>3, AddedBasket
  <1>3. CASE \E p \in Products : decrementProduct(p)
    BY <1>1, <1>3, RemovedBasket DEF decrementProduct
  <1>4. CASE resetToIdle
    BY <1>4 DEF resetToIdle, Basket
  <1>5. CASE UNCHANGED basket
    BY <1>1, <1>5
  <1>6. \/ \E p \in Products : addToBasket(p) \/ decrementProduct(p)
        \/ resetToIdle
        \/ UNCHANGED basket
    BY NextSteps DEF onKeypadSubmit, Identified, NotIdentified, submitBasket, Sell,
         Refuse, Fail, AnswerOk, AnswerNotOk, AnswerLost, ReadProducts, ShowProducts,
         Elsewhere, page
  <1> QED
    BY <1>2, <1>3, <1>4, <1>5, <1>6

LEMMA SteadyNext ==
  ASSUME Inv, Next
  PROVE  SteadyFilled'
  <1>1. Basket(basket) /\ shown \in Stock /\ Idle /\ SteadyFilled
    BY DEF Inv, TypeOK
  <1> SUFFICES ASSUME steady', customer' # Nobody
               PROVE  shown' = left' /\ Filled(basket', shown')
    BY DEF SteadyFilled
  <1>2. CASE \E p \in Products : addToBasket(p)
    <2>1. PICK p \in Products : addToBasket(p)
      BY <1>2
    <2>2. /\ OpenLots(p) # {} /\ basket' = Added(Min(OpenLots(p)))
          /\ UNCHANGED <<left, customer, shown, steady>>
      BY <2>1 DEF addToBasket, history
    <2>3. shown = left /\ Filled(basket, shown)
      BY <1>1, <2>2 DEF SteadyFilled
    <2> QED
      BY <1>1, <2>2, <2>3, AddedFilled
  <1>3. CASE \E p \in Products : decrementProduct(p)
    <2>1. PICK p \in Products : decrementProduct(p)
      BY <1>3
    <2>2. /\ \E k \in DOMAIN basket : ProductOf[basket[k].lot] = p
          /\ basket' = Removed(p)
          /\ UNCHANGED <<left, customer, shown, steady>>
      BY <2>1 DEF decrementProduct, history
    <2>3. shown = left /\ Filled(basket, shown)
      BY <1>1, <2>2 DEF SteadyFilled
    <2> QED
      BY <1>1, <2>2, <2>3, RemovedBasket
  <1>4. CASE \E c \in Customer : Identified(c)
    <2>1. CASE customer = Nobody
      <3>1. basket = <<>> /\ shown = left /\ UNCHANGED <<left, shown, basket>>
        BY <1>1, <1>4, <2>1 DEF Identified, Idle
      <3> QED
        BY <3>1 DEF Filled
    <2>2. CASE customer # Nobody
      BY <1>1, <1>4, <2>2 DEF Identified, SteadyFilled
    <2> QED
      BY <2>1, <2>2
  <1>5. CASE ShowProducts
    <2>1. shown' = shown /\ steady /\ UNCHANGED <<left, customer, basket>>
      BY <1>5 DEF ShowProducts
    <2> QED
      BY <1>1, <2>1 DEF SteadyFilled
  <1>6. CASE UNCHANGED <<left, customer, basket, shown, steady>>
    BY <1>1, <1>6 DEF SteadyFilled
  <1>7. \/ \E p \in Products : addToBasket(p) \/ decrementProduct(p)
        \/ \E c \in Customer : Identified(c)
        \/ ShowProducts
        \/ UNCHANGED <<left, customer, basket, shown, steady>>
    BY NextSteps DEF onKeypadSubmit, NotIdentified, resetToIdle, submitBasket, Sell,
         Refuse, Fail, AnswerOk, AnswerNotOk, AnswerLost, ReadProducts, Elsewhere,
         page, history
  <1> QED
    BY <1>2, <1>3, <1>4, <1>5, <1>6, <1>7

-----------------------------------------------------------------------------
(* Checkouts. *)

\* The server accepts a basket that was filled from what is left.
LEMMA FilledAccepted ==
  ASSUME Basket(basket), shown \in Stock, Filled(basket, shown), shown = left
  PROVE  Accepted([d \in Lot |-> UnitsOf(basket, d)])
  <1> DEFINE items == [d \in Lot |-> UnitsOf(basket, d)]
  <1>1. \A d \in Lot : items[d] = UnitsOf(basket, d)
    OBVIOUS
  <1> HIDE DEF items
  <1>2. ASSUME NEW d \in Lot PROVE items[d] <= left[d]
    <2>1. CASE \E k \in DOMAIN basket : basket[k].lot = d
      BY <1>1, <2>1, UnitsOfLine DEF Basket, Filled
    <2>2. CASE \A k \in DOMAIN basket : basket[k].lot # d
      <3>1. items[d] = 0 /\ left[d] \in 0 .. MaxStock
        BY <1>1, <2>2, UnitsOfNoLine DEF Stock
      <3> QED
        BY <3>1
    <2> QED
      BY <2>1, <2>2
  <1>3. ASSUME NEW d \in Lot, NEW e \in Lot,
               ProductOf[d] = ProductOf[e], e < d, items[d] > 0
        PROVE  items[e] = left[e]
    <2>1. PICK k \in DOMAIN basket : basket[k].lot = d
      BY <1>1, <1>3, UnitsTyped
    <2> QED
      BY <1>1, <1>3, <2>1 DEF Filled
  <1>4. Accepted(items)
    BY <1>2, <1>3 DEF Accepted
  <1> QED
    BY <1>4 DEF items

\* Where the checkouts of the next state come from: all but a new one have the
\* items and the session of an earlier one, and are no surer; after a change
\* of the shelf none is sure.
LEMMA CheckoutNext ==
  ASSUME Inv, Next
  PROVE  \A r \in checkouts' :
           \/ /\ submitBasket
              /\ r = [session |-> session, items |-> [d \in Lot |-> UnitsOf(basket, d)],
                      verdict |-> "sent", waiting |-> TRUE, sure |-> steady]
           \/ \E q \in checkouts :
                /\ r.session = q.session /\ r.items = q.items
                /\ r.sure => q.sure /\ left' = left
                /\ r.waiting \in BOOLEAN /\ r.sure \in BOOLEAN /\ r.verdict \in Verdict
                /\ r \in Checkout
  <1>1. \A q \in checkouts : q \in Checkout
    BY DEF Inv, TypeOK
  <1>2. ASSUME NEW S, NEW r \in Unsure(S), \A q \in S : q \in Checkout
        PROVE  \E q \in S : /\ r.session = q.session /\ r.items = q.items
                            /\ ~r.sure /\ r.waiting = q.waiting /\ r.verdict = q.verdict
                            /\ r \in Checkout
    BY <1>2 DEF Unsure, Checkout
  <1>3. ASSUME NEW q \in checkouts, NEW v \in Verdict, NEW r \in Judged(q, v)
        PROVE  /\ r.session = q.session /\ r.items = q.items
               /\ r.sure = q.sure /\ r.waiting /\ r.verdict = v
               /\ r \in Checkout
    BY <1>1, <1>3 DEF Judged, Checkout
  <1>4. CASE \E q \in checkouts : Sell(q)
    <2>1. PICK q \in checkouts : Sell(q)
      BY <1>4
    <2> DEFINE S == (checkouts \ {q}) \union Judged(q, "ok")
    <2>2. \A r \in S : r \in Checkout
      BY <1>1, <1>3 DEF Verdict
    <2>3. checkouts' = Unsure(S)
      BY <2>1 DEF Sell
    <2>4. \A r \in S : \E p \in checkouts : r.session = p.session /\ r.items = p.items
      BY <1>3 DEF Verdict
    <2> HIDE DEF S
    <2> QED
      BY <1>2, <2>2, <2>3, <2>4 DEF Checkout
  <1>5. CASE \E d \in Lot, n \in 0 .. MaxStock : Elsewhere(d, n)
    <2>1. checkouts' = Unsure(checkouts)
      BY <1>5 DEF Elsewhere
    <2> QED
      BY <1>1, <1>2, <2>1 DEF Checkout
  <1>6. CASE \E q \in checkouts : Refuse(q) \/ Fail(q)
    <2>1. PICK q \in checkouts : Refuse(q) \/ Fail(q)
      BY <1>6
    <2>2. PICK v \in Verdict : checkouts' = (checkouts \ {q}) \union Judged(q, v)
      BY <2>1 DEF Refuse, Fail, Verdict
    <2>3. left' = left
      BY <2>1 DEF Refuse, Fail
    <2> QED
      BY <1>1, <1>3, <2>2, <2>3 DEF Checkout
  <1>7. CASE \E q \in checkouts : AnswerLost(q)
    <2>1. PICK q \in checkouts : AnswerLost(q)
      BY <1>7
    <2>2. /\ left' = left
          /\ \A r \in checkouts' : r \in checkouts \/ r = [q EXCEPT !.waiting = FALSE]
      BY <2>1 DEF AnswerLost
    <2> QED
      BY <1>1, <2>2 DEF Checkout
  <1>8. CASE left' = left /\ checkouts' \subseteq checkouts
    BY <1>1, <1>8 DEF Checkout
  <1>9. CASE submitBasket
    BY <1>1, <1>9 DEF submitBasket, Checkout
  <1>10. \/ \E q \in checkouts : Sell(q) \/ Refuse(q) \/ Fail(q) \/ AnswerLost(q)
         \/ \E d \in Lot, n \in 0 .. MaxStock : Elsewhere(d, n)
         \/ submitBasket
         \/ left' = left /\ checkouts' \subseteq checkouts
    BY NextSteps DEF addToBasket, decrementProduct, onKeypadSubmit, Identified,
         NotIdentified, resetToIdle, AnswerOk, AnswerNotOk, ReadProducts, ShowProducts,
         requests
  <1> QED
    BY <1>4, <1>5, <1>6, <1>7, <1>8, <1>9, <1>10

LEMMA SureNext ==
  ASSUME Inv, Next
  PROVE  SureAccepted'
  <1> SUFFICES ASSUME NEW r \in checkouts', r.sure
               PROVE  Accepted(r.items)'
    BY DEF SureAccepted
  <1>1. CASE /\ submitBasket
             /\ r = [session |-> session, items |-> [d \in Lot |-> UnitsOf(basket, d)],
                     verdict |-> "sent", waiting |-> TRUE, sure |-> steady]
    <2>1. steady /\ customer # Nobody /\ left' = left
      BY <1>1 DEF submitBasket
    <2>2. Accepted(r.items)
      BY <1>1, <2>1, FilledAccepted DEF Inv, TypeOK, SteadyFilled
    <2> QED
      BY <2>1, <2>2 DEF Accepted
  <1>2. CASE \E q \in checkouts : /\ r.items = q.items
                                  /\ r.sure => q.sure /\ left' = left
    <2>1. Accepted(r.items) /\ left' = left
      BY <1>2 DEF Inv, SureAccepted
    <2> QED
      BY <2>1 DEF Accepted
  <1> QED
    BY <1>1, <1>2, CheckoutNext

-----------------------------------------------------------------------------
(* Sessions. *)

LEMMA IdleNext ==
  ASSUME Inv, Next
  PROVE  Idle'
  <1>1. Idle /\ session \in Nat
    BY KioskAssumption DEF Inv, TypeOK, KioskAssumption
  <1>2. CASE \E c \in Customer : Identified(c)
    BY <1>1, <1>2, KioskAssumption DEF Identified, Idle, KioskAssumption
  <1>3. CASE /\ session' = session /\ customer' = customer
             /\ customer # Nobody \/ (basket' = basket /\ dialog' \in {dialog, "none"})
    BY <1>1, <1>3 DEF Idle
  <1>4. CASE resetToIdle
    BY <1>4 DEF resetToIdle, Idle
  <1>6. \/ \E c \in Customer : Identified(c)
        \/ /\ session' = session /\ customer' = customer
           /\ customer # Nobody \/ (basket' = basket /\ dialog' \in {dialog, "none"})
        \/ resetToIdle
    BY NextSteps DEF addToBasket, decrementProduct, Touchable, onKeypadSubmit,
         NotIdentified, submitBasket, Sell, Refuse, Fail, AnswerOk, AnswerNotOk,
         AnswerLost, ReadProducts, ShowProducts, Elsewhere, page, history
  <1> QED
    BY <1>2, <1>3, <1>4, <1>6

LEMMA ThankedNext ==
  ASSUME Inv, Next
  PROVE  Thanked'
  <1>1. /\ Thanked /\ session \in Nat /\ told \subseteq 1 .. session
        /\ loading => dialog # "checkout"
        /\ \A q \in checkouts : q.waiting => loading
        /\ \A q \in checkouts : q.verdict # "sent" => q.waiting
    BY KioskAssumption DEF Inv, TypeOK, Waiting, OneWaits, KioskAssumption
  <1>2. CASE \E c \in Customer : Identified(c)
    <2>1. CASE customer = Nobody
      <3>1. session' = session + 1 /\ told' = told
        BY <1>2, <2>1 DEF Identified
      <3>2. session + 1 \notin told
        BY <1>1
      <3> QED
        BY <3>1, <3>2 DEF Thanked
    <2>2. CASE customer # Nobody
      BY <1>1, <1>2, <2>2 DEF Identified, Thanked
    <2> QED
      BY <2>1, <2>2
  <1>3. CASE \E q \in checkouts : AnswerOk(q)
    <2>1. thanks' /\ dialog' = dialog /\ loading
      BY <1>1, <1>3 DEF AnswerOk, Thank
    <2> QED
      BY <1>1, <2>1 DEF Thanked
  <1>4. CASE /\ UNCHANGED <<customer, session, told, thanks>>
             /\ dialog' = "checkout" => dialog = "checkout" \/ ~thanks
    BY <1>1, <1>4 DEF Thanked
  <1>5. CASE resetToIdle
    BY <1>5 DEF resetToIdle, Thanked
  <1>6. \/ \E c \in Customer : Identified(c)
        \/ \E q \in checkouts : AnswerOk(q)
        \/ /\ UNCHANGED <<customer, session, told, thanks>>
           /\ dialog' = "checkout" => dialog = "checkout" \/ ~thanks
        \/ resetToIdle
    BY NextSteps DEF addToBasket, decrementProduct, onKeypadSubmit, NotIdentified,
         submitBasket, Sell, Refuse, Fail, AnswerNotOk, AnswerLost, ReadProducts,
         ShowProducts, Elsewhere, page, history
  <1> QED
    BY <1>2, <1>3, <1>4, <1>5, <1>6

LEMMA JudgedWaits ==
  ASSUME NEW C \in SUBSET Checkout, NEW l, OneWaits(C, l),
         NEW q \in C, NEW v \in Verdict
  PROVE  /\ (C \ {q}) \union Judged(q, v) \in SUBSET Checkout
         /\ OneWaits((C \ {q}) \union Judged(q, v), l)
  <1>1. CASE q.waiting
    <2> DEFINE j == [q EXCEPT !.verdict = v]
    <2>1. j \in Checkout /\ j.waiting /\ Judged(q, v) = {j}
      BY <1>1 DEF Judged, Checkout
    <2> HIDE DEF j
    <2>2. \A r \in C : r.waiting => r = q
      BY <1>1 DEF OneWaits
    <2>3. l <=> TRUE
      BY <1>1 DEF OneWaits
    <2> QED
      BY <2>1, <2>2, <2>3 DEF OneWaits
  <1>2. CASE ~ q.waiting
    <2>1. Judged(q, v) = {}
      BY <1>2 DEF Judged
    <2> QED
      BY <1>2, <2>1 DEF OneWaits
  <1> QED
    BY <1>1, <1>2

LEMMA UnsureWaits ==
  ASSUME NEW C \in SUBSET Checkout, NEW l, OneWaits(C, l)
  PROVE  OneWaits(Unsure(C), l)
  <1>1. ASSUME NEW r \in Unsure(C)
        PROVE  \E q \in C : /\ r = [q EXCEPT !.sure = FALSE]
                            /\ r.waiting = q.waiting /\ r.verdict = q.verdict
    BY DEF Unsure, Checkout
  <1>2. ASSUME NEW q \in C
        PROVE  \E r \in Unsure(C) : r.waiting = q.waiting
    <2>1. [q EXCEPT !.sure = FALSE] \in Unsure(C)
      BY DEF Unsure
    <2>2. [q EXCEPT !.sure = FALSE].waiting = q.waiting
      BY DEF Checkout
    <2> QED
      BY <2>1, <2>2
  <1>3. l <=> \E r \in Unsure(C) : r.waiting
    BY <1>1, <1>2 DEF OneWaits
  <1>4. \A q, r \in Unsure(C) : q.waiting /\ r.waiting => q = r
    BY <1>1 DEF OneWaits
  <1>5. \A q \in Unsure(C) : q.verdict # "sent" => q.waiting
    BY <1>1 DEF OneWaits
  <1> QED
    BY <1>3, <1>4, <1>5 DEF OneWaits

LEMMA AnsweredWaits ==
  ASSUME NEW C \in SUBSET Checkout, NEW l, OneWaits(C, l), NEW q \in C, q.waiting
  PROVE  /\ OneWaits(C \ {q}, FALSE)
         /\ q.verdict = "sent" =>
              OneWaits((C \ {q}) \union {[q EXCEPT !.waiting = FALSE]}, FALSE)
  <1> DEFINE n == [q EXCEPT !.waiting = FALSE]
  <1>1. ~ n.waiting /\ n.verdict = q.verdict
    BY DEF Checkout
  <1> HIDE DEF n
  <1>2. \A r \in C \ {q} : ~ r.waiting /\ r.verdict = "sent"
    BY DEF OneWaits
  <1>3. OneWaits(C \ {q}, FALSE)
    BY <1>2 DEF OneWaits
  <1>4. q.verdict = "sent" => OneWaits((C \ {q}) \union {n}, FALSE)
    BY <1>1, <1>2 DEF OneWaits
  <1> QED
    BY <1>3, <1>4 DEF n

LEMMA WaitingNext ==
  ASSUME Inv, Next
  PROVE  Waiting'
  <1>1. /\ OneWaits(checkouts, loading) /\ checkouts \in SUBSET Checkout
        /\ loading => dialog # "checkout"
        /\ \A q \in checkouts : q.session \in 1 .. session
        /\ session \in Nat /\ loading \in BOOLEAN
    BY KioskAssumption DEF Inv, TypeOK, Waiting, KioskAssumption
  <1>2. session' \in {session, session + 1}
    BY NextSteps DEF addToBasket, decrementProduct,
         onKeypadSubmit, Identified, NotIdentified, resetToIdle,
         submitBasket, Sell, Refuse, Fail, AnswerOk, AnswerNotOk, AnswerLost, ReadProducts,
         ShowProducts, Elsewhere, page, history
  <1>3. ASSUME NEW r \in checkouts' PROVE r.session \in 1 .. session'
    <2>1. CASE submitBasket /\ r.session = session
      <3>1. session > 0 /\ session' = session
        BY <2>1 DEF submitBasket, Inv, Idle, history
      <3> QED
        BY <1>1, <2>1, <3>1
    <2>2. CASE \E q \in checkouts : r.session = q.session
      BY <1>1, <1>2, <2>2
    <2> QED
      BY <2>1, <2>2, CheckoutNext
  <1>4. CASE \E q \in checkouts : Sell(q)
    <2>1. PICK q \in checkouts : Sell(q)
      BY <1>4
    <2>2. /\ checkouts' = Unsure((checkouts \ {q}) \union Judged(q, "ok"))
          /\ UNCHANGED <<loading, dialog>>
      BY <2>1 DEF Sell, page
    <2>3. OneWaits(checkouts', loading)
      BY <1>1, <2>2, JudgedWaits, UnsureWaits DEF Verdict
    <2> QED
      BY <1>1, <1>3, <2>2, <2>3 DEF Waiting
  <1>5. CASE \E q \in checkouts : Refuse(q) \/ Fail(q)
    <2>1. PICK q \in checkouts : Refuse(q) \/ Fail(q)
      BY <1>5
    <2>2. /\ \E v \in Verdict : checkouts' = (checkouts \ {q}) \union Judged(q, v)
          /\ UNCHANGED <<loading, dialog>>
      BY <2>1 DEF Refuse, Fail, page, Verdict
    <2>3. OneWaits(checkouts', loading)
      BY <1>1, <2>2, JudgedWaits
    <2> QED
      BY <1>1, <1>3, <2>2, <2>3 DEF Waiting
  <1>6. CASE \E q \in checkouts : AnswerOk(q) \/ AnswerNotOk(q)
    <2>1. PICK q \in checkouts : AnswerOk(q) \/ AnswerNotOk(q)
      BY <1>6
    <2>2. /\ checkouts' = checkouts \ {q} /\ loading' = FALSE /\ q.verdict # "sent"
      BY <2>1 DEF AnswerOk, AnswerNotOk
    <2>3. q.waiting
      BY <1>1, <2>2 DEF OneWaits
    <2>4. OneWaits(checkouts', loading')
      BY <1>1, <2>2, <2>3, AnsweredWaits
    <2> QED
      BY <1>3, <2>2, <2>4 DEF Waiting
  <1>7. CASE \E q \in checkouts : AnswerLost(q)
    <2>1. PICK q \in checkouts : AnswerLost(q)
      BY <1>7
    <2>2. /\ q.waiting /\ loading' = FALSE
          /\ checkouts' = (checkouts \ {q}) \union
                     IF q.verdict = "sent" THEN {[q EXCEPT !.waiting = FALSE]} ELSE {}
      BY <2>1 DEF AnswerLost
    <2>3. OneWaits(checkouts', FALSE)
      <3>1. CASE q.verdict = "sent"
        BY <1>1, <2>2, <3>1, AnsweredWaits
      <3>2. CASE q.verdict # "sent"
        <4>1. checkouts' = checkouts \ {q}
          BY <2>2, <3>2
        <4> QED
          BY <1>1, <2>2, <4>1, AnsweredWaits
      <3> QED
        BY <3>1, <3>2
    <2> QED
      BY <1>3, <2>2, <2>3 DEF Waiting
  <1>8. CASE \E d \in Lot, n \in 0 .. MaxStock : Elsewhere(d, n)
    <2>1. checkouts' = Unsure(checkouts) /\ UNCHANGED <<loading, dialog>>
      BY <1>8 DEF Elsewhere, page
    <2> QED
      BY <1>1, <1>3, <2>1, UnsureWaits DEF Waiting
  <1>9. CASE submitBasket
    <2> DEFINE n == [session |-> session, items |-> [d \in Lot |-> UnitsOf(basket, d)],
                     verdict |-> "sent", waiting |-> TRUE, sure |-> steady]
    <2>1. n.waiting /\ n.verdict = "sent"
      OBVIOUS
    <2>2. /\ checkouts' = checkouts \union {n} /\ loading' = TRUE /\ ~loading
          /\ dialog' = "none"
      BY <1>1, <1>9 DEF submitBasket
    <2> HIDE DEF n
    <2>3. OneWaits(checkouts', TRUE)
      BY <1>1, <2>1, <2>2 DEF OneWaits
    <2> QED
      BY <1>3, <2>2, <2>3 DEF Waiting
  <1>10. CASE /\ UNCHANGED <<checkouts, loading>>
              /\ dialog' = "checkout" => dialog = "checkout" \/ ~loading
    BY <1>1, <1>3, <1>10 DEF Waiting
  <1>11. \/ \E q \in checkouts : \/ Sell(q) \/ Refuse(q) \/ Fail(q)
                                 \/ AnswerOk(q) \/ AnswerNotOk(q) \/ AnswerLost(q)
         \/ \E d \in Lot, n \in 0 .. MaxStock : Elsewhere(d, n)
         \/ submitBasket
         \/ /\ UNCHANGED <<checkouts, loading>>
            /\ dialog' = "checkout" => dialog = "checkout" \/ ~loading
    BY NextSteps DEF addToBasket, decrementProduct, onKeypadSubmit, Identified,
         NotIdentified, resetToIdle, ReadProducts, ShowProducts, page, requests
  <1> QED
    BY <1>4, <1>5, <1>6, <1>7, <1>8, <1>9, <1>10, <1>11

-----------------------------------------------------------------------------
(* Types. *)

LEMMA TypeNext ==
  ASSUME Inv, Next
  PROVE  TypeOK'
  <1>1. TypeOK /\ Basket(basket) /\ Waiting /\ Waiting' /\ Basket(basket')
    BY BasketNext, WaitingNext DEF Inv
  <1>2. session \in 0 .. MaxSessions /\ session \in Nat /\ MaxSessions \in Nat /\ MaxMoves \in Nat
    BY <1>1, KioskAssumption DEF TypeOK, KioskAssumption
  <1>3. left' \in Stock
    <2>1. ASSUME NEW q \in checkouts, Sell(q) PROVE left' \in Stock
      <3>1. /\ \A d \in Lot : q.items[d] <= left[d]
            /\ left' = [d \in Lot |-> left[d] - q.items[d]]
        BY <2>1 DEF Sell, Accepted
      <3>2. \A d \in Lot : q.items[d] \in Nat /\ left[d] \in 0 .. MaxStock
        BY <1>1 DEF TypeOK, Checkout, Units, Stock
      <3>3. ASSUME NEW d \in Lot PROVE left[d] - q.items[d] \in 0 .. MaxStock
        BY <3>1, <3>2, KioskAssumption DEF KioskAssumption
      <3> QED
        BY <3>1, <3>3 DEF Stock
    <2>2. ASSUME NEW d \in Lot, NEW n \in 0 .. MaxStock, Elsewhere(d, n) PROVE left' \in Stock
      BY <1>1, <2>2 DEF Elsewhere, TypeOK, Stock
    <2>3. \/ \E q \in checkouts : Sell(q)
          \/ \E d \in Lot, n \in 0 .. MaxStock : Elsewhere(d, n)
          \/ UNCHANGED left
      BY NextSteps DEF addToBasket, decrementProduct, onKeypadSubmit, Identified,
           NotIdentified, resetToIdle, submitBasket, Refuse, Fail, AnswerOk, AnswerNotOk,
           AnswerLost, ReadProducts, ShowProducts
    <2> QED
      BY <1>1, <2>1, <2>2, <2>3 DEF TypeOK
  <1>4. shown' \in Stock /\ answers' \subseteq Stock
    BY <1>1, NextSteps DEF TypeOK, addToBasket, decrementProduct, onKeypadSubmit, Identified,
         NotIdentified, resetToIdle, submitBasket, Sell, Refuse, Fail, AnswerOk,
         AnswerNotOk, AnswerLost, ReadProducts, ShowProducts, Elsewhere, page, requests
  <1>5. session' \in 0 .. MaxSessions /\ session <= session'
    <2>1. \/ session' = session
          \/ session' = session + 1 /\ session < MaxSessions
      BY NextSteps DEF addToBasket, decrementProduct, onKeypadSubmit, Identified,
           NotIdentified, resetToIdle, submitBasket, Sell, Refuse, Fail, AnswerOk,
           AnswerNotOk, AnswerLost, ReadProducts, ShowProducts, Elsewhere, history
    <2> QED
      BY <1>2, <2>1
  <1>6. sold' \subseteq 1 .. session' /\ told' \subseteq 1 .. session'
    <2>1. \A n \in sold' \union told' :
            n \in sold \union told \/ \E q \in checkouts : n = q.session
      BY NextSteps DEF addToBasket, decrementProduct, onKeypadSubmit, Identified,
           NotIdentified, resetToIdle, submitBasket, Sell, Refuse, Fail, AnswerOk,
           AnswerNotOk, AnswerLost, ReadProducts, ShowProducts, Elsewhere, history
    <2>2. \A n \in sold' \union told' : n \in 1 .. session
      BY <1>1, <2>1 DEF TypeOK, Waiting
    <2> QED
      BY <1>2, <1>5, <2>2
  <1>7. /\ customer' \in Customer \union {Nobody}
        /\ dialog' \in {"none", "checkout", "cancel"}
        /\ loading' \in BOOLEAN /\ thanks' \in BOOLEAN /\ steady' \in BOOLEAN
        /\ lookups' \subseteq Customer
    <2>1. CASE \E p \in Products : addToBasket(p) \/ decrementProduct(p)
      BY <1>1, <2>1 DEF TypeOK, addToBasket, decrementProduct, requests, history
    <2>2. CASE \E c \in Customer : onKeypadSubmit(c) \/ Identified(c) \/ NotIdentified(c)
      BY <1>1, <2>2 DEF TypeOK, onKeypadSubmit, Identified, NotIdentified, page, history
    <2>3. CASE resetToIdle
      BY <1>1, <2>3 DEF TypeOK, resetToIdle, requests, history
    <2>4. CASE \E q \in checkouts : Sell(q) \/ Refuse(q) \/ Fail(q)
      BY <1>1, <2>4 DEF TypeOK, Sell, Refuse, Fail, page, history
    <2>5. CASE \E q \in checkouts : AnswerOk(q) \/ AnswerNotOk(q) \/ AnswerLost(q)
      BY <1>1, <2>5 DEF TypeOK, AnswerOk, Thank, AnswerNotOk, AnswerLost, history
    <2>6. CASE ReadProducts \/ ShowProducts
      BY <1>1, <2>6 DEF TypeOK, ReadProducts, ShowProducts, page, history
    <2>7. CASE \E d \in Lot, n \in 0 .. MaxStock : Elsewhere(d, n)
      BY <1>1, <2>7 DEF TypeOK, Elsewhere, page
    <2>8. CASE submitBasket
      BY <1>1, <2>8 DEF TypeOK, submitBasket, history
    <2>9. CASE \E s \in {"none", "checkout", "cancel"} :
                 /\ dialog' = s
                 /\ UNCHANGED <<customer, loading, thanks, requests, history>>
      BY <1>1, <2>9 DEF TypeOK, requests, history
    <2> QED
      BY <2>1, <2>2, <2>3, <2>4, <2>5, <2>6, <2>7, <2>8, <2>9, NextSteps
  <1>8. reloads' \in Nat
    <2>1. \/ reloads' \in {reloads, reloads + 1}
          \/ reloads > 0 /\ reloads' = reloads - 1
      BY NextSteps DEF addToBasket, decrementProduct, onKeypadSubmit, Identified,
           NotIdentified, resetToIdle, submitBasket, Sell, Refuse, Fail, AnswerOk,
           AnswerNotOk, AnswerLost, ReadProducts, ShowProducts, Elsewhere, requests
    <2> QED
      BY <1>1, <2>1 DEF TypeOK
  <1>9. checkouts' \subseteq Checkout
    <2> DEFINE items == [d \in Lot |-> UnitsOf(basket, d)]
    <2>1. items \in Units
      BY <1>1, UnitsTyped DEF Units
    <2> HIDE DEF items
    <2>2. [session |-> session, items |-> items, verdict |-> "sent",
           waiting |-> TRUE, sure |-> steady] \in Checkout
      BY <1>1, <1>2, <2>1 DEF Checkout, Verdict, TypeOK
    <2> QED
      BY <2>2, CheckoutNext DEF items
  <1>10. moves' \in 0 .. MaxMoves
    <2>1. moves' = moves \/ (moves < MaxMoves /\ moves' = moves + 1)
      BY NextSteps DEF addToBasket, decrementProduct, onKeypadSubmit, Identified,
           NotIdentified, resetToIdle, submitBasket, Sell, Refuse, Fail, AnswerOk,
           AnswerNotOk, AnswerLost, ReadProducts, ShowProducts, Elsewhere, history
    <2> QED
      BY <1>1, <1>2, <2>1 DEF TypeOK
  <1> QED
    BY <1>1, <1>3, <1>4, <1>5, <1>6, <1>7, <1>8, <1>9, <1>10 DEF TypeOK, Basket

-----------------------------------------------------------------------------
(* The theorems. *)

LEMMA InvInit == Init => Inv
  <1> SUFFICES ASSUME Init PROVE Inv
    OBVIOUS
  <1>1. basket = <<>> /\ Basket(basket)
    BY DEF Init, Basket
  <1>2. TypeOK
    <2>1. /\ left \in Stock /\ shown \in Stock /\ answers \subseteq Stock
          /\ checkouts \subseteq Checkout /\ lookups \subseteq Customer
          /\ sold \subseteq 1 .. session /\ told \subseteq 1 .. session
      BY DEF Init
    <2>2. basket \in Seq(Line) /\ \A j, k \in DOMAIN basket : basket[j].lot = basket[k].lot => j = k
      BY <1>1 DEF Basket
    <2>3. reloads \in Nat /\ session \in 0 .. MaxSessions /\ moves \in 0 .. MaxMoves
      BY KioskAssumption DEF Init, KioskAssumption
    <2>4. /\ customer \in Customer \union {Nobody} /\ dialog \in {"none", "checkout", "cancel"}
          /\ loading \in BOOLEAN /\ thanks \in BOOLEAN /\ steady \in BOOLEAN
      BY DEF Init
    <2> QED
      BY <2>1, <2>2, <2>3, <2>4 DEF TypeOK
  <1>3. Idle /\ Waiting /\ Thanked /\ SteadyFilled /\ SureAccepted
    BY DEF Init, Idle, Waiting, OneWaits, Thanked, SteadyFilled, SureAccepted
  <1> QED
    BY <1>1, <1>2, <1>3 DEF Inv

LEMMA InvNext == Inv /\ [Next]_vars => Inv'
  <1> SUFFICES ASSUME Inv, [Next]_vars PROVE Inv'
    OBVIOUS
  <1>1. CASE Next
    BY <1>1, TypeNext, BasketNext, IdleNext, WaitingNext, ThankedNext, SteadyNext, SureNext,
       Zenon DEF Inv, Basket
  <1>2. CASE UNCHANGED vars
    BY <1>2 DEF vars, Inv, TypeOK, Basket, Idle, Waiting, OneWaits, Thanked, SteadyFilled,
         Filled, UnitsOf, LineOf, SureAccepted, Accepted
  <1> QED
    BY <1>1, <1>2

THEOREM KioskInvariant == Spec => []Inv
  BY InvInit, InvNext, PTL DEF Spec

\* The state of the page and its requests is what TypeOK says.
THEOREM KioskTyped == Spec => []TypeOK
  <1>1. Inv => TypeOK
    BY DEF Inv
  <1> QED
    BY <1>1, KioskInvariant, PTL

\* The checkout button is disabled exactly while one answer is awaited.
THEOREM AtMostOneAwaited == Spec => []OneAwaited
  <1>1. Inv => OneAwaited
    <2> SUFFICES ASSUME Inv PROVE OneAwaited
      OBVIOUS
    <2>1. OneWaits(checkouts, loading) /\ loading \in BOOLEAN
      BY DEF Inv, Waiting, TypeOK
    <2>2. CASE loading
      <3>1. PICK q \in checkouts : Awaited = {q}
        BY <2>1, <2>2 DEF OneWaits, Awaited
      <3>2. Cardinality(Awaited) = 1
        BY <3>1, FS_Singleton
      <3> QED
        BY <2>2, <3>2 DEF OneAwaited
    <2>3. CASE ~loading
      <3>1. Awaited = {}
        BY <2>1, <2>3 DEF OneWaits, Awaited
      <3>2. Cardinality(Awaited) = 0
        BY <3>1, FS_EmptySet
      <3> QED
        BY <2>3, <3>2 DEF OneAwaited
    <2> QED
      BY <2>1, <2>2, <2>3
  <1> QED
    BY <1>1, KioskInvariant, PTL

\* A basket that was filled, sent and judged while nothing changed is not
\* refused.
THEOREM SteadySells == Spec => SteadyBasketSells
  <1>1. Inv /\ [Next]_vars => [\A q \in checkouts : Refuse(q) => ~q.sure]_vars
    <2>1. ASSUME Inv, NEW q \in checkouts, Refuse(q) PROVE ~q.sure
      BY <2>1 DEF Inv, SureAccepted, Refuse
    <2> QED
      BY <2>1
  <1> QED
    BY <1>1, KioskInvariant, PTL DEF Spec, SteadyBasketSells

\* A session that was told ok sends no other checkout.
THEOREM PaysOnce == Spec => PaysOnceWhenTold
  <1>1. Inv /\ [Next]_vars => [submitBasket => session \notin told]_vars
    <2>1. ASSUME Inv, submitBasket PROVE session \notin told
      BY <2>1 DEF Inv, Thanked, submitBasket
    <2> QED
      BY <2>1
  <1> QED
    BY <1>1, KioskInvariant, PTL DEF Spec, PaysOnceWhenTold

=============================================================================
