--------------------------- MODULE HlReviewProofs ---------------------------
(***************************************************************************)
(* Lemmas about the review screens, for every metadata and every batch     *)
(* that handle_ui agrees to show: which pairs there are, and how many of   *)
(* each.  ReviewBatchesProofs and ScreenTextsProofs rest on them.          *)
(***************************************************************************)
EXTENDS HlReview, FiniteSetTheorems, FunctionTheorems, SequenceTheorems, TLAPS

-----------------------------------------------------------------------------
(* Lists, and the pairs of a list that have one of some items *)

Under(pairs, items) == {i \in DOMAIN pairs : pairs[i][1] \in items}

Count(pairs, items) == Cardinality(Under(pairs, items))

(* What a pair adds to the number of pairs that have one of some items *)
One(item, items) == IF item \in items THEN 1 ELSE 0

(* The items of an array are numbered from one. *)
LEMMA ListProperties ==
    ASSUME NEW list, IsList(list)
    PROVE  /\ Len(list) \in Nat
           /\ DOMAIN list = 1..Len(list)
           /\ \A i \in 1..Len(list) : list[i] \in Range(list)
BY LenProperties DEF IsList, Range

(* An interval determines its length. *)
LEMMA SameLength ==
    ASSUME NEW m \in Nat, NEW n \in Nat, 1..m = 1..n
    PROVE  m = n
<1>1. Cardinality(1..m) = m /\ Cardinality(1..n) = n
  BY FS_Interval
<1> QED
  BY <1>1

(* A sequence is an array of what it holds. *)
LEMMA IsListOf ==
    ASSUME NEW S, NEW list \in Seq(S)
    PROVE  IsList(list) /\ Range(list) \subseteq S
<1>1. list \in [1..Len(list) -> S] /\ Len(list) \in Nat /\ DOMAIN list = 1..Len(list)
  BY LenProperties
<1>2. list \in [1..Len(list) -> Range(list)]
  BY <1>1 DEF Range
<1>3. list \in Seq(Range(list))
  BY <1>1, <1>2
<1> QED
  BY <1>1, <1>3 DEF IsList, Range

(* A list made from each item of another *)
LEMMA Mapped ==
    ASSUME NEW list, IsList(list), NEW f, f = [i \in DOMAIN list |-> f[i]]
    PROVE  /\ IsList(f)
           /\ Len(f) = Len(list)
           /\ DOMAIN f = 1..Len(list)
<1>1. Len(list) \in Nat /\ DOMAIN list = 1..Len(list)
  BY ListProperties
<1>2. DOMAIN f = 1..Len(list)
  BY <1>1
<1>3. f \in [1..Len(list) -> Range(f)]
  BY <1>1, <1>2 DEF Range
<1>4. f \in Seq(Range(f))
  BY <1>1, <1>3
<1>5. IsList(f)
  BY <1>4 DEF IsList
<1>6. Len(f) \in Nat /\ DOMAIN f = 1..Len(f)
  BY <1>5, ListProperties
<1>7. 1..Len(f) = 1..Len(list)
  BY <1>2, <1>6
<1> QED
  BY <1>1, <1>2, <1>5, <1>6, <1>7, SameLength

(* The pairs under some items are finitely many. *)
LEMMA UnderFinite ==
    ASSUME NEW pairs, IsList(pairs), NEW items
    PROVE  /\ IsFiniteSet(Under(pairs, items))
           /\ Under(pairs, items) \subseteq 1..Len(pairs)
           /\ Count(pairs, items) \in Nat
<1>1. Len(pairs) \in Nat /\ DOMAIN pairs = 1..Len(pairs)
  BY ListProperties
<1>2. IsFiniteSet(1..Len(pairs))
  BY <1>1, FS_Interval
<1>3. Under(pairs, items) \in SUBSET (1..Len(pairs))
  BY <1>1 DEF Under
<1> QED
  BY <1>2, <1>3, FS_Subset, FS_CardinalityType DEF Count

(* The pairs under some items, up to a place of the list: each has its own *)
(* number, from one to their count.                                        *)
UpTo(pairs, items, i) == {k \in 1..i : pairs[k][1] \in items}

LEMMA UpToFinite ==
    ASSUME NEW pairs, IsList(pairs), NEW items, NEW i \in 1..Len(pairs)
    PROVE  /\ i \in Nat
           /\ IsFiniteSet(UpTo(pairs, items, i))
           /\ Cardinality(UpTo(pairs, items, i)) \in Nat
           /\ UpTo(pairs, items, i) \in SUBSET Under(pairs, items)
<1>1. Len(pairs) \in Nat /\ DOMAIN pairs = 1..Len(pairs)
  BY ListProperties
<1>2. i \in Nat /\ 1..i \subseteq 1..Len(pairs)
  BY <1>1
<1>3. IsFiniteSet(1..i) /\ UpTo(pairs, items, i) \in SUBSET (1..i)
  BY <1>2, FS_Interval DEF UpTo
<1>4. UpTo(pairs, items, i) \in SUBSET Under(pairs, items)
  BY <1>1, <1>2 DEF UpTo, Under
<1> QED
  BY <1>2, <1>3, <1>4, FS_Subset, FS_CardinalityType

LEMMA UpToGrows ==
    ASSUME NEW pairs, IsList(pairs), NEW items,
           NEW i \in 1..Len(pairs), NEW j \in 1..Len(pairs), i < j, pairs[j][1] \in items
    PROVE  Cardinality(UpTo(pairs, items, i)) # Cardinality(UpTo(pairs, items, j))
<1> DEFINE A == UpTo(pairs, items, i)
           B == UpTo(pairs, items, j)
<1>1. /\ i \in Nat /\ IsFiniteSet(A) /\ Cardinality(A) \in Nat
      /\ j \in Nat /\ IsFiniteSet(B) /\ Cardinality(B) \in Nat
  BY UpToFinite
<1>2. j \in 1..j /\ j \notin 1..i /\ 1..i \subseteq 1..j
  BY <1>1
<1>3. j \notin A /\ A \cup {j} \in SUBSET B
  BY <1>2 DEF UpTo
<1> HIDE DEF A, B
<1>4. Cardinality(A \cup {j}) = Cardinality(A) + 1
  BY <1>1, <1>3, FS_AddElement
<1>5. Cardinality(A \cup {j}) <= Cardinality(B)
  BY <1>1, <1>3, FS_Subset
<1>6. Cardinality(A) # Cardinality(B)
  BY <1>1, <1>4, <1>5
<1> QED
  BY <1>6 DEF A, B

LEMMA UpToCount ==
    ASSUME NEW pairs, IsList(pairs), NEW items,
           NEW i \in 1..Len(pairs), pairs[i][1] \in items
    PROVE  /\ Count(pairs, items) \in Nat
           /\ Cardinality(UpTo(pairs, items, i)) \in 1..Count(pairs, items)
<1> DEFINE A == UpTo(pairs, items, i)
           B == Under(pairs, items)
<1>1. i \in Nat /\ IsFiniteSet(A) /\ Cardinality(A) \in Nat /\ A \in SUBSET B
  BY UpToFinite
<1>2. IsFiniteSet(B) /\ Cardinality(B) \in Nat
  BY UnderFinite, FS_CardinalityType
<1>3. i \in A
  BY <1>1 DEF UpTo
<1> HIDE DEF A, B
<1>4. Cardinality(A) <= Cardinality(B)
  BY <1>1, <1>2, FS_Subset
<1>5. Cardinality(A) # 0
  BY <1>1, <1>3, FS_EmptySet
<1>6. Cardinality(A) \in 1..Cardinality(B)
  BY <1>1, <1>2, <1>4, <1>5
<1> QED
  BY <1>2, <1>6 DEF A, B, Count

(* The pairs of two lists put together are the pairs of both. *)
LEMMA Concat ==
    ASSUME NEW s, NEW t, IsList(s), IsList(t)
    PROVE  /\ IsList(s \o t)
           /\ Len(s \o t) = Len(s) + Len(t)
           /\ Range(s \o t) = Range(s) \cup Range(t)
           /\ \A i \in 1..Len(s) : (s \o t)[i] = s[i]
           /\ \A i \in 1..Len(t) : (s \o t)[Len(s) + i] = t[i]
<1> DEFINE S == Range(s) \cup Range(t)
<1>1. /\ Len(s) \in Nat /\ DOMAIN s = 1..Len(s)
      /\ Len(t) \in Nat /\ DOMAIN t = 1..Len(t)
  BY ListProperties
<1>2. s \in Seq(S) /\ t \in Seq(S)
  BY SeqMonotonic DEF IsList
<1>3. /\ s \o t \in Seq(S)
      /\ Len(s \o t) = Len(s) + Len(t)
      /\ \A i \in 1..(Len(s) + Len(t)) :
             (s \o t)[i] = IF i <= Len(s) THEN s[i] ELSE t[i - Len(s)]
  BY <1>2, ConcatProperties
<1>4. DOMAIN (s \o t) = 1..(Len(s) + Len(t))
  BY <1>3, LenProperties
<1>5. \A i \in 1..Len(s) : (s \o t)[i] = s[i]
  BY <1>1, <1>3
<1>6. \A i \in 1..Len(t) : (s \o t)[Len(s) + i] = t[i]
  <2> SUFFICES ASSUME NEW i \in 1..Len(t) PROVE (s \o t)[Len(s) + i] = t[i]
    OBVIOUS
  <2>1. /\ Len(s) + i \in 1..(Len(s) + Len(t))
        /\ ~(Len(s) + i <= Len(s))
        /\ Len(s) + i - Len(s) = i
    BY <1>1
  <2> QED
    BY <1>3, <2>1
<1>7. ASSUME NEW i \in 1..Len(s) PROVE i \in 1..(Len(s) + Len(t))
  BY <1>1
<1>8. ASSUME NEW i \in 1..Len(t) PROVE Len(s) + i \in 1..(Len(s) + Len(t))
  BY <1>1
<1>9. Range(s) \subseteq Range(s \o t)
  BY <1>1, <1>4, <1>5, <1>7 DEF Range
<1>10. Range(t) \subseteq Range(s \o t)
  BY <1>1, <1>4, <1>6, <1>8 DEF Range
<1>11. Range(s \o t) \subseteq S
  BY <1>3, IsListOf
<1>12. IsList(s \o t)
  BY <1>3, IsListOf
<1> QED
  BY <1>3, <1>5, <1>6, <1>9, <1>10, <1>11, <1>12

(* Pairs of lists put together add up. *)
LEMMA CountConcat ==
    ASSUME NEW s, NEW t, IsList(s), IsList(t), NEW items
    PROVE  Count(s \o t, items) = Count(s, items) + Count(t, items)
<1> DEFINE A == Under(s, items)
           B == Under(t, items)
           C == {Len(s) + i : i \in B}
<1>1. /\ Len(s) \in Nat /\ DOMAIN s = 1..Len(s)
      /\ Len(t) \in Nat /\ DOMAIN t = 1..Len(t)
      /\ Len(s \o t) = Len(s) + Len(t)
      /\ DOMAIN (s \o t) = 1..(Len(s) + Len(t))
      /\ \A i \in 1..Len(s) : (s \o t)[i] = s[i]
      /\ \A i \in 1..Len(t) : (s \o t)[Len(s) + i] = t[i]
  BY Concat, ListProperties
<1>2. /\ IsFiniteSet(A) /\ A \subseteq 1..Len(s)
      /\ IsFiniteSet(B) /\ B \subseteq 1..Len(t)
  BY UnderFinite
<1>3. Under(s \o t, items) = A \cup C
  <2>1. ASSUME NEW i \in 1..Len(s) PROVE i \in Under(s \o t, items) <=> i \in A
    BY <1>1 DEF Under
  <2>2. ASSUME NEW i \in 1..Len(t)
        PROVE  Len(s) + i \in Under(s \o t, items) <=> i \in B
    BY <1>1 DEF Under
  <2>3. ASSUME NEW i \in Under(s \o t, items) PROVE i \in A \cup C
    <3>1. i \in 1..(Len(s) + Len(t))
      BY <1>1 DEF Under
    <3>2. CASE i <= Len(s)
      BY <1>1, <2>1, <3>1, <3>2
    <3>3. CASE ~(i <= Len(s))
      <4>1. i - Len(s) \in 1..Len(t) /\ Len(s) + (i - Len(s)) = i
        BY <1>1, <3>1, <3>3
      <4>2. i - Len(s) \in B
        BY <2>2, <4>1
      <4> QED
        BY <4>1, <4>2
    <3> QED
      BY <3>2, <3>3
  <2> HIDE DEF A, B
  <2> QED
    BY <1>2, <2>1, <2>2, <2>3
<1>4. IsFiniteSet(C) /\ Cardinality(C) = Cardinality(B)
  <2> DEFINE f == [i \in B |-> Len(s) + i]
  <2>1. f \in [B -> C] /\ \A i, j \in B : f[i] = f[j] => i = j
    BY <1>1, <1>2
  <2>2. \A c \in C : \E i \in B : f[i] = c
    OBVIOUS
  <2>3. f \in Bijection(B, C)
    BY <2>1, <2>2, Fun_IsInj, Fun_IsSurj DEF Bijection
  <2>4. ExistsBijection(B, C)
    BY <2>3, Fun_ExistsBij
  <2> HIDE DEF B, C
  <2> QED
    BY <1>2, <2>4, FS_Bijection
<1>5. A \cap C = {}
  BY <1>1, <1>2
<1> HIDE DEF A, B, C
<1>6. Cardinality(A \cup C) = Cardinality(A) + Cardinality(C) - Cardinality(A \cap C)
  BY <1>2, <1>4, FS_Union
<1>7. Cardinality(A) \in Nat /\ Cardinality(C) \in Nat
  BY <1>2, <1>4, FS_CardinalityType
<1>8. Cardinality(A \cap C) = 0
  BY <1>5, FS_EmptySet
<1>9. Cardinality(A \cup C) = Cardinality(A) + Cardinality(B)
  BY <1>4, <1>6, <1>7, <1>8
<1>10. Count(s, items) = Cardinality(A) /\ Count(t, items) = Cardinality(B)
  BY DEF Count, A, B
<1> QED
  BY <1>3, <1>9, <1>10 DEF Count

(* A pair, none, and a list with one more, always or under a condition *)
LEMMA Single ==
    ASSUME NEW p, NEW items
    PROVE  /\ IsList(<<p>>)
           /\ Len(<<p>>) = 1
           /\ Range(<<p>>) = {p}
           /\ Count(<<p>>, items) = One(p[1], items)
<1>1. <<p>> \in Seq({p}) /\ Len(<<p>>) = 1 /\ <<p>>[1] = p /\ DOMAIN <<p>> = {1}
  OBVIOUS
<1>2. IsList(<<p>>)
  BY <1>1, IsListOf
<1>3. Range(<<p>>) = {p}
  BY <1>1 DEF Range
<1>4. CASE p[1] \in items
  <2>1. Under(<<p>>, items) = {1}
    BY <1>1, <1>4 DEF Under
  <2> QED
    BY <1>1, <1>2, <1>3, <1>4, <2>1, FS_Singleton DEF Count, One
<1>5. CASE p[1] \notin items
  <2>1. Under(<<p>>, items) = {}
    BY <1>1, <1>5 DEF Under
  <2> QED
    BY <1>1, <1>2, <1>3, <1>5, <2>1, FS_EmptySet DEF Count, One
<1> QED
  BY <1>4, <1>5

(* An empty list has no pairs. *)
LEMMA Nothing ==
    ASSUME NEW items
    PROVE  /\ IsList(<<>>)
           /\ Len(<<>>) = 0
           /\ Range(<<>>) = {}
           /\ Count(<<>>, items) = 0
<1>1. <<>> \in Seq({}) /\ Len(<<>>) = 0 /\ DOMAIN <<>> = {}
  OBVIOUS
<1>2. Count(<<>>, items) = 0
  BY <1>1, FS_EmptySet DEF Under, Count
<1>3. Range(<<>>) = {}
  BY <1>1 DEF Range
<1> QED
  BY <1>1, <1>2, <1>3, IsListOf

Put(s, p) == s \o <<p>>

PutWhen(s, condition, p) == s \o When(condition, <<p>>)

(* A list with one more pair at its end *)
LEMMA Add ==
    ASSUME NEW s, IsList(s), NEW p, NEW items
    PROVE  /\ IsList(Put(s, p))
           /\ Len(Put(s, p)) = Len(s) + 1
           /\ Range(Put(s, p)) = Range(s) \cup {p}
           /\ Count(Put(s, p), items) = Count(s, items) + One(p[1], items)
<1>1. /\ IsList(<<p>>) /\ Len(<<p>>) = 1 /\ Range(<<p>>) = {p}
      /\ Count(<<p>>, items) = One(p[1], items)
  BY Single
<1>2. Count(s \o <<p>>, items) = Count(s, items) + One(p[1], items)
  BY <1>1, CountConcat
<1> QED
  BY <1>1, <1>2, Concat DEF Put

(* A list with one more pair if a condition holds *)
LEMMA Extend ==
    ASSUME NEW s, IsList(s), NEW condition, NEW p, NEW items
    PROVE  /\ IsList(PutWhen(s, condition, p))
           /\ Range(PutWhen(s, condition, p)) = Range(s) \cup (IF condition THEN {p} ELSE {})
           /\ Count(PutWhen(s, condition, p), items)
                 = Count(s, items) + (IF condition THEN One(p[1], items) ELSE 0)
<1>1. CASE condition
  <2>1. PutWhen(s, condition, p) = Put(s, p)
    BY <1>1 DEF When, PutWhen, Put
  <2>2. /\ IsList(Put(s, p))
        /\ Len(Put(s, p)) = Len(s) + 1
        /\ Range(Put(s, p)) = Range(s) \cup {p}
        /\ Count(Put(s, p), items) = Count(s, items) + One(p[1], items)
    BY Add
  <2> QED
    BY <1>1, <2>1, <2>2
<1>2. CASE ~condition
  <2>1. PutWhen(s, condition, p) = s \o <<>>
    BY <1>2 DEF When, PutWhen
  <2>2. Count(s, items) \in Nat /\ Len(s) \in Nat
    BY UnderFinite, ListProperties
  <2> QED
    BY <1>2, <2>1, <2>2, Nothing, Concat, CountConcat
<1> QED
  BY <1>1, <1>2

-----------------------------------------------------------------------------
(* The orders of a kind, and the first of them when there is one at most *)

LEMMA KindsFinite ==
    ASSUME NEW orders, IsList(orders)
    PROVE  /\ IsFiniteSet(LimitsIn(orders)) /\ LimitsIn(orders) \subseteq 1..Len(orders)
           /\ IsFiniteSet(TpsIn(orders)) /\ TpsIn(orders) \subseteq 1..Len(orders)
           /\ IsFiniteSet(SlsIn(orders)) /\ SlsIn(orders) \subseteq 1..Len(orders)
<1>1. Len(orders) \in Nat /\ DOMAIN orders = 1..Len(orders)
  BY ListProperties
<1>2. IsFiniteSet(1..Len(orders))
  BY <1>1, FS_Interval
<1>3. /\ LimitsIn(orders) \in SUBSET (1..Len(orders))
      /\ TpsIn(orders) \in SUBSET (1..Len(orders))
      /\ SlsIn(orders) \in SUBSET (1..Len(orders))
  BY <1>1 DEF LimitsIn, TpsIn, SlsIn
<1> QED
  BY <1>2, <1>3, FS_Subset

(* A set with at most one member *)
LEMMA AtMostOne ==
    ASSUME NEW S, IsFiniteSet(S), Cardinality(S) <= 1
    PROVE  /\ Cardinality(S) = (IF S # {} THEN 1 ELSE 0)
           /\ S # {} => \E x : S = {x}
<1>1. Cardinality(S) \in Nat
  BY FS_CardinalityType
<1>2. Cardinality(S) = 0 <=> S = {}
  BY FS_EmptySet
<1>3. Cardinality(S) = 1 => \E x : S = {x}
  BY FS_Singleton
<1>4. Cardinality(S) = 0 \/ Cardinality(S) = 1
  BY <1>1
<1> QED
  BY <1>2, <1>3, <1>4

(* The first of one *)
LEMMA FirstOfOne ==
    ASSUME NEW list, NEW i \in Int
    PROVE  FirstOf(list, {i}) = list[i]
<1>1. (CHOOSE k \in {i} : \A j \in {i} : k <= j) = i
  OBVIOUS
<1> QED
  BY <1>1 DEF FirstOf

-----------------------------------------------------------------------------
(* The pairs of each flow *)

LEMMA TwoPairs ==
    ASSUME NEW p, NEW q
    PROVE  <<p, q>> = <<p>> \o <<q>>
<1>1. /\ <<p>> \in Seq({p, q}) /\ Len(<<p>>) = 1
      /\ <<q>> \in Seq({p, q}) /\ Len(<<q>>) = 1
      /\ <<p, q>> \in Seq({p, q}) /\ Len(<<p, q>>) = 2
  OBVIOUS
<1>2. /\ <<p>> \o <<q>> \in Seq({p, q})
      /\ Len(<<p>> \o <<q>>) = 2
      /\ \A i \in 1..2 : (<<p>> \o <<q>>)[i] = IF i <= 1 THEN <<p>>[i] ELSE <<q>>[i - 1]
  BY <1>1, ConcatProperties
<1>3. (<<p>> \o <<q>>)[1] = p /\ (<<p>> \o <<q>>)[2] = q
  BY <1>2
<1> DEFINE s == <<p>> \o <<q>>
<1>4. s \in [1..2 -> {p, q}]
  BY <1>2, LenProperties
<1> HIDE DEF s
<1>5. s = <<s[1], s[2]>>
  BY <1>4
<1> QED
  BY <1>3, <1>5 DEF s

(* The pairs ui_order shows *)
OrderPairSet(metadata, actions) ==
    LET orders == OrdersOf(actions)
        limit  == FirstOf(orders, LimitsIn(orders))
        tps    == TpsIn(orders)
        sls    == SlsIn(orders)
        market == limit.limit.tif = "IOC"
        levers == CtxHasAction(actions, "UPDATE_LEVERAGE")
    IN  {<<"Operation", IF market THEN "Market" ELSE "Limit",
           ShortLong(limit), metadata.ticker>>}
        \cup (IF ~market THEN {<<"Limit Price", limit.limit_px>>} ELSE {})
        \cup (IF metadata.has_margin THEN {<<"Margin", metadata.margin>>} ELSE {})
        \cup (IF levers THEN {<<"Leverage", LeverageOf(actions).leverage>>} ELSE {})
        \cup (IF tps # {}
              THEN {<<"Take Profit", FirstOf(orders, tps).trigger.trigger_px>>}
              ELSE {})
        \cup (IF sls # {}
              THEN {<<"Stop Loss", FirstOf(orders, sls).trigger.trigger_px>>}
              ELSE {})
        \cup {<<"Size", limit.sz, metadata.ticker>>}

(* Of given items, how many ui_order shows *)
OrderTally(metadata, actions, items) ==
    LET orders == OrdersOf(actions)
        tps    == TpsIn(orders)
        sls    == SlsIn(orders)
        market == FirstOf(orders, LimitsIn(orders)).limit.tif = "IOC"
        levers == CtxHasAction(actions, "UPDATE_LEVERAGE")
    IN  One("Operation", items)
        + (IF ~market THEN One("Limit Price", items) ELSE 0)
        + (IF metadata.has_margin THEN One("Margin", items) ELSE 0)
        + (IF levers THEN One("Leverage", items) ELSE 0)
        + (IF tps # {} THEN One("Take Profit", items) ELSE 0)
        + (IF sls # {} THEN One("Stop Loss", items) ELSE 0)
        + One("Size", items)

(* The pairs of ui_order *)
LEMMA OrderPairs ==
    ASSUME NEW metadata, NEW actions, NEW items
    PROVE  LET pairs == UiOrder(metadata, actions).pairs
           IN  /\ IsList(pairs)
               /\ Range(pairs) = OrderPairSet(metadata, actions)
               /\ Count(pairs, items) = OrderTally(metadata, actions, items)
<1> DEFINE orders == OrdersOf(actions)
           limit  == FirstOf(orders, LimitsIn(orders))
           tps    == TpsIn(orders)
           sls    == SlsIn(orders)
           market == limit.limit.tif = "IOC"
           levers == CtxHasAction(actions, "UPDATE_LEVERAGE")
           p1 == <<"Operation", IF market THEN "Market" ELSE "Limit",
                   ShortLong(limit), metadata.ticker>>
           p2 == <<"Limit Price", limit.limit_px>>
           p3 == <<"Margin", metadata.margin>>
           p4 == <<"Leverage", LeverageOf(actions).leverage>>
           p5 == <<"Take Profit", FirstOf(orders, tps).trigger.trigger_px>>
           p6 == <<"Stop Loss", FirstOf(orders, sls).trigger.trigger_px>>
           p7 == <<"Size", limit.sz, metadata.ticker>>
           c2 == ~market
           c3 == metadata.has_margin
           c4 == levers
           c5 == tps # {}
           c6 == sls # {}
           s1 == <<p1>>
           s2 == PutWhen(s1, c2, p2)
           s3 == PutWhen(s2, c3, p3)
           s4 == PutWhen(s3, c4, p4)
           s5 == PutWhen(s4, c5, p5)
           s6 == PutWhen(s5, c6, p6)
           s7 == Put(s6, p7)
<1>1. UiOrder(metadata, actions).pairs = s7
  BY DEF UiOrder, ShowMargin, Put, PutWhen
<1>p1. p1[1] = "Operation"
  OBVIOUS
<1>p2. p2[1] = "Limit Price"
  OBVIOUS
<1>p3. p3[1] = "Margin"
  OBVIOUS
<1>p4. p4[1] = "Leverage"
  OBVIOUS
<1>p5. p5[1] = "Take Profit"
  OBVIOUS
<1>p6. p6[1] = "Stop Loss"
  OBVIOUS
<1>p7. p7[1] = "Size"
  OBVIOUS
<1> HIDE DEF p1, p2, p3, p4, p5, p6, p7, c2, c3, c4, c5, c6, s1, s2, s3, s4, s5, s6, s7
<1>l1. IsList(s1)
  BY Single DEF s1
<1>l2. IsList(s2)
  BY <1>l1, Extend DEF s2
<1>l3. IsList(s3)
  BY <1>l2, Extend DEF s3
<1>l4. IsList(s4)
  BY <1>l3, Extend DEF s4
<1>l5. IsList(s5)
  BY <1>l4, Extend DEF s5
<1>l6. IsList(s6)
  BY <1>l5, Extend DEF s6
<1>l7. IsList(s7)
  BY <1>l6, Add DEF s7
<1>s1. Range(s1) = {p1} /\ Count(s1, items) = One(p1[1], items)
  BY Single DEF s1
<1>s2. /\ Range(s2) = Range(s1) \cup (IF c2 THEN {p2} ELSE {})
       /\ Count(s2, items) = Count(s1, items) + (IF c2 THEN One(p2[1], items) ELSE 0)
  BY <1>l1, Extend DEF s2
<1>s3. /\ Range(s3) = Range(s2) \cup (IF c3 THEN {p3} ELSE {})
       /\ Count(s3, items) = Count(s2, items) + (IF c3 THEN One(p3[1], items) ELSE 0)
  BY <1>l2, Extend DEF s3
<1>s4. /\ Range(s4) = Range(s3) \cup (IF c4 THEN {p4} ELSE {})
       /\ Count(s4, items) = Count(s3, items) + (IF c4 THEN One(p4[1], items) ELSE 0)
  BY <1>l3, Extend DEF s4
<1>s5. /\ Range(s5) = Range(s4) \cup (IF c5 THEN {p5} ELSE {})
       /\ Count(s5, items) = Count(s4, items) + (IF c5 THEN One(p5[1], items) ELSE 0)
  BY <1>l4, Extend DEF s5
<1>s6. /\ Range(s6) = Range(s5) \cup (IF c6 THEN {p6} ELSE {})
       /\ Count(s6, items) = Count(s5, items) + (IF c6 THEN One(p6[1], items) ELSE 0)
  BY <1>l5, Extend DEF s6
<1>s7. /\ Range(s7) = Range(s6) \cup {p7}
       /\ Count(s7, items) = Count(s6, items) + One(p7[1], items)
  BY <1>l6, Add DEF s7
<1>q1. Count(s1, items) = One("Operation", items)
  BY <1>p1, <1>s1
<1>q2. Count(s2, items) = Count(s1, items) + (IF c2 THEN One("Limit Price", items) ELSE 0)
  BY <1>p2, <1>s2
<1>q3. Count(s3, items) = Count(s2, items) + (IF c3 THEN One("Margin", items) ELSE 0)
  BY <1>p3, <1>s3
<1>q4. Count(s4, items) = Count(s3, items) + (IF c4 THEN One("Leverage", items) ELSE 0)
  BY <1>p4, <1>s4
<1>q5. Count(s5, items) = Count(s4, items) + (IF c5 THEN One("Take Profit", items) ELSE 0)
  BY <1>p5, <1>s5
<1>q6. Count(s6, items) = Count(s5, items) + (IF c6 THEN One("Stop Loss", items) ELSE 0)
  BY <1>p6, <1>s6
<1>q7. Count(s7, items) = Count(s6, items) + One("Size", items)
  BY <1>p7, <1>s7
<1>2. Count(s7, items) =
        One("Operation", items)
        + (IF c2 THEN One("Limit Price", items) ELSE 0)
        + (IF c3 THEN One("Margin", items) ELSE 0)
        + (IF c4 THEN One("Leverage", items) ELSE 0)
        + (IF c5 THEN One("Take Profit", items) ELSE 0)
        + (IF c6 THEN One("Stop Loss", items) ELSE 0)
        + One("Size", items)
  BY <1>q1, <1>q2, <1>q3, <1>q4, <1>q5, <1>q6, <1>q7
<1>3. Range(s7) =
        {p1}
        \cup (IF c2 THEN {p2} ELSE {})
        \cup (IF c3 THEN {p3} ELSE {})
        \cup (IF c4 THEN {p4} ELSE {})
        \cup (IF c5 THEN {p5} ELSE {})
        \cup (IF c6 THEN {p6} ELSE {})
        \cup {p7}
  BY <1>s1, <1>s2, <1>s3, <1>s4, <1>s5, <1>s6, <1>s7
<1>4. Range(s7) = OrderPairSet(metadata, actions)
  BY <1>3 DEF OrderPairSet, p1, p2, p3, p4, p5, p6, p7, c2, c3, c4, c5, c6
<1>5. Count(s7, items) = OrderTally(metadata, actions, items)
  BY <1>2 DEF OrderTally, c2, c3, c4, c5, c6
<1> QED
  BY <1>1, <1>l7, <1>4, <1>5

(* The pairs ui_modify shows *)
ModifyPairSet(metadata, actions) ==
    LET edits    == CtxHasAction(actions, "BULK_MODIFY")
        requests == ModifyRequests(actions)
        tps      == TpsIn(OrdersIn(requests))
        sls      == SlsIn(OrdersIn(requests))
        tp       == FirstOf(requests, tps)
        sl       == FirstOf(requests, sls)
        any      == IF tps # {} THEN tp.order ELSE sl.order
    IN  {<<"Active Position", ShortLong(any), metadata.ticker>>}
        \cup (IF metadata.has_margin THEN {<<"Margin", metadata.margin>>} ELSE {})
        \cup (IF metadata.has_leverage THEN {<<"Leverage", metadata.leverage>>} ELSE {})
        \cup {<<"Size", any.sz, metadata.ticker>>}
        \cup (IF tps # {}
              THEN {<<"Take Profit", edits, tp.order.trigger.trigger_px>>}
              ELSE {})
        \cup (IF tps # {} /\ edits THEN {<<"TP Order ID", tp.oid>>} ELSE {})
        \cup (IF sls # {}
              THEN {<<"Stop Loss", edits, sl.order.trigger.trigger_px>>}
              ELSE {})
        \cup (IF sls # {} /\ edits THEN {<<"SL Order ID", sl.oid>>} ELSE {})

(* Of given items, how many ui_modify shows *)
ModifyTally(metadata, actions, items) ==
    LET edits    == CtxHasAction(actions, "BULK_MODIFY")
        requests == ModifyRequests(actions)
        tps      == TpsIn(OrdersIn(requests))
        sls      == SlsIn(OrdersIn(requests))
    IN  One("Active Position", items)
        + (IF metadata.has_margin THEN One("Margin", items) ELSE 0)
        + (IF metadata.has_leverage THEN One("Leverage", items) ELSE 0)
        + One("Size", items)
        + (IF tps # {} THEN One("Take Profit", items) ELSE 0)
        + (IF tps # {} /\ edits THEN One("TP Order ID", items) ELSE 0)
        + (IF sls # {} THEN One("Stop Loss", items) ELSE 0)
        + (IF sls # {} /\ edits THEN One("SL Order ID", items) ELSE 0)

(* The pairs of ui_modify *)
LEMMA ModifyPairs ==
    ASSUME NEW metadata, NEW actions, NEW items
    PROVE  LET pairs == UiModify(metadata, actions).pairs
           IN  /\ IsList(pairs)
               /\ Range(pairs) = ModifyPairSet(metadata, actions)
               /\ Count(pairs, items) = ModifyTally(metadata, actions, items)
<1> DEFINE edits    == CtxHasAction(actions, "BULK_MODIFY")
           requests == ModifyRequests(actions)
           tps      == TpsIn(OrdersIn(requests))
           sls      == SlsIn(OrdersIn(requests))
           tp       == FirstOf(requests, tps)
           sl       == FirstOf(requests, sls)
           any      == IF tps # {} THEN tp.order ELSE sl.order
           p1 == <<"Active Position", ShortLong(any), metadata.ticker>>
           p2 == <<"Margin", metadata.margin>>
           p3 == <<"Leverage", metadata.leverage>>
           p4 == <<"Size", any.sz, metadata.ticker>>
           p5 == <<"Take Profit", edits, tp.order.trigger.trigger_px>>
           p6 == <<"TP Order ID", tp.oid>>
           p7 == <<"Stop Loss", edits, sl.order.trigger.trigger_px>>
           p8 == <<"SL Order ID", sl.oid>>
           c2 == metadata.has_margin
           c3 == metadata.has_leverage
           c5 == tps # {}
           c6 == tps # {} /\ edits
           c7 == sls # {}
           c8 == sls # {} /\ edits
           s1 == <<p1>>
           s2 == PutWhen(s1, c2, p2)
           s3 == PutWhen(s2, c3, p3)
           s4 == Put(s3, p4)
           s5 == PutWhen(s4, c5, p5)
           s6 == PutWhen(s5, c6, p6)
           s7 == PutWhen(s6, c7, p7)
           s8 == PutWhen(s7, c8, p8)
<1>1. UiModify(metadata, actions).pairs = s8
  BY DEF UiModify, ShowMargin, ShowLeverage, Put, PutWhen
<1>p1. p1[1] = "Active Position"
  OBVIOUS
<1>p2. p2[1] = "Margin"
  OBVIOUS
<1>p3. p3[1] = "Leverage"
  OBVIOUS
<1>p4. p4[1] = "Size"
  OBVIOUS
<1>p5. p5[1] = "Take Profit"
  OBVIOUS
<1>p6. p6[1] = "TP Order ID"
  OBVIOUS
<1>p7. p7[1] = "Stop Loss"
  OBVIOUS
<1>p8. p8[1] = "SL Order ID"
  OBVIOUS
<1> HIDE DEF p1, p2, p3, p4, p5, p6, p7, p8, c2, c3, c5, c6, c7, c8,
             s1, s2, s3, s4, s5, s6, s7, s8
<1>l1. IsList(s1)
  BY Single DEF s1
<1>l2. IsList(s2)
  BY <1>l1, Extend DEF s2
<1>l3. IsList(s3)
  BY <1>l2, Extend DEF s3
<1>l4. IsList(s4)
  BY <1>l3, Add DEF s4
<1>l5. IsList(s5)
  BY <1>l4, Extend DEF s5
<1>l6. IsList(s6)
  BY <1>l5, Extend DEF s6
<1>l7. IsList(s7)
  BY <1>l6, Extend DEF s7
<1>l8. IsList(s8)
  BY <1>l7, Extend DEF s8
<1>s1. Range(s1) = {p1} /\ Count(s1, items) = One(p1[1], items)
  BY Single DEF s1
<1>s2. /\ Range(s2) = Range(s1) \cup (IF c2 THEN {p2} ELSE {})
       /\ Count(s2, items) = Count(s1, items) + (IF c2 THEN One(p2[1], items) ELSE 0)
  BY <1>l1, Extend DEF s2
<1>s3. /\ Range(s3) = Range(s2) \cup (IF c3 THEN {p3} ELSE {})
       /\ Count(s3, items) = Count(s2, items) + (IF c3 THEN One(p3[1], items) ELSE 0)
  BY <1>l2, Extend DEF s3
<1>s4. /\ Range(s4) = Range(s3) \cup {p4}
       /\ Count(s4, items) = Count(s3, items) + One(p4[1], items)
  BY <1>l3, Add DEF s4
<1>s5. /\ Range(s5) = Range(s4) \cup (IF c5 THEN {p5} ELSE {})
       /\ Count(s5, items) = Count(s4, items) + (IF c5 THEN One(p5[1], items) ELSE 0)
  BY <1>l4, Extend DEF s5
<1>s6. /\ Range(s6) = Range(s5) \cup (IF c6 THEN {p6} ELSE {})
       /\ Count(s6, items) = Count(s5, items) + (IF c6 THEN One(p6[1], items) ELSE 0)
  BY <1>l5, Extend DEF s6
<1>s7. /\ Range(s7) = Range(s6) \cup (IF c7 THEN {p7} ELSE {})
       /\ Count(s7, items) = Count(s6, items) + (IF c7 THEN One(p7[1], items) ELSE 0)
  BY <1>l6, Extend DEF s7
<1>s8. /\ Range(s8) = Range(s7) \cup (IF c8 THEN {p8} ELSE {})
       /\ Count(s8, items) = Count(s7, items) + (IF c8 THEN One(p8[1], items) ELSE 0)
  BY <1>l7, Extend DEF s8
<1>q1. Count(s1, items) = One("Active Position", items)
  BY <1>p1, <1>s1
<1>q2. Count(s2, items) = Count(s1, items) + (IF c2 THEN One("Margin", items) ELSE 0)
  BY <1>p2, <1>s2
<1>q3. Count(s3, items) = Count(s2, items) + (IF c3 THEN One("Leverage", items) ELSE 0)
  BY <1>p3, <1>s3
<1>q4. Count(s4, items) = Count(s3, items) + One("Size", items)
  BY <1>p4, <1>s4
<1>q5. Count(s5, items) = Count(s4, items) + (IF c5 THEN One("Take Profit", items) ELSE 0)
  BY <1>p5, <1>s5
<1>q6. Count(s6, items) = Count(s5, items) + (IF c6 THEN One("TP Order ID", items) ELSE 0)
  BY <1>p6, <1>s6
<1>q7. Count(s7, items) = Count(s6, items) + (IF c7 THEN One("Stop Loss", items) ELSE 0)
  BY <1>p7, <1>s7
<1>q8. Count(s8, items) = Count(s7, items) + (IF c8 THEN One("SL Order ID", items) ELSE 0)
  BY <1>p8, <1>s8
<1>2. Count(s8, items) =
        One("Active Position", items)
        + (IF c2 THEN One("Margin", items) ELSE 0)
        + (IF c3 THEN One("Leverage", items) ELSE 0)
        + One("Size", items)
        + (IF c5 THEN One("Take Profit", items) ELSE 0)
        + (IF c6 THEN One("TP Order ID", items) ELSE 0)
        + (IF c7 THEN One("Stop Loss", items) ELSE 0)
        + (IF c8 THEN One("SL Order ID", items) ELSE 0)
  BY <1>q1, <1>q2, <1>q3, <1>q4, <1>q5, <1>q6, <1>q7, <1>q8
<1>3. Range(s8) =
        {p1}
        \cup (IF c2 THEN {p2} ELSE {})
        \cup (IF c3 THEN {p3} ELSE {})
        \cup {p4}
        \cup (IF c5 THEN {p5} ELSE {})
        \cup (IF c6 THEN {p6} ELSE {})
        \cup (IF c7 THEN {p7} ELSE {})
        \cup (IF c8 THEN {p8} ELSE {})
  BY <1>s1, <1>s2, <1>s3, <1>s4, <1>s5, <1>s6, <1>s7, <1>s8
<1>4. Range(s8) = ModifyPairSet(metadata, actions)
  BY <1>3 DEF ModifyPairSet, p1, p2, p3, p4, p5, p6, p7, p8, c2, c3, c5, c6, c7, c8
<1>5. Count(s8, items) = ModifyTally(metadata, actions, items)
  BY <1>2 DEF ModifyTally, c2, c3, c5, c6, c7, c8
<1> QED
  BY <1>1, <1>l8, <1>4, <1>5

(* The pairs of ui_update_margin *)
LEMMA UpdateMarginPairs ==
    ASSUME NEW metadata, NEW actions, NEW items
    PROVE  LET pairs == UiUpdateMargin(metadata, actions).pairs
               update    == MarginOf(actions)
               magnitude == IF update.ntli < 0 THEN -update.ntli ELSE update.ntli
               side      == IF update.is_buy THEN "Long" ELSE "Short"
           IN  /\ IsList(pairs)
               /\ Range(pairs) =
                      {<<"Active Position", side, metadata.ticker>>}
                      \cup {<<"New Margin", magnitude>>}
                      \cup (IF metadata.has_leverage THEN {<<"Leverage", metadata.leverage>>} ELSE {})
               /\ Count(pairs, items) =
                      One("Active Position", items)
                      + One("New Margin", items)
                      + (IF metadata.has_leverage THEN One("Leverage", items) ELSE 0)
<1> DEFINE update    == MarginOf(actions)
           magnitude == IF update.ntli < 0 THEN -update.ntli ELSE update.ntli
           side      == IF update.is_buy THEN "Long" ELSE "Short"
           p1 == <<"Active Position", side, metadata.ticker>>
           p2 == <<"New Margin", magnitude>>
           p3 == <<"Leverage", metadata.leverage>>
           c3 == metadata.has_leverage
           s1 == <<p1>>
           s2 == Put(s1, p2)
           s3 == PutWhen(s2, c3, p3)
<1>1. UiUpdateMargin(metadata, actions).pairs = s3
  <2>1. <<p1, p2>> = Put(s1, p2)
    BY TwoPairs DEF Put
  <2>2. UiUpdateMargin(metadata, actions).pairs
            = <<p1, p2>> \o When(c3, <<p3>>)
    BY DEF UiUpdateMargin, ShowLeverage
  <2> QED
    BY <2>1, <2>2 DEF PutWhen
<1>p1. p1[1] = "Active Position"
  OBVIOUS
<1>p2. p2[1] = "New Margin"
  OBVIOUS
<1>p3. p3[1] = "Leverage"
  OBVIOUS
<1> HIDE DEF p1, p2, p3, c3, s1, s2, s3
<1>l1. IsList(s1)
  BY Single DEF s1
<1>l2. IsList(s2)
  BY <1>l1, Add DEF s2
<1>l3. IsList(s3)
  BY <1>l2, Extend DEF s3
<1>s1. Range(s1) = {p1} /\ Count(s1, items) = One(p1[1], items)
  BY Single DEF s1
<1>s2. /\ Range(s2) = Range(s1) \cup {p2}
       /\ Count(s2, items) = Count(s1, items) + One(p2[1], items)
  BY <1>l1, Add DEF s2
<1>s3. /\ Range(s3) = Range(s2) \cup (IF c3 THEN {p3} ELSE {})
       /\ Count(s3, items) = Count(s2, items) + (IF c3 THEN One(p3[1], items) ELSE 0)
  BY <1>l2, Extend DEF s3
<1>2. Count(s3, items) =
        One("Active Position", items)
        + One("New Margin", items)
        + (IF c3 THEN One("Leverage", items) ELSE 0)
  BY <1>p1, <1>p2, <1>p3,
     <1>s1, <1>s2, <1>s3
<1>3. Range(s3) =
        {p1}
        \cup {p2}
        \cup (IF c3 THEN {p3} ELSE {})
  BY <1>s1, <1>s2, <1>s3
<1> QED
  BY <1>1, <1>l3, <1>2, <1>3
     DEF p1, p2, p3, c3

(* The order ids of a cancellation, in the order of its requests *)
LEMMA CancelOids ==
    ASSUME NEW actions, IsList(CancelsOf(actions)), NEW items
    PROVE  LET cancels == CancelsOf(actions)
               pairs   == ShowCancelOids(actions)
           IN  /\ IsList(pairs)
               /\ Len(pairs) = Len(cancels)
               /\ \A i \in 1..Len(cancels) : pairs[i] = <<"Order ID", cancels[i].oid>>
               /\ Count(pairs, items) = (IF "Order ID" \in items THEN Len(cancels) ELSE 0)
<1> DEFINE cancels == CancelsOf(actions)
           pairs   == ShowCancelOids(actions)
           n       == Len(cancels)
<1>1. n \in Nat /\ DOMAIN cancels = 1..n
  BY ListProperties
<1>2. pairs = [i \in 1..n |-> <<"Order ID", cancels[i].oid>>]
  BY <1>1 DEF ShowCancelOids
<1> HIDE DEF cancels, pairs, n
<1>3. DOMAIN pairs = 1..n /\ \A i \in 1..n : pairs[i][1] = "Order ID"
  BY <1>2
<1>4. pairs = [i \in DOMAIN cancels |-> pairs[i]]
  BY <1>1, <1>2
<1>5. IsList(pairs) /\ Len(pairs) = n
  BY <1>4, Mapped DEF cancels, n
<1>6. CASE "Order ID" \in items
  <2>1. Under(pairs, items) = 1..n
    BY <1>3, <1>6 DEF Under
  <2>2. Cardinality(1..n) = n
    BY <1>1, FS_Interval
  <2> QED
    BY <1>2, <1>5, <1>6, <2>1, <2>2 DEF Count, cancels, pairs, n
<1>7. CASE "Order ID" \notin items
  <2>1. Under(pairs, items) = {}
    BY <1>3, <1>7 DEF Under
  <2> QED
    BY <1>2, <1>5, <1>7, <2>1, FS_EmptySet DEF Count, cancels, pairs, n
<1> QED
  BY <1>6, <1>7

(* What close and cancel reviews begin with: a pair, and what the metadata *)
(* says of the position                                                    *)
Headed(metadata, p) == <<p>> \o ShowMargin(metadata) \o ShowLeverage(metadata)

LEMMA HeadedPairs ==
    ASSUME NEW metadata, NEW p, NEW items
    PROVE  /\ IsList(Headed(metadata, p))
           /\ Range(Headed(metadata, p)) =
                  {p}
                  \cup (IF metadata.has_margin THEN {<<"Margin", metadata.margin>>} ELSE {})
                  \cup (IF metadata.has_leverage THEN {<<"Leverage", metadata.leverage>>} ELSE {})
           /\ Count(Headed(metadata, p), items) =
                  One(p[1], items)
                  + (IF metadata.has_margin THEN One("Margin", items) ELSE 0)
                  + (IF metadata.has_leverage THEN One("Leverage", items) ELSE 0)
<1> DEFINE p2 == <<"Margin", metadata.margin>>
           p3 == <<"Leverage", metadata.leverage>>
           c2 == metadata.has_margin
           c3 == metadata.has_leverage
           s1 == <<p>>
           s2 == PutWhen(s1, c2, p2)
           s3 == PutWhen(s2, c3, p3)
<1>1. Headed(metadata, p) = s3
  BY DEF Headed, ShowMargin, ShowLeverage, PutWhen
<1>p2. p2[1] = "Margin"
  OBVIOUS
<1>p3. p3[1] = "Leverage"
  OBVIOUS
<1> HIDE DEF p2, p3, c2, c3, s1, s2, s3
<1>l1. IsList(s1)
  BY Single DEF s1
<1>l2. IsList(s2)
  BY <1>l1, Extend DEF s2
<1>l3. IsList(s3)
  BY <1>l2, Extend DEF s3
<1>s1. Range(s1) = {p} /\ Count(s1, items) = One(p[1], items)
  BY Single DEF s1
<1>s2. /\ Range(s2) = Range(s1) \cup (IF c2 THEN {p2} ELSE {})
       /\ Count(s2, items) = Count(s1, items) + (IF c2 THEN One(p2[1], items) ELSE 0)
  BY <1>l1, Extend DEF s2
<1>s3. /\ Range(s3) = Range(s2) \cup (IF c3 THEN {p3} ELSE {})
       /\ Count(s3, items) = Count(s2, items) + (IF c3 THEN One(p3[1], items) ELSE 0)
  BY <1>l2, Extend DEF s3
<1>2. Count(s3, items) = One(p[1], items) + (IF c2 THEN One("Margin", items) ELSE 0)
                                          + (IF c3 THEN One("Leverage", items) ELSE 0)
  BY <1>p2, <1>p3, <1>s1, <1>s2, <1>s3
<1>3. Range(s3) = {p} \cup (IF c2 THEN {p2} ELSE {}) \cup (IF c3 THEN {p3} ELSE {})
  BY <1>s1, <1>s2, <1>s3
<1> QED
  BY <1>1, <1>l3, <1>2, <1>3 DEF p2, p3, c2, c3

(* The pairs of ui_close *)
LEMMA ClosePairs ==
    ASSUME NEW metadata, NEW actions, NEW items
    PROVE  LET pairs == UiClose(metadata, actions).pairs
               limit == OrdersOf(actions)[1]
           IN  /\ IsList(pairs)
               /\ Range(pairs) =
                      {<<"Position to close", ShortLong(limit), metadata.ticker>>}
                      \cup (IF metadata.has_margin THEN {<<"Margin", metadata.margin>>} ELSE {})
                      \cup (IF metadata.has_leverage THEN {<<"Leverage", metadata.leverage>>} ELSE {})
                      \cup {<<"Size", limit.sz, metadata.ticker>>}
               /\ Count(pairs, items) =
                      One("Position to close", items)
                      + (IF metadata.has_margin THEN One("Margin", items) ELSE 0)
                      + (IF metadata.has_leverage THEN One("Leverage", items) ELSE 0)
                      + One("Size", items)
<1> DEFINE limit == OrdersOf(actions)[1]
           p == <<"Position to close", ShortLong(limit), metadata.ticker>>
           q == <<"Size", limit.sz, metadata.ticker>>
           s == Headed(metadata, p)
<1>1. UiClose(metadata, actions).pairs = Put(s, q)
  BY DEF UiClose, Headed, Put
<1>2. p[1] = "Position to close"
  OBVIOUS
<1>3. q[1] = "Size"
  OBVIOUS
<1> HIDE DEF p, q, s
<1>4. IsList(s)
  BY HeadedPairs DEF s
<1>5. /\ IsList(Put(s, q))
      /\ Range(Put(s, q)) = Range(s) \cup {q}
      /\ Count(Put(s, q), items) = Count(s, items) + One(q[1], items)
  BY <1>4, Add
<1>6. Range(s) = {p}
             \cup (IF metadata.has_margin THEN {<<"Margin", metadata.margin>>} ELSE {})
             \cup (IF metadata.has_leverage THEN {<<"Leverage", metadata.leverage>>} ELSE {})
  BY HeadedPairs DEF s
<1>7. Count(s, items) = One(p[1], items)
             + (IF metadata.has_margin THEN One("Margin", items) ELSE 0)
             + (IF metadata.has_leverage THEN One("Leverage", items) ELSE 0)
  BY HeadedPairs DEF s
<1> QED
  BY <1>1, <1>2, <1>3, <1>5, <1>6, <1>7 DEF p, q

(* The pairs of a cancellation *)
LEMMA CancelPairs ==
    ASSUME NEW metadata, NEW actions, IsList(CancelsOf(actions)), NEW items
    PROVE  LET head == Headed(metadata, <<"Operation", metadata.op_type, metadata.ticker>>)
               oids == ShowCancelOids(actions)
           IN  /\ UiCancel(metadata, actions).pairs = head \o oids
               /\ IsList(head) /\ IsList(oids)
               /\ IsList(head \o oids)
               /\ Range(head \o oids) = Range(head) \cup Range(oids)
               /\ Count(head \o oids, items) = Count(head, items) + Count(oids, items)
<1> DEFINE head == Headed(metadata, <<"Operation", metadata.op_type, metadata.ticker>>)
           oids == ShowCancelOids(actions)
<1>1. UiCancel(metadata, actions).pairs = head \o oids
  BY DEF UiCancel, Headed
<1> HIDE DEF head, oids
<1>2. IsList(head) /\ IsList(oids)
  BY HeadedPairs, CancelOids DEF head, oids
<1>3. /\ IsList(head \o oids)
      /\ Range(head \o oids) = Range(head) \cup Range(oids)
      /\ Count(head \o oids, items) = Count(head, items) + Count(oids, items)
  BY <1>2, Concat, CountConcat
<1> QED
  BY <1>1, <1>2, <1>3 DEF head, oids

-----------------------------------------------------------------------------
(* The whole screen: the protocol, the network and the pairs of the flow *)

Top(metadata) ==
    << <<"Protocol">> >> \o When(metadata.network = "TESTNET", << <<"Network", "Testnet">> >>)

(* The pairs handle_ui puts above those of the flow *)
LEMMA TopPairs ==
    ASSUME NEW metadata, NEW items
    PROVE  /\ IsList(Top(metadata))
           /\ Range(Top(metadata)) \subseteq {<<"Protocol">>, <<"Network", "Testnet">>}
           /\ Count(Top(metadata), items) =
                  One("Protocol", items)
                  + (IF metadata.network = "TESTNET" THEN One("Network", items) ELSE 0)
<1> DEFINE p1 == <<"Protocol">>
           p2 == <<"Network", "Testnet">>
           c2 == metadata.network = "TESTNET"
           s1 == <<p1>>
<1>1. Top(metadata) = PutWhen(s1, c2, p2)
  BY DEF Top, PutWhen
<1>p1. p1[1] = "Protocol"
  OBVIOUS
<1>p2. p2[1] = "Network"
  OBVIOUS
<1> HIDE DEF p1, p2, c2, s1
<1>2. IsList(s1) /\ Range(s1) = {p1} /\ Count(s1, items) = One(p1[1], items)
  BY Single DEF s1
<1>3. IsList(s1)
  BY <1>2
<1>4. /\ IsList(PutWhen(s1, c2, p2))
      /\ Range(PutWhen(s1, c2, p2)) = Range(s1) \cup (IF c2 THEN {p2} ELSE {})
      /\ Count(PutWhen(s1, c2, p2), items)
            = Count(s1, items) + (IF c2 THEN One(p2[1], items) ELSE 0)
  BY <1>3, Extend
<1>5. Count(PutWhen(s1, c2, p2), items)
          = One("Protocol", items) + (IF c2 THEN One("Network", items) ELSE 0)
  BY <1>p1, <1>p2, <1>2, <1>4
<1>6. Range(PutWhen(s1, c2, p2)) \subseteq {p1, p2}
  BY <1>2, <1>4
<1> QED
  BY <1>1, <1>4, <1>5, <1>6 DEF p1, p2, c2

(* A flow of handle_ui, chosen by the operation *)
Flow(metadata, actions) ==
    CASE metadata.op_type = "ORDER"         -> UiOrder(metadata, actions)
      [] metadata.op_type = "MODIFY"        -> UiModify(metadata, actions)
      [] metadata.op_type = "CLOSE"         -> UiClose(metadata, actions)
      [] metadata.op_type = "UPDATE_MARGIN" -> UiUpdateMargin(metadata, actions)
      [] OTHER                              -> UiCancel(metadata, actions)

(* A screen is that of its flow below those pairs. *)
LEMMA ScreenIsFlow ==
    ASSUME NEW metadata, NEW actions
    PROVE  Screen(metadata, actions) =
               [pairs  |-> Top(metadata) \o Flow(metadata, actions).pairs,
                intent |-> Flow(metadata, actions).intent]
<1>1. Flow(metadata, actions) =
          [pairs  |-> Flow(metadata, actions).pairs,
           intent |-> Flow(metadata, actions).intent]
  BY DEF Flow, UiOrder, UiModify, UiClose, UiUpdateMargin, UiCancel
<1>2. Screen(metadata, actions) =
          [Flow(metadata, actions) EXCEPT
              !.pairs = Top(metadata) \o Flow(metadata, actions).pairs]
  BY DEF Screen, Flow, Top
<1> HIDE DEF Flow
<1> QED
  BY <1>1, <1>2

(* All the pairs of a screen *)
LEMMA ScreenPairs ==
    ASSUME NEW metadata, NEW actions, NEW items,
           IsList(Flow(metadata, actions).pairs)
    PROVE  /\ IsList(Screen(metadata, actions).pairs)
           /\ Range(Screen(metadata, actions).pairs)
                  = Range(Top(metadata)) \cup Range(Flow(metadata, actions).pairs)
           /\ Count(Screen(metadata, actions).pairs, items)
                  = Count(Top(metadata), items) + Count(Flow(metadata, actions).pairs, items)
<1>1. Screen(metadata, actions).pairs = Top(metadata) \o Flow(metadata, actions).pairs
  BY ScreenIsFlow
<1>2. IsList(Top(metadata))
  BY TopPairs
<1> QED
  BY <1>1, <1>2, Concat, CountConcat
=============================================================================
