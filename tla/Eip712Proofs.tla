---------------------------- MODULE Eip712Proofs ----------------------------
(***************************************************************************)
(* Proofs about one signature, for every set of requests.                  *)
(*                                                                         *)
(* The buffer: an accepted action always fits it; the lemmas bound the     *)
(* bytes of a header, of one request and of a trailer, and the invariant   *)
(* counts the requests written. What is written is one MessagePack value,  *)
(* takes the bytes its offset says, is refused only if it is too long, and *)
(* is never what another action is written as. Sums and items grow request *)
(* by request: their lemmas count up from none to all of them. Items are   *)
(* compared from the front, where each part tells how long it is.          *)
(*                                                                         *)
(* The hashes: a digest determines what was asked to be signed; the terms  *)
(* are injective, kind by kind, and the steps compute the digest of the    *)
(* request they began with. The words: they are the encoding of the types  *)
(* they begin with.                                                        *)
(***************************************************************************)
EXTENDS Eip712, SequenceTheorems, WellFoundedInduction, TLAPS

-----------------------------------------------------------------------------
(* The buffer: how much the parts of an action may take *)

HeaderBound(a) == IF a.type \in {"BULK_ORDER", "BULK_MODIFY", "BULK_CANCEL"} THEN 30 ELSE 63

RequestBound(a) ==
    IF a.type = "BULK_ORDER" THEN 166 ELSE IF a.type = "BULK_MODIFY" THEN 186 ELSE 23

TrailerBound(a) == IF a.type = "BULK_ORDER" THEN 88 ELSE 0

Accepted(a) ==
    /\ IsParsed(a)
    /\ a.type \in SerializedTypes
    /\ \E r \in Requests : ParseBody(a, r.metadata)

-----------------------------------------------------------------------------
(* What the encoder makes of integers, counts and numeric texts *)

LEMMA NumWidthBound == ASSUME NEW value PROVE NumWidth(value) \in 1..9
  <1> DEFINE p == value \in -32..127
             q == value \in -128..255
             r == value \in -32768..65535
             t == value \in -(U32Limit \div 2)..(U32Limit - 1)
  <1>1. NumWidth(value) = IF p THEN 1 ELSE IF q THEN 2 ELSE IF r THEN 3 ELSE IF t THEN 5 ELSE 9
    BY DEF NumWidth
  <1> HIDE DEF p, q, r, t
  <1> QED
    BY <1>1

LEMMA CountWidthBound == ASSUME NEW count PROVE CountWidth(count) \in 1..3
  <1>1. CountWidth(count) \in {1, 3}
    BY Zenon DEF CountWidth
  <1> QED
    BY <1>1

LEMMA NumericTextBound ==
  ASSUME NEW text \in NumericTexts PROVE TextSize(text) \in 2..22
  BY NumericTextsAssumption DEF TextSize, TextWidth

(* What the fields of an order may be *)
LEMMA OrderFields ==
  ASSUME NEW order \in OrderRequests
  PROVE  /\ order.asset \in Nat
         /\ order.is_buy \in BOOLEAN /\ order.reduce_only \in BOOLEAN
         /\ order.limit_px \in NumericTexts /\ order.sz \in NumericTexts
         /\ order.cloid \in Cloids \cup {Absent}
         /\ order.order_type \in {"LIMIT", "TRIGGER"}
         /\ order.order_type = "LIMIT" => order \in LimitOrders
         /\ order.order_type # "LIMIT" =>
                order \in TriggerOrders /\ order.trigger.trigger_px \in NumericTexts
  <1>1. CASE order \in LimitOrders
    BY <1>1 DEF LimitOrders
  <1>2. CASE order \in TriggerOrders
    BY <1>2 DEF TriggerOrders
  <1> QED
    BY <1>1, <1>2 DEF OrderRequests

LEMMA OrderSizeBound ==
  ASSUME NEW order \in OrderRequests PROVE OrderSize(order) \in 0..166
  <1>1. NumWidth(order.asset) \in 1..9
    BY NumWidthBound
  <1>2. TextSize(order.limit_px) \in 2..22 /\ TextSize(order.sz) \in 2..22
    BY OrderFields, NumericTextBound
  <1>3. order.order_type # "LIMIT" => TextSize(order.trigger.trigger_px) \in 2..22
    BY OrderFields, NumericTextBound
  <1> QED
    BY <1>1, <1>2, <1>3 DEF OrderSize

-----------------------------------------------------------------------------
(* The parts of an accepted action *)

LEMMA HeaderSizeBound ==
  ASSUME NEW a, Accepted(a) PROVE HeaderSize(a) \in 0..HeaderBound(a)
  <1>1. a.type \in SerializedTypes
    BY DEF Accepted
  <1>2. CountWidth(Len(RequestsOf(a))) \in 1..3
    BY CountWidthBound
  <1>3. /\ NumWidth(a.body.asset) \in 1..9
        /\ NumWidth(a.body.leverage) \in 1..9
        /\ NumWidth(a.body.ntli) \in 1..9
    BY NumWidthBound
  <1>4. CASE a.type = "BULK_ORDER"
    BY <1>2, <1>4 DEF HeaderSize, HeaderBound
  <1>5. CASE a.type = "BULK_MODIFY"
    BY <1>2, <1>5 DEF HeaderSize, HeaderBound
  <1>6. CASE a.type = "BULK_CANCEL"
    BY <1>2, <1>6 DEF HeaderSize, HeaderBound
  <1>7. CASE a.type = "UPDATE_LEVERAGE"
    BY <1>3, <1>7 DEF HeaderSize, HeaderBound
  <1>8. CASE a.type = "UPDATE_ISOLATED_MARGIN"
    BY <1>3, <1>8 DEF HeaderSize, HeaderBound
  <1> QED
    BY <1>1, <1>4, <1>5, <1>6, <1>7, <1>8 DEF SerializedTypes

LEMMA RequestCount ==
  ASSUME NEW a, Accepted(a)
  PROVE  /\ Len(RequestsOf(a)) \in 0..BulkMaxSize
         /\ Len(RequestsOf(a)) # 0 => a.type \in {"BULK_ORDER", "BULK_MODIFY", "BULK_CANCEL"}
  <1>1. CASE a.type = "BULK_ORDER"
    BY <1>1, BulkMaxSizeAssumption
    DEF Accepted, RequestsOf, ParseBody, ParseBulkOrder, BulkSizeFits
  <1>2. CASE a.type = "BULK_MODIFY"
    BY <1>2, BulkMaxSizeAssumption
    DEF Accepted, RequestsOf, ParseBody, ParseBulkModify, BulkSizeFits
  <1>3. CASE a.type = "BULK_CANCEL"
    BY <1>3, BulkMaxSizeAssumption
    DEF Accepted, RequestsOf, ParseBody, ParseBulkCancel, BulkSizeFits
  <1>4. CASE a.type \notin {"BULK_ORDER", "BULK_MODIFY", "BULK_CANCEL"}
    BY <1>4, BulkMaxSizeAssumption DEF RequestsOf
  <1> QED
    BY <1>1, <1>2, <1>3, <1>4

(* What the requests of an accepted action may be *)
LEMMA RequestFields ==
  ASSUME NEW a, IsParsed(a), NEW i \in 1..Len(RequestsOf(a))
  PROVE  /\ a.type = "BULK_ORDER" => a.body.orders[i] \in OrderRequests
         /\ a.type = "BULK_MODIFY" =>
                /\ a.body.modifies[i] \in [oid : Nat, order : OrderRequests]
                /\ a.body.modifies[i].order \in OrderRequests
         /\ a.type = "BULK_CANCEL" => a.body.cancels[i] \in [asset : Nat, oid : Nat]
  <1>1. ASSUME a.type = "BULK_ORDER" PROVE a.body.orders[i] \in OrderRequests
    <2>1. a.body.orders \in Seq(OrderRequests) /\ i \in 1..Len(a.body.orders)
      BY <1>1 DEF IsParsed, RequestsOf, BulkOrders
    <2> QED
      BY <2>1, ElementOfSeq
  <1>2. ASSUME a.type = "BULK_MODIFY"
        PROVE  /\ a.body.modifies[i] \in [oid : Nat, order : OrderRequests]
               /\ a.body.modifies[i].order \in OrderRequests
    <2>1. /\ a.body.modifies \in Seq([oid : Nat, order : OrderRequests])
          /\ i \in 1..Len(a.body.modifies)
      BY <1>2 DEF IsParsed, RequestsOf, BulkModifies
    <2>2. a.body.modifies[i] \in [oid : Nat, order : OrderRequests]
      BY <2>1, ElementOfSeq
    <2> QED
      BY <2>2
  <1>3. ASSUME a.type = "BULK_CANCEL" PROVE a.body.cancels[i] \in [asset : Nat, oid : Nat]
    <2>1. a.body.cancels \in Seq([asset : Nat, oid : Nat]) /\ i \in 1..Len(a.body.cancels)
      BY <1>3 DEF IsParsed, RequestsOf, BulkCancels
    <2> QED
      BY <2>1, ElementOfSeq
  <1> QED
    BY <1>1, <1>2, <1>3

LEMMA RequestSizeBound ==
  ASSUME NEW a, Accepted(a), NEW i \in 1..Len(RequestsOf(a))
  PROVE  RequestSize(a, i) \in 0..RequestBound(a)
  <1>1. IsParsed(a)
    BY DEF Accepted
  <1>2. a.type \in {"BULK_ORDER", "BULK_MODIFY", "BULK_CANCEL"}
    BY RequestCount
  <1>3. CASE a.type = "BULK_ORDER"
    <2>1. a.body.orders[i] \in OrderRequests
      BY <1>1, <1>3, RequestFields
    <2>2. OrderSize(a.body.orders[i]) \in 0..166
      BY <2>1, OrderSizeBound
    <2> QED
      BY <1>3, <2>2 DEF RequestSize, RequestBound
  <1>4. CASE a.type = "BULK_MODIFY"
    <2>1. a.body.modifies[i].order \in OrderRequests
      BY <1>1, <1>4, RequestFields
    <2>2. OrderSize(a.body.modifies[i].order) \in 0..166
      BY <2>1, OrderSizeBound
    <2>3. NumWidth(a.body.modifies[i].oid) \in 1..9
      BY NumWidthBound
    <2>4. RequestSize(a, i) = 11 + NumWidth(a.body.modifies[i].oid)
                              + OrderSize(a.body.modifies[i].order)
      BY <1>4 DEF RequestSize
    <2>5. RequestBound(a) = 186
      BY <1>4 DEF RequestBound
    <2>6. \A x \in 1..9, y \in 0..166 : 11 + x + y \in 0..186
      OBVIOUS
    <2>7. 11 + NumWidth(a.body.modifies[i].oid) + OrderSize(a.body.modifies[i].order) \in 0..186
      BY <2>2, <2>3, <2>6
    <2> QED
      BY <2>4, <2>5, <2>7
  <1>5. CASE a.type = "BULK_CANCEL"
    <2>1. NumWidth(a.body.cancels[i].asset) \in 1..9 /\ NumWidth(a.body.cancels[i].oid) \in 1..9
      BY NumWidthBound
    <2>2. RequestSize(a, i)
            = 5 + NumWidth(a.body.cancels[i].asset) + NumWidth(a.body.cancels[i].oid)
      BY <1>5 DEF RequestSize
    <2>3. RequestBound(a) = 23
      BY <1>5 DEF RequestBound
    <2>4. \A x \in 1..9, y \in 1..9 : 5 + x + y \in 0..23
      OBVIOUS
    <2>5. 5 + NumWidth(a.body.cancels[i].asset) + NumWidth(a.body.cancels[i].oid) \in 0..23
      BY <2>1, <2>4
    <2> QED
      BY <2>2, <2>3, <2>5
  <1> QED
    BY <1>2, <1>3, <1>4, <1>5

LEMMA TrailerSizeBound ==
  ASSUME NEW a, Accepted(a) PROVE TrailerSize(a) \in 0..TrailerBound(a)
  <1>1. CASE a.type = "BULK_ORDER"
    <2>1. GroupingSize(a.body.grouping) \in 3..13
      BY <1>1 DEF Accepted, IsParsed, BulkOrders, GroupingSize
    <2>2. NumWidth(a.body.builder.fee) \in 1..9
      BY NumWidthBound
    <2> QED
      BY <1>1, <2>1, <2>2 DEF TrailerSize, TrailerBound
  <1>2. CASE a.type # "BULK_ORDER"
    BY <1>2 DEF TrailerSize, TrailerBound
  <1> QED
    BY <1>1, <1>2

(* n requests and a trailer fit, whatever the type. *)
LEMMA Capacity ==
  ASSUME BufferHoldsLargest, capacity \in Nat, NEW a, Accepted(a), NEW n \in 0..Len(RequestsOf(a))
  PROVE  HeaderBound(a) + n * RequestBound(a) + TrailerBound(a) <= capacity
  <1>1. n \in 0..BulkMaxSize /\ (n # 0 => a.type \in {"BULK_ORDER", "BULK_MODIFY", "BULK_CANCEL"})
    BY RequestCount, BulkMaxSizeAssumption
  <1>2. BulkMaxSize \in Nat /\ capacity \in Nat
    BY BulkMaxSizeAssumption
  <1>3. CASE a.type = "BULK_ORDER"
    BY <1>1, <1>2, <1>3 DEF BufferHoldsLargest, HeaderBound, RequestBound, TrailerBound
  <1>4. CASE a.type = "BULK_MODIFY"
    BY <1>1, <1>2, <1>4 DEF BufferHoldsLargest, HeaderBound, RequestBound, TrailerBound
  <1>5. CASE a.type = "BULK_CANCEL"
    BY <1>1, <1>2, <1>5 DEF BufferHoldsLargest, HeaderBound, RequestBound, TrailerBound
  <1>6. CASE a.type \notin {"BULK_ORDER", "BULK_MODIFY", "BULK_CANCEL"}
    BY <1>1, <1>2, <1>6 DEF BufferHoldsLargest, HeaderBound, RequestBound, TrailerBound
  <1> QED
    BY <1>3, <1>4, <1>5, <1>6

-----------------------------------------------------------------------------
(* The bytes so far are at most those of the longest header and of as many *)
(* of the longest requests as have been written.                           *)
Room ==
    /\ capacity \in Nat
    /\ Accepted(approved)
    /\ stage \in {"header", "requests", "hash", "done"}
    /\ stage = "header" => offset = 0 /\ written = 0
    /\ stage = "requests" =>
           /\ written \in 0..Len(RequestsOf(approved))
           /\ offset \in 0..(HeaderBound(approved) + written * RequestBound(approved))

(* A buffer too small for the longest action promises nothing. *)
BufferInv ==
    /\ capacity \in Nat
    /\ stage # "unused" /\ BufferHoldsLargest => Room

LEMMA BoundTypes ==
  ASSUME NEW a PROVE HeaderBound(a) \in Nat /\ RequestBound(a) \in Nat /\ TrailerBound(a) \in Nat
  BY DEF HeaderBound, RequestBound, TrailerBound

(* Whatever comes next fits. *)
LEMMA NextPartFits ==
  ASSUME BufferHoldsLargest, Room, stage \in {"header", "requests"}
  PROVE  Fits(NextSize)
  <1>1. capacity \in Nat /\ Accepted(approved)
    BY DEF Room
  <1>2. /\ HeaderBound(approved) \in Nat
        /\ RequestBound(approved) \in Nat
        /\ TrailerBound(approved) \in Nat
    BY BoundTypes
  <1>3. CASE stage = "header"
    <2>1. HeaderSize(approved) \in 0..HeaderBound(approved)
      BY <1>1, HeaderSizeBound
    <2>2. 0 \in 0..Len(RequestsOf(approved))
      BY <1>1, RequestCount, BulkMaxSizeAssumption
    <2>3. HeaderBound(approved) + 0 * RequestBound(approved) + TrailerBound(approved)
            <= capacity
      BY <1>1, <2>2, Capacity
    <2>4. offset = 0
      BY <1>3 DEF Room
    <2> QED
      BY <1>1, <1>2, <1>3, <2>1, <2>3, <2>4 DEF Fits, NextSize
  <1>4. CASE stage = "requests" /\ written < Len(RequestsOf(approved))
    <2>1. Len(RequestsOf(approved)) \in 0..BulkMaxSize /\ BulkMaxSize \in Nat
      BY <1>1, RequestCount, BulkMaxSizeAssumption
    <2>2. /\ written \in 0..Len(RequestsOf(approved))
          /\ offset \in 0..(HeaderBound(approved) + written * RequestBound(approved))
      BY <1>4 DEF Room
    <2>3. written + 1 \in 1..Len(RequestsOf(approved))
      BY <1>4, <2>1, <2>2
    <2>4. RequestSize(approved, written + 1) \in 0..RequestBound(approved)
      BY <1>1, <2>3, RequestSizeBound
    <2>5. HeaderBound(approved) + (written + 1) * RequestBound(approved) + TrailerBound(approved)
            <= capacity
      BY <1>1, <2>1, <2>3, Capacity
    <2>6. (written + 1) * RequestBound(approved)
            = written * RequestBound(approved) + RequestBound(approved)
      BY <1>2, <2>1, <2>2
    <2>7. written * RequestBound(approved) \in Nat
      BY <1>2, <2>1, <2>2
    <2> DEFINE h == HeaderBound(approved)
               w == written * RequestBound(approved)
               b == RequestBound(approved)
               c == TrailerBound(approved)
               n == RequestSize(approved, written + 1)
    <2>8. /\ h \in Nat /\ w \in Nat /\ b \in Nat /\ c \in Nat /\ capacity \in Nat
          /\ offset \in 0..(h + w) /\ n \in 0..b /\ h + (w + b) + c <= capacity
      BY <1>1, <1>2, <2>2, <2>4, <2>5, <2>6, <2>7
    <2>9. NextSize = n
      BY <1>4 DEF NextSize
    <2> HIDE DEF h, w, b, c, n
    <2>10. offset + n <= capacity
      BY <2>8
    <2> QED
      BY <2>9, <2>10 DEF Fits
  <1>5. CASE stage = "requests" /\ ~(written < Len(RequestsOf(approved)))
    <2>1. Len(RequestsOf(approved)) \in 0..BulkMaxSize /\ BulkMaxSize \in Nat
      BY <1>1, RequestCount, BulkMaxSizeAssumption
    <2>2. /\ written \in 0..Len(RequestsOf(approved))
          /\ offset \in 0..(HeaderBound(approved) + written * RequestBound(approved))
      BY <1>5 DEF Room
    <2>3. TrailerSize(approved) \in 0..TrailerBound(approved)
      BY <1>1, TrailerSizeBound
    <2>4. HeaderBound(approved) + written * RequestBound(approved) + TrailerBound(approved)
            <= capacity
      BY <1>1, <2>2, Capacity
    <2>5. written * RequestBound(approved) \in Nat
      BY <1>2, <2>1, <2>2
    <2> QED
      BY <1>1, <1>2, <1>5, <2>2, <2>3, <2>4, <2>5 DEF Fits, NextSize
  <1> QED
    BY <1>3, <1>4, <1>5

LEMMA BufferInit == Init => BufferInv
  BY CapacitiesAssumption, RequestsAssumption
  DEF Init, StartSerializer, BufferInv, Room, Accepted, approved

LEMMA RoomStep ==
  ASSUME BufferHoldsLargest, Room, [Next]_vars PROVE Room'
  <1>1. CASE WriteHeader
    <2>1. HeaderSize(approved) \in 0..HeaderBound(approved) /\ HeaderBound(approved) \in Nat
      BY HeaderSizeBound, BoundTypes DEF Room
    <2>2. Len(RequestsOf(approved)) \in Nat /\ RequestBound(approved) \in Nat
      BY RequestCount, BoundTypes, BulkMaxSizeAssumption DEF Room
    <2>3. offset = 0 /\ written = 0
      BY <1>1 DEF WriteHeader, Room
    <2>4. /\ request' = request /\ capacity' = capacity /\ written' = 0
          /\ stage' = "requests" /\ offset' = HeaderSize(approved)
      BY <1>1, <2>1, <2>3 DEF WriteHeader, Put
    <2> QED
      BY <2>1, <2>2, <2>4 DEF Room, approved
  <1>2. CASE WriteRequest
    <2>1. /\ Len(RequestsOf(approved)) \in Nat
          /\ HeaderBound(approved) \in Nat
          /\ RequestBound(approved) \in Nat
      BY RequestCount, BoundTypes, BulkMaxSizeAssumption DEF Room
    <2>2. /\ written \in 0..Len(RequestsOf(approved)) /\ written < Len(RequestsOf(approved))
          /\ offset \in 0..(HeaderBound(approved) + written * RequestBound(approved))
      BY <1>2 DEF WriteRequest, Room
    <2>3. written + 1 \in 1..Len(RequestsOf(approved))
      BY <2>1, <2>2
    <2>4. RequestSize(approved, written + 1) \in 0..RequestBound(approved)
      BY <2>3, RequestSizeBound DEF Room
    <2>5. /\ request' = request /\ capacity' = capacity /\ written' = written + 1
          /\ stage' = "requests" /\ offset' = offset + RequestSize(approved, written + 1)
      BY <1>2 DEF WriteRequest, Put
    <2>6. /\ written * RequestBound(approved) \in Nat
          /\ (written + 1) * RequestBound(approved)
               = written * RequestBound(approved) + RequestBound(approved)
      BY <2>1, <2>2
    <2>7. offset' \in 0..(HeaderBound(approved) + (written + 1) * RequestBound(approved))
      BY <2>1, <2>2, <2>4, <2>5, <2>6
    <2> QED
      BY <2>3, <2>5, <2>7 DEF Room, approved
  <1>3. CASE WriteTrailer
    BY <1>3 DEF WriteTrailer, Room, approved
  <1>4. CASE RefuseToWrite
    BY <1>4, NextPartFits DEF RefuseToWrite
  <1>5. CASE HashBuffer
    BY <1>5 DEF HashBuffer, Room, approved
  <1>6. CASE UNCHANGED buffer_vars
    BY <1>6 DEF buffer_vars, Room, approved
  <1>7. CASE HashDomain \/ HashMessage \/ Sign
    BY <1>6, <1>7 DEF HashDomain, HashMessage, Sign
  <1>8. CASE UNCHANGED vars
    BY <1>6, <1>8 DEF vars
  <1> QED
    BY <1>1, <1>2, <1>3, <1>4, <1>5, <1>7, <1>8 DEF Next, Serialize

(* What a step leaves alone *)
LEMMA BufferStays ==
  ASSUME [Next]_vars
  PROVE  capacity' = capacity /\ (stage = "unused" => stage' = "unused")
  <1>1. CASE Serialize
    BY <1>1 DEF Serialize, WriteHeader, WriteRequest, WriteTrailer, RefuseToWrite, HashBuffer
  <1>2. CASE HashDomain \/ HashMessage \/ Sign
    BY <1>2 DEF HashDomain, HashMessage, Sign, buffer_vars
  <1>3. CASE UNCHANGED vars
    BY <1>3 DEF vars, buffer_vars
  <1> QED
    BY <1>1, <1>2, <1>3 DEF Next

LEMMA BufferStep == BufferInv /\ [Next]_vars => BufferInv'
  <1> SUFFICES ASSUME BufferInv, [Next]_vars PROVE BufferInv'
    OBVIOUS
  <1>1. capacity' = capacity /\ (stage = "unused" => stage' = "unused")
    BY BufferStays
  <1>2. BufferHoldsLargest' => BufferHoldsLargest
    BY <1>1 DEF BufferHoldsLargest
  <1>3. ASSUME stage' # "unused", BufferHoldsLargest' PROVE Room'
    BY <1>1, <1>2, <1>3, RoomStep DEF BufferInv
  <1> QED
    BY <1>1, <1>3 DEF BufferInv

(* An accepted action always fits the serialization buffer, whatever its   *)
(* requests, texts and numbers, as long as the buffer has room for the     *)
(* longest one (action.c:297-300, bulk_order.c:92, bulk_modify.c:73,       *)
(* bulk_cancel.c:77).                                                      *)
THEOREM ApprovedActionsAlwaysFit == Spec => []AlwaysFits
  <1>1. BufferInv => AlwaysFits
    BY DEF BufferInv, Room, AlwaysFits
  <1> QED
    BY <1>1, BufferInit, BufferStep, PTL DEF Spec

-----------------------------------------------------------------------------
(* The hashes: what makes two of them equal *)

LEMMA KeccakInjective ==
  ASSUME NEW x, NEW y PROVE Keccak(x) = Keccak(y) <=> x = y
  BY DEF Keccak

LEMMA DynValInjective ==
  ASSUME NEW x, NEW y PROVE DynVal(x) = DynVal(y) <=> x = y
  BY DEF DynVal, Keccak

LEMMA ValInjective ==
  ASSUME NEW x, NEW y PROVE Val(x) = Val(y) <=> x = y
  BY DEF Val

LEMMA DomainHashInjective ==
  ASSUME NEW n1, NEW v1, NEW c1, NEW a1, NEW n2, NEW v2, NEW c2, NEW a2
  PROVE  ComputeDomainHash(n1, v1, c1, a1) = ComputeDomainHash(n2, v2, c2, a2)
           <=> n1 = n2 /\ v1 = v2 /\ c1 = c2 /\ a1 = a2
  BY DynValInjective, ValInjective, KeccakInjective DEF ComputeDomainHash

LEMMA HashToSignInjective ==
  ASSUME NEW d1, NEW m1, NEW d2, NEW m2
  PROVE  HashToSign(d1, m1) = HashToSign(d2, m2) <=> d1 = d2 /\ m1 = m2
  BY KeccakInjective DEF HashToSign

LEMMA AgentInjective ==
  ASSUME NEW s1, NEW c1, NEW s2, NEW c2
  PROVE  AgentMessageHash(s1, c1) = AgentMessageHash(s2, c2) <=> s1 = s2 /\ c1 = c2
  BY DynValInjective, KeccakInjective DEF AgentMessageHash

LEMMA BuilderFeeInjective ==
  ASSUME NEW c1, NEW f1, NEW b1, NEW n1, NEW c2, NEW f2, NEW b2, NEW n2
  PROVE  BuilderFeeMessageHash(c1, f1, b1, n1) = BuilderFeeMessageHash(c2, f2, b2, n2)
           <=> c1 = c2 /\ f1 = f2 /\ b1 = b2 /\ n1 = n2
  BY DynValInjective, ValInjective, KeccakInjective DEF BuilderFeeMessageHash

LEMMA AbstractionInjective ==
  ASSUME NEW c1, NEW u1, NEW a1, NEW n1, NEW c2, NEW u2, NEW a2, NEW n2
  PROVE  AbstractionMessageHash(c1, u1, a1, n1) = AbstractionMessageHash(c2, u2, a2, n2)
           <=> c1 = c2 /\ u1 = u2 /\ a1 = a2 /\ n1 = n2
  BY DynValInjective, ValInjective, KeccakInjective DEF AbstractionMessageHash

LEMMA ConnectionIdInjective ==
  ASSUME NEW a, NEW b
  PROVE  ComputeConnectionId(a) = ComputeConnectionId(b) <=> ConnectionId(a) = ConnectionId(b)
  BY KeccakInjective DEF ComputeConnectionId

(* Messages of different types differ in the hash of their type. *)
LEMMA TypesApart ==
  /\ AgentType # BuilderFeeType
  /\ AgentType # AbstractionType
  /\ BuilderFeeType # AbstractionType
  BY DEF AgentType, BuilderFeeType, AbstractionType

LEMMA MessagesApart ==
  ASSUME NEW s, NEW c, NEW h1, NEW f, NEW b, NEW n1, NEW h2, NEW u, NEW a, NEW n2
  PROVE  /\ AgentMessageHash(s, c) # BuilderFeeMessageHash(h1, f, b, n1)
         /\ AgentMessageHash(s, c) # AbstractionMessageHash(h2, u, a, n2)
         /\ BuilderFeeMessageHash(h1, f, b, n1) # AbstractionMessageHash(h2, u, a, n2)
  BY TypesApart, DynValInjective, KeccakInjective
  DEF AgentMessageHash, BuilderFeeMessageHash, AbstractionMessageHash

LEMMA NetworkTexts ==
  ASSUME NEW m1, NEW m2, m1.network \in Networks, m2.network \in Networks
  PROVE  /\ ChainOf(m1) = ChainOf(m2) <=> m1.network = m2.network
         /\ SourceOf(m1) = SourceOf(m2) <=> m1.network = m2.network
  BY DEF ChainOf, SourceOf, Networks

IsRequest(r) == r.action.type \in ActionTypes /\ r.metadata.network \in Networks

Kind(r) ==
    IF r.action.type \in {"APPROVE_BUILDER_FEE", "USER_SET_ABSTRACTION"} THEN r.action.type
    ELSE "AGENT"

-----------------------------------------------------------------------------
(* What two requests with the same digest have in common, by their kind,   *)
(* computed once from the words and once from the terms of HlAction        *)
Agree(r1, r2) ==
    /\ Kind(r1) = Kind(r2)
    /\ r1.metadata.network = r2.metadata.network
    /\ Kind(r1) = "AGENT" => ConnectionId(r1.action) = ConnectionId(r2.action)
    /\ Kind(r1) # "AGENT" =>
           /\ r1.action.body.signature_chain_id = r2.action.body.signature_chain_id
           /\ r1.action.nonce = r2.action.nonce
    /\ Kind(r1) = "APPROVE_BUILDER_FEE" =>
           /\ r1.action.body.max_fee_rate = r2.action.body.max_fee_rate
           /\ r1.action.body.builder = r2.action.body.builder
    /\ Kind(r1) = "USER_SET_ABSTRACTION" =>
           /\ r1.wallet = r2.wallet
           /\ r1.action.body.abstraction = r2.action.body.abstraction

LEMMA WordsAgree ==
  ASSUME NEW r1, NEW r2, IsRequest(r1), IsRequest(r2)
  PROVE  Digest(r1) = Digest(r2) <=> Agree(r1, r2)
  <1> DEFINE D(r) == DomainHash(r.action)
             M(r) == MessageHash(r.action, r.metadata, r.wallet)
  <1>1. Digest(r1) = Digest(r2) <=> D(r1) = D(r2) /\ M(r1) = M(r2)
    BY HashToSignInjective DEF Digest
  <1>2. /\ ChainOf(r1.metadata) = ChainOf(r2.metadata)
             <=> r1.metadata.network = r2.metadata.network
        /\ SourceOf(r1.metadata) = SourceOf(r2.metadata)
             <=> r1.metadata.network = r2.metadata.network
    BY NetworkTexts DEF IsRequest
  <1>3. ASSUME NEW r, Kind(r) = "AGENT"
        PROVE  /\ D(r) = ExchangeDomainHash
               /\ M(r) = AgentMessageHash(SourceOf(r.metadata), ComputeConnectionId(r.action))
    BY <1>3 DEF Kind, DomainHash, HasSignDomain, MessageHash
  <1>4. ASSUME NEW r, Kind(r) = "APPROVE_BUILDER_FEE"
        PROVE  /\ D(r) = SignDomainHash(r.action.body.signature_chain_id)
               /\ M(r) = BuilderFeeMessageHash(ChainOf(r.metadata), r.action.body.max_fee_rate,
                                               r.action.body.builder, r.action.nonce)
    BY <1>4 DEF Kind, DomainHash, HasSignDomain, MessageHash
  <1>5. ASSUME NEW r, Kind(r) = "USER_SET_ABSTRACTION"
        PROVE  /\ D(r) = SignDomainHash(r.action.body.signature_chain_id)
               /\ M(r) = AbstractionMessageHash(ChainOf(r.metadata), r.wallet,
                                                r.action.body.abstraction, r.action.nonce)
    BY <1>5 DEF Kind, DomainHash, HasSignDomain, MessageHash
  <1>6. /\ Kind(r1) \in {"AGENT", "APPROVE_BUILDER_FEE", "USER_SET_ABSTRACTION"}
        /\ Kind(r2) \in {"AGENT", "APPROVE_BUILDER_FEE", "USER_SET_ABSTRACTION"}
    BY DEF Kind
  <1>7. CASE Kind(r1) # Kind(r2)
    <2>1. M(r1) # M(r2)
      BY <1>3, <1>4, <1>5, <1>6, <1>7, MessagesApart
    <2> QED
      BY <1>1, <1>7, <2>1 DEF Agree
  <1>8. CASE Kind(r1) = "AGENT" /\ Kind(r2) = "AGENT"
    <2>1. D(r1) = D(r2)
      BY <1>3, <1>8
    <2>2. M(r1) = M(r2) <=> /\ SourceOf(r1.metadata) = SourceOf(r2.metadata)
                            /\ ConnectionId(r1.action) = ConnectionId(r2.action)
      BY <1>3, <1>8, AgentInjective, ConnectionIdInjective
    <2> QED
      BY <1>1, <1>2, <1>8, <2>1, <2>2 DEF Agree
  <1>9. ASSUME NEW c1, NEW c2
        PROVE  SignDomainHash(c1) = SignDomainHash(c2) <=> c1 = c2
    BY DomainHashInjective DEF SignDomainHash
  <1>10. CASE Kind(r1) = "APPROVE_BUILDER_FEE" /\ Kind(r2) = "APPROVE_BUILDER_FEE"
    <2>1. D(r1) = D(r2)
            <=> r1.action.body.signature_chain_id = r2.action.body.signature_chain_id
      BY <1>4, <1>9, <1>10
    <2>2. M(r1) = M(r2) <=> /\ ChainOf(r1.metadata) = ChainOf(r2.metadata)
                            /\ r1.action.body.max_fee_rate = r2.action.body.max_fee_rate
                            /\ r1.action.body.builder = r2.action.body.builder
                            /\ r1.action.nonce = r2.action.nonce
      BY <1>4, <1>10, BuilderFeeInjective
    <2> QED
      BY <1>1, <1>2, <1>10, <2>1, <2>2 DEF Agree
  <1>11. CASE Kind(r1) = "USER_SET_ABSTRACTION" /\ Kind(r2) = "USER_SET_ABSTRACTION"
    <2>1. D(r1) = D(r2)
            <=> r1.action.body.signature_chain_id = r2.action.body.signature_chain_id
      BY <1>5, <1>9, <1>11
    <2>2. M(r1) = M(r2) <=> /\ ChainOf(r1.metadata) = ChainOf(r2.metadata)
                            /\ r1.wallet = r2.wallet
                            /\ r1.action.body.abstraction = r2.action.body.abstraction
                            /\ r1.action.nonce = r2.action.nonce
      BY <1>5, <1>11, AbstractionInjective
    <2> QED
      BY <1>1, <1>2, <1>11, <2>1, <2>2 DEF Agree
  <1> QED
    BY <1>6, <1>7, <1>8, <1>10, <1>11

LEMMA TermsAgree ==
  ASSUME NEW r1, NEW r2, IsRequest(r1), IsRequest(r2)
  PROVE  AbstractDigest(r1) = AbstractDigest(r2) <=> Agree(r1, r2)
  <1> DEFINE Mainnet(r) == r.metadata.network = "MAINNET"
             Chain(r) == IF Mainnet(r) THEN "Mainnet" ELSE "Testnet"
             Source(r) == IF Mainnet(r) THEN "a" ELSE "b"
  <1>1. /\ Chain(r1) = Chain(r2) <=> r1.metadata.network = r2.metadata.network
        /\ Source(r1) = Source(r2) <=> r1.metadata.network = r2.metadata.network
    BY DEF IsRequest, Networks
  <1>2. ASSUME NEW r, Kind(r) = "AGENT"
        PROVE  AbstractDigest(r) = CidHash(Source(r), ConnectionId(r.action))
    BY <1>2 DEF Kind, AbstractDigest, ActionHash
  <1>3. ASSUME NEW r, Kind(r) = "APPROVE_BUILDER_FEE"
        PROVE  AbstractDigest(r) = BuilderFeeHash(r.action.body, r.action.nonce, Chain(r))
    BY <1>3 DEF Kind, AbstractDigest, ActionHash
  <1>4. ASSUME NEW r, Kind(r) = "USER_SET_ABSTRACTION"
        PROVE  AbstractDigest(r) = AbstractionHash(r.action.body, r.action.nonce, Chain(r), r.wallet)
    BY <1>4 DEF Kind, AbstractDigest, ActionHash
  <1>5. /\ Kind(r1) \in {"AGENT", "APPROVE_BUILDER_FEE", "USER_SET_ABSTRACTION"}
        /\ Kind(r2) \in {"AGENT", "APPROVE_BUILDER_FEE", "USER_SET_ABSTRACTION"}
    BY DEF Kind
  <1>6. ASSUME NEW s, NEW i, NEW b1, NEW n1, NEW c1, NEW b2, NEW n2, NEW c2, NEW u
        PROVE  /\ CidHash(s, i) # BuilderFeeHash(b1, n1, c1)
               /\ CidHash(s, i) # AbstractionHash(b2, n2, c2, u)
               /\ BuilderFeeHash(b1, n1, c1) # AbstractionHash(b2, n2, c2, u)
    BY DEF CidHash, BuilderFeeHash, AbstractionHash
  <1>7. CASE Kind(r1) # Kind(r2)
    <2>1. AbstractDigest(r1) # AbstractDigest(r2)
      BY <1>2, <1>3, <1>4, <1>5, <1>6, <1>7
    <2> QED
      BY <1>7, <2>1 DEF Agree
  <1>8. CASE Kind(r1) = "AGENT" /\ Kind(r2) = "AGENT"
    <2>1. \A s1, i1, s2, i2 : CidHash(s1, i1) = CidHash(s2, i2) <=> s1 = s2 /\ i1 = i2
      BY DEF CidHash
    <2> QED
      BY <1>1, <1>2, <1>8, <2>1 DEF Agree
  <1>9. CASE Kind(r1) = "APPROVE_BUILDER_FEE" /\ Kind(r2) = "APPROVE_BUILDER_FEE"
    <2>1. \A b1, n1, c1, b2, n2, c2 :
             BuilderFeeHash(b1, n1, c1) = BuilderFeeHash(b2, n2, c2)
               <=> /\ b1.signature_chain_id = b2.signature_chain_id
                   /\ c1 = c2 /\ n1 = n2
                   /\ b1.max_fee_rate = b2.max_fee_rate /\ b1.builder = b2.builder
      BY DEF BuilderFeeHash
    <2> QED
      BY <1>1, <1>3, <1>9, <2>1 DEF Agree
  <1>10. CASE Kind(r1) = "USER_SET_ABSTRACTION" /\ Kind(r2) = "USER_SET_ABSTRACTION"
    <2>1. \A b1, n1, c1, u1, b2, n2, c2, u2 :
             AbstractionHash(b1, n1, c1, u1) = AbstractionHash(b2, n2, c2, u2)
               <=> /\ b1.signature_chain_id = b2.signature_chain_id
                   /\ c1 = c2 /\ n1 = n2 /\ u1 = u2
                   /\ b1.abstraction = b2.abstraction
      BY DEF AbstractionHash
    <2> QED
      BY <1>1, <1>4, <1>10, <2>1 DEF Agree
  <1> QED
    BY <1>5, <1>7, <1>8, <1>9, <1>10

-----------------------------------------------------------------------------
(* The hashes of the state are those of its request. *)
HashInv ==
    /\ request \in Requests
    /\ domain_hash \in {NotYet, DomainHash(request.action)}
    /\ message_hash \in {NotYet, MessageHash(request.action, request.metadata, request.wallet)}
    /\ message_hash # NotYet => domain_hash # NotYet
    /\ to_sign \in {NotYet, Digest(request)}

LEMMA HashInit == Init => HashInv
  BY DEF Init, StartSerializer, HashInv

LEMMA HashStep == HashInv /\ [Next]_vars => HashInv'
  <1> SUFFICES ASSUME HashInv, [Next]_vars PROVE HashInv'
    OBVIOUS
  <1>1. CASE HashDomain
    BY <1>1 DEF HashDomain, buffer_vars, approved, HashInv
  <1>2. CASE HashMessage
    BY <1>2 DEF HashMessage, buffer_vars, approved, HashInv
  <1>3. CASE Sign
    <2>1. /\ domain_hash = DomainHash(request.action)
          /\ message_hash = MessageHash(request.action, request.metadata, request.wallet)
      BY <1>3 DEF Sign, HashInv
    <2>2. to_sign' = Digest(request)
      BY <1>3, <2>1 DEF Sign, Digest
    <2> QED
      BY <1>3, <2>2 DEF Sign, buffer_vars, HashInv
  <1>4. CASE Serialize /\ UNCHANGED hash_vars
    <2>1. request' = request
      BY <1>4 DEF Serialize, WriteHeader, WriteRequest, WriteTrailer, RefuseToWrite, HashBuffer
    <2> QED
      BY <1>4, <2>1 DEF hash_vars, HashInv
  <1>5. CASE UNCHANGED vars
    BY <1>5 DEF vars, buffer_vars, hash_vars, HashInv
  <1> QED
    BY <1>1, <1>2, <1>3, <1>4, <1>5 DEF Next

(* A digest shows exactly what HlAction says it shows: the action, the     *)
(* network and, for an abstraction, the user (action.c:344-394,            *)
(* eip712_common.c:77-101).                                                *)
THEOREM DigestsAreFaithful == Spec => []DigestDeterminesRequest
  <1>1. HashInv => DigestDeterminesRequest
    <2> SUFFICES ASSUME HashInv, to_sign # NotYet, NEW other \in Requests
                 PROVE  to_sign = Digest(other) <=> AbstractDigest(other) = AbstractDigest(request)
      BY DEF DigestDeterminesRequest
    <2>1. to_sign = Digest(request)
      BY DEF HashInv
    <2>2. IsRequest(request) /\ IsRequest(other)
      BY RequestsAssumption DEF HashInv, IsRequest, IsParsed
    <2>3. Digest(request) = Digest(other) <=> Agree(request, other)
      BY <2>2, WordsAgree
    <2>4. AbstractDigest(request) = AbstractDigest(other) <=> Agree(request, other)
      BY <2>2, TermsAgree
    <2> QED
      BY <2>1, <2>3, <2>4
  <1> QED
    BY <1>1, HashInit, HashStep, PTL DEF Spec

-----------------------------------------------------------------------------
(* The words: encodeData, word by word *)

LEMMA FourWords ==
  ASSUME NEW w, NEW f, f = [i \in 1..4 |-> f[i]]
  PROVE  <<w>> \o f = <<w, f[1], f[2], f[3], f[4]>>
  <1> DEFINE S == {w, f[1], f[2], f[3], f[4]}
             t == <<w, f[1], f[2], f[3], f[4]>>
  <1>1. <<w>> \in Seq(S) /\ Len(<<w>>) = 1 /\ <<w>>[1] = w
    OBVIOUS
  <1>2. f \in Seq(S) /\ Len(f) = 4
    <2>1. f \in [1..4 -> S]
      OBVIOUS
    <2> QED
      BY <2>1
  <1>3. t \in Seq(S) /\ Len(t) = 5
    OBVIOUS
  <1>4. /\ <<w>> \o f \in Seq(S)
        /\ Len(<<w>> \o f) = 5
        /\ \A i \in 1..5 : (<<w>> \o f)[i] = IF i <= 1 THEN <<w>>[i] ELSE f[i - 1]
    BY <1>1, <1>2, ConcatProperties
  <1>5. \A i \in 1..5 : (<<w>> \o f)[i] = t[i]
    BY <1>1, <1>4
  <1> HIDE DEF t, S
  <1>6. <<w>> \o f = t
    BY <1>3, <1>4, <1>5, SeqEqual
  <1> QED
    BY <1>6 DEF t

LEMMA TwoWords ==
  ASSUME NEW w, NEW f, f = [i \in 1..2 |-> f[i]]
  PROVE  <<w>> \o f = <<w, f[1], f[2]>>
  <1> DEFINE S == {w, f[1], f[2]}
             t == <<w, f[1], f[2]>>
  <1>1. <<w>> \in Seq(S) /\ Len(<<w>>) = 1 /\ <<w>>[1] = w
    OBVIOUS
  <1>2. f \in Seq(S) /\ Len(f) = 2
    <2>1. f \in [1..2 -> S]
      OBVIOUS
    <2> QED
      BY <2>1
  <1>3. t \in Seq(S) /\ Len(t) = 3
    OBVIOUS
  <1>4. /\ <<w>> \o f \in Seq(S)
        /\ Len(<<w>> \o f) = 3
        /\ \A i \in 1..3 : (<<w>> \o f)[i] = IF i <= 1 THEN <<w>>[i] ELSE f[i - 1]
    BY <1>1, <1>2, ConcatProperties
  <1>5. \A i \in 1..3 : (<<w>> \o f)[i] = t[i]
    BY <1>1, <1>4
  <1> HIDE DEF t, S
  <1>6. <<w>> \o f = t
    BY <1>3, <1>4, <1>5, SeqEqual
  <1> QED
    BY <1>6 DEF t

(* The word of a member in encodeData *)
WordOf(member, values) ==
    IF member[1] = "string" THEN DynVal(values[member[2]])
    ELSE IF member[1] = "bytes32" THEN values[member[2]]
    ELSE Val(values[member[2]])

LEMMA EncodedFour ==
  ASSUME NEW type, NEW values, DOMAIN type.members = 1..4
  PROVE  EncodeData(type, values) =
             Keccak(<<DynVal(type), WordOf(type.members[1], values),
                      WordOf(type.members[2], values), WordOf(type.members[3], values),
                      WordOf(type.members[4], values)>>)
  <1> DEFINE f == [i \in DOMAIN type.members |-> WordOf(type.members[i], values)]
  <1>1. EncodeData(type, values) = Keccak(<<DynVal(type)>> \o f)
    BY DEF EncodeData, WordOf
  <1>2. /\ f = [i \in 1..4 |-> f[i]]
        /\ f[1] = WordOf(type.members[1], values) /\ f[2] = WordOf(type.members[2], values)
        /\ f[3] = WordOf(type.members[3], values) /\ f[4] = WordOf(type.members[4], values)
    OBVIOUS
  <1> HIDE DEF f
  <1>3. <<DynVal(type)>> \o f = <<DynVal(type), f[1], f[2], f[3], f[4]>>
    BY <1>2, FourWords
  <1> QED
    BY <1>1, <1>2, <1>3

LEMMA EncodedTwo ==
  ASSUME NEW type, NEW values, DOMAIN type.members = 1..2
  PROVE  EncodeData(type, values) =
             Keccak(<<DynVal(type), WordOf(type.members[1], values),
                      WordOf(type.members[2], values)>>)
  <1> DEFINE f == [i \in DOMAIN type.members |-> WordOf(type.members[i], values)]
  <1>1. EncodeData(type, values) = Keccak(<<DynVal(type)>> \o f)
    BY DEF EncodeData, WordOf
  <1>2. /\ f = [i \in 1..2 |-> f[i]]
        /\ f[1] = WordOf(type.members[1], values) /\ f[2] = WordOf(type.members[2], values)
    OBVIOUS
  <1> HIDE DEF f
  <1>3. <<DynVal(type)>> \o f = <<DynVal(type), f[1], f[2]>>
    BY <1>2, TwoWords
  <1> QED
    BY <1>1, <1>2, <1>3

LEMMA DomainEncoded ==
  ASSUME NEW values
  PROVE  EncodeData(DomainType, values) =
             ComputeDomainHash(values.name, values.version, values.chainId,
                               values.verifyingContract)
  <1>1. /\ DOMAIN DomainType.members = 1..4
        /\ DomainType.members[1] = <<"string", "name">>
        /\ DomainType.members[2] = <<"string", "version">>
        /\ DomainType.members[3] = <<"uint256", "chainId">>
        /\ DomainType.members[4] = <<"address", "verifyingContract">>
    BY DEF DomainType
  <1>2. /\ WordOf(<<"string", "name">>, values) = DynVal(values.name)
        /\ WordOf(<<"string", "version">>, values) = DynVal(values.version)
        /\ WordOf(<<"uint256", "chainId">>, values) = Val(values.chainId)
        /\ WordOf(<<"address", "verifyingContract">>, values) = Val(values.verifyingContract)
    BY DEF WordOf
  <1> QED
    BY <1>1, <1>2, EncodedFour DEF ComputeDomainHash

LEMMA BuilderFeeEncoded ==
  ASSUME NEW values
  PROVE  EncodeData(BuilderFeeType, values) =
             BuilderFeeMessageHash(values.hyperliquidChain, values.maxFeeRate, values.builder,
                                   values.nonce)
  <1>1. /\ DOMAIN BuilderFeeType.members = 1..4
        /\ BuilderFeeType.members[1] = <<"string", "hyperliquidChain">>
        /\ BuilderFeeType.members[2] = <<"string", "maxFeeRate">>
        /\ BuilderFeeType.members[3] = <<"address", "builder">>
        /\ BuilderFeeType.members[4] = <<"uint64", "nonce">>
    BY DEF BuilderFeeType
  <1>2. /\ WordOf(<<"string", "hyperliquidChain">>, values) = DynVal(values.hyperliquidChain)
        /\ WordOf(<<"string", "maxFeeRate">>, values) = DynVal(values.maxFeeRate)
        /\ WordOf(<<"address", "builder">>, values) = Val(values.builder)
        /\ WordOf(<<"uint64", "nonce">>, values) = Val(values.nonce)
    BY DEF WordOf
  <1> QED
    BY <1>1, <1>2, EncodedFour DEF BuilderFeeMessageHash

LEMMA AbstractionEncoded ==
  ASSUME NEW values
  PROVE  EncodeData(AbstractionType, values) =
             AbstractionMessageHash(values.hyperliquidChain, values.user, values.abstraction,
                                    values.nonce)
  <1>1. /\ DOMAIN AbstractionType.members = 1..4
        /\ AbstractionType.members[1] = <<"string", "hyperliquidChain">>
        /\ AbstractionType.members[2] = <<"address", "user">>
        /\ AbstractionType.members[3] = <<"string", "abstraction">>
        /\ AbstractionType.members[4] = <<"uint64", "nonce">>
    BY DEF AbstractionType
  <1>2. /\ WordOf(<<"string", "hyperliquidChain">>, values) = DynVal(values.hyperliquidChain)
        /\ WordOf(<<"address", "user">>, values) = Val(values.user)
        /\ WordOf(<<"string", "abstraction">>, values) = DynVal(values.abstraction)
        /\ WordOf(<<"uint64", "nonce">>, values) = Val(values.nonce)
    BY DEF WordOf
  <1> QED
    BY <1>1, <1>2, EncodedFour DEF AbstractionMessageHash

LEMMA AgentEncoded ==
  ASSUME NEW values
  PROVE  EncodeData(AgentType, values) = AgentMessageHash(values.source, values.connectionId)
  <1>1. /\ DOMAIN AgentType.members = 1..2
        /\ AgentType.members[1] = <<"string", "source">>
        /\ AgentType.members[2] = <<"bytes32", "connectionId">>
    BY DEF AgentType
  <1>2. /\ WordOf(<<"string", "source">>, values) = DynVal(values.source)
        /\ WordOf(<<"bytes32", "connectionId">>, values) = values.connectionId
    BY DEF WordOf
  <1> QED
    BY <1>1, <1>2, EncodedTwo DEF AgentMessageHash

(* A verifier that knows the type and the values computes the hashes the   *)
(* hand-written sequences of words give (eip712_common.c:10-49 and the     *)
(* three functions compute_message_hash).                                  *)
THEOREM HashesEncodeTypes == Spec => []EncodesTypedData
  <1>1. ASSUME NEW action
        PROVE  DomainHash(action) = EncodeData(DomainType, DomainValues(action))
    <2>1. EncodeData(DomainType, DomainValues(action)) =
              ComputeDomainHash(DomainValues(action).name, DomainValues(action).version,
                                DomainValues(action).chainId,
                                DomainValues(action).verifyingContract)
      BY DomainEncoded
    <2> QED
      BY <2>1 DEF DomainHash, DomainValues, SignDomainHash, ExchangeDomainHash
  <1>2. ASSUME NEW r
        PROVE  MessageHash(r.action, r.metadata, r.wallet) =
                   EncodeData(MessageType(r.action), MessageValues(r))
    <2>1. CASE r.action.type = "APPROVE_BUILDER_FEE"
      BY <2>1, BuilderFeeEncoded DEF MessageHash, MessageType, MessageValues
    <2>2. CASE r.action.type = "USER_SET_ABSTRACTION"
      BY <2>2, AbstractionEncoded DEF MessageHash, MessageType, MessageValues
    <2>3. CASE r.action.type \notin {"APPROVE_BUILDER_FEE", "USER_SET_ABSTRACTION"}
      BY <2>3, AgentEncoded DEF MessageHash, MessageType, MessageValues
    <2> QED
      BY <2>1, <2>2, <2>3
  <1>3. HashInv => EncodesTypedData
    BY <1>1, <1>2 DEF HashInv, EncodesTypedData
  <1> QED
    BY <1>3, HashInit, HashStep, PTL DEF Spec

-----------------------------------------------------------------------------
(* Counting and sequences *)

(* Every set of numbers that is not empty has a smallest one. *)
LEMMA Smallest ==
  ASSUME NEW T \in SUBSET Nat, T # {}
  PROVE  \E x \in T : \A y \in T : x <= y
  <1> DEFINE R == {p \in Nat \X Nat : p[1] < p[2]}
  <1>1. IsWellFoundedOn(R, Nat)
    <2>1. IsWellFoundedOn(OpToRel(<, Nat), Nat)
      BY NatLessThanWellFounded
    <2>2. OpToRel(<, Nat) = R
      BY DEF OpToRel
    <2> QED
      BY <2>1, <2>2
  <1>2. PICK x \in T : \A y \in T : ~ (<<y, x>> \in R)
    <2> HIDE DEF R
    <2> QED
      BY <1>1, WFMin
  <1>3. ASSUME NEW y \in Nat, y < x PROVE <<y, x>> \in R
    <2>1. <<y, x>> \in Nat \X Nat
      OBVIOUS
    <2> QED
      BY <1>3, <2>1
  <1>4. \A y \in T : ~(y < x)
    BY <1>2, <1>3
  <1> QED
    BY <1>4

(* Counting up: what holds of 0, and of n + 1 with n, holds up to the last *)
(* number.                                                                 *)
LEMMA CountingUp ==
  ASSUME NEW last \in Nat, NEW S, 0 \in S,
         \A n \in 0..last : n \in S /\ n # last => n + 1 \in S
  PROVE  \A n \in 0..last : n \in S
  <1> DEFINE T == {n \in 0..last : n \notin S}
  <1> SUFFICES ASSUME T # {} PROVE FALSE
    OBVIOUS
  <1>1. T \in SUBSET Nat
    OBVIOUS
  <1>2. PICK x \in T : \A y \in T : x <= y
    BY <1>1, Smallest
  <1>3. x \in 0..last /\ x # 0
    OBVIOUS
  <1>4. x - 1 \in 0..last /\ x - 1 # last /\ ~(x <= x - 1)
    BY <1>3
  <1>5. x - 1 \in S
    BY <1>2, <1>4
  <1>6. (x - 1) + 1 \in S
    BY <1>4, <1>5
  <1> QED
    BY <1>3, <1>6

-----------------------------------------------------------------------------
(* Sequences *)

(* A sequence, over its own elements *)
IsSeq(s) == s \in Seq(Range(s))

(* The indices of a sequence *)
LEMMA SeqFacts ==
  ASSUME NEW s, IsSeq(s)
  PROVE  Len(s) \in Nat /\ DOMAIN s = 1..Len(s)
  BY LenProperties DEF IsSeq

(* A sequence over some set is one over its own elements. *)
LEMMA IsSeqOf ==
  ASSUME NEW S, NEW s \in Seq(S)
  PROVE  IsSeq(s)
  <1>1. s \in [1..Len(s) -> S] /\ Len(s) \in Nat /\ DOMAIN s = 1..Len(s)
    BY LenProperties
  <1>2. s \in [1..Len(s) -> Range(s)]
    BY <1>1 DEF Range
  <1> QED
    BY <1>1, <1>2 DEF IsSeq

(* Which element is where in two sequences, one after the other *)
LEMMA Concat ==
  ASSUME NEW s, NEW t, IsSeq(s), IsSeq(t)
  PROVE  /\ IsSeq(s \o t)
         /\ Len(s \o t) = Len(s) + Len(t)
         /\ \A i \in 1..Len(s) : (s \o t)[i] = s[i]
         /\ \A i \in 1..Len(t) : (s \o t)[Len(s) + i] = t[i]
  <1> DEFINE S == Range(s) \cup Range(t)
  <1>1. s \in Seq(S) /\ t \in Seq(S)
    BY SeqMonotonic DEF IsSeq
  <1> HIDE DEF S
  <1>2. /\ s \o t \in Seq(S)
        /\ Len(s \o t) = Len(s) + Len(t)
        /\ \A i \in 1..(Len(s) + Len(t)) :
               (s \o t)[i] = IF i <= Len(s) THEN s[i] ELSE t[i - Len(s)]
    BY <1>1, ConcatProperties
  <1>3. Len(s) \in Nat /\ Len(t) \in Nat
    BY SeqFacts
  <1>4. IsSeq(s \o t)
    BY <1>2, IsSeqOf
  <1>5. ASSUME NEW i \in 1..Len(s) PROVE (s \o t)[i] = s[i]
    BY <1>2, <1>3
  <1>6. ASSUME NEW i \in 1..Len(t) PROVE (s \o t)[Len(s) + i] = t[i]
    <2>1. Len(s) + i \in 1..(Len(s) + Len(t)) /\ ~(Len(s) + i <= Len(s)) /\ (Len(s) + i) - Len(s) = i
      BY <1>3
    <2> QED
      BY <1>2, <2>1
  <1> QED
    BY <1>2, <1>4, <1>5, <1>6

(* Three sequences, one after the other, however they are grouped *)
LEMMA ConcatAssoc ==
  ASSUME NEW s, NEW t, NEW u, IsSeq(s), IsSeq(t), IsSeq(u)
  PROVE  (s \o t) \o u = s \o (t \o u)
  <1> DEFINE S == Range(s) \cup Range(t) \cup Range(u)
  <1>1. s \in Seq(S) /\ t \in Seq(S) /\ u \in Seq(S)
    BY SeqMonotonic DEF IsSeq
  <1> HIDE DEF S
  <1> QED
    BY <1>1, ConcatAssociative

(* The same, with the sequences joined kept together *)
Regroups(s, t, u) == (s \o t) \o u = s \o (t \o u)

LEMMA Regrouped ==
  ASSUME NEW s, NEW t, NEW u, IsSeq(s), IsSeq(t), IsSeq(u)
  PROVE  Regroups(s, t, u)
  BY ConcatAssoc DEF Regroups

(* Sequences of one length with the same elements are the same. *)
LEMMA SameSeq ==
  ASSUME NEW s, NEW t, IsSeq(s), IsSeq(t), Len(s) = Len(t),
         \A i \in 1..Len(s) : s[i] = t[i]
  PROVE  s = t
  <1> DEFINE S == Range(s) \cup Range(t)
  <1>1. s \in Seq(S) /\ t \in Seq(S)
    BY SeqMonotonic DEF IsSeq
  <1> HIDE DEF S
  <1> QED
    BY <1>1, SeqEqual

(* The sequence that goes through one and then through another is the two  *)
(* joined.                                                                 *)
GoesThrough(u, v, w) ==
    /\ IsSeq(u) /\ IsSeq(v) /\ IsSeq(w) /\ Len(u) = Len(v) + Len(w)
    /\ \A i \in 1..Len(v) : u[i] = v[i]
    /\ \A i \in 1..Len(w) : u[Len(v) + i] = w[i]

LEMMA Joined ==
  ASSUME NEW u, NEW v, NEW w, GoesThrough(u, v, w)
  PROVE  u = v \o w
  <1> USE DEF GoesThrough
  <1>1. Len(v) \in Nat /\ Len(w) \in Nat
    BY SeqFacts
  <1> DEFINE c == v \o w
  <1>2. /\ IsSeq(c) /\ Len(c) = Len(v) + Len(w)
        /\ \A i \in 1..Len(v) : c[i] = v[i]
        /\ \A i \in 1..Len(w) : c[Len(v) + i] = w[i]
    BY Concat
  <1> HIDE DEF c
  <1>3. ASSUME NEW i \in 1..Len(u) PROVE u[i] = c[i]
    <2>1. CASE i \in 1..Len(v)
      BY <1>2, <2>1
    <2>2. CASE i \notin 1..Len(v)
      <3> DEFINE j == i - Len(v)
      <3>1. j \in 1..Len(w) /\ Len(v) + j = i
        BY <1>1, <2>2
      <3> HIDE DEF j
      <3>2. u[Len(v) + j] = w[j] /\ c[Len(v) + j] = w[j]
        BY <1>2, <3>1
      <3> QED
        BY <3>1, <3>2
    <2> QED
      BY <2>1, <2>2
  <1>4. u = c
    BY <1>2, <1>3, SameSeq
  <1> QED
    BY <1>4 DEF c

(* Two sequences that begin with parts of one length are equal part by     *)
(* part.                                                                   *)
Parts(c, s, t) ==
    /\ Len(c) = Len(s) + Len(t)
    /\ \A i \in 1..Len(s) : c[i] = s[i]
    /\ \A i \in 1..Len(t) : c[Len(s) + i] = t[i]

LEMMA SamePartsOf ==
  ASSUME NEW c, NEW s, NEW t, NEW u, NEW v, IsSeq(s), IsSeq(t), IsSeq(u), IsSeq(v),
         Len(s) = Len(u), Parts(c, s, t), Parts(c, u, v)
  PROVE  s = u /\ t = v
  <1>1. Len(s) \in Nat /\ Len(t) \in Nat /\ Len(v) \in Nat
    BY SeqFacts
  <1>2. Len(t) = Len(v)
    BY <1>1 DEF Parts
  <1>3. \A i \in 1..Len(s) : s[i] = u[i]
    BY DEF Parts
  <1>4. ASSUME NEW i \in 1..Len(t) PROVE t[i] = v[i]
    <2>1. i \in 1..Len(v)
      BY <1>2
    <2>2. c[Len(s) + i] = t[i] /\ c[Len(u) + i] = v[i]
      BY <2>1 DEF Parts
    <2> QED
      BY <2>2
  <1>5. s = u
    BY <1>3, SameSeq
  <1>6. t = v
    BY <1>2, <1>4, SameSeq
  <1> QED
    BY <1>5, <1>6

LEMMA ConcatParts ==
  ASSUME NEW s, NEW t, IsSeq(s), IsSeq(t)
  PROVE  Parts(s \o t, s, t)
  BY Concat DEF Parts

LEMMA SameParts ==
  ASSUME NEW s, NEW t, NEW u, NEW v, IsSeq(s), IsSeq(t), IsSeq(u), IsSeq(v),
         Len(s) = Len(u), s \o t = u \o v
  PROVE  s = u /\ t = v
  <1> DEFINE c == s \o t
  <1>1. Parts(c, s, t)
    BY ConcatParts
  <1>2. Parts(c, u, v)
    <2>1. Parts(u \o v, u, v)
      BY ConcatParts
    <2> QED
      BY <2>1
  <1> HIDE DEF c
  <1> QED
    BY <1>1, <1>2, SamePartsOf

(* A function on 1..n is a sequence of length n. *)
HasLength(s, n) == s = [i \in 1..n |-> s[i]]

(* A function on 1..n is a sequence, and n is its length. *)
LEMMA IsSeqOfLength ==
  ASSUME NEW n \in Nat, NEW s, HasLength(s, n)
  PROVE  IsSeq(s) /\ Len(s) = n
  <1>1. DOMAIN s = 1..n
    BY DEF HasLength
  <1>2. s \in [1..n -> Range(s)]
    BY <1>1 DEF HasLength, Range
  <1> QED
    BY <1>2 DEF IsSeq

(* The sums of the weights of a sequence, one weight at a time *)
LEMMA RunningSumFacts ==
  ASSUME NEW w, IsSeq(w), \A n \in 1..Len(w) : w[n] \in Int
  PROVE  /\ RunningSum(w)[0] = 0
         /\ \A n \in 1..Len(w) : RunningSum(w)[n] = RunningSum(w)[n - 1] + w[n]
         /\ \A n \in 0..Len(w) : RunningSum(w)[n] \in Int
  <1> DEFINE last == Len(w)
             Sum(g, m) == g = [n \in 0..m |-> IF n = 0 THEN 0 ELSE g[n - 1] + w[n]]
             S == {m \in 0..last : \E g : Sum(g, m)}
  <1>0. last \in Nat
    BY SeqFacts
  <1>1. 0 \in S
    <2>1. Sum([n \in 0..0 |-> 0], 0)
      OBVIOUS
    <2> HIDE DEF Sum
    <2> QED
      BY <1>0, <2>1
  <1>2. ASSUME NEW m \in 0..last, m \in S, m # last PROVE m + 1 \in S
    <2>1. PICK g : Sum(g, m)
      BY <1>2
    <2> DEFINE h == [n \in 0..(m + 1) |-> IF n <= m THEN g[n] ELSE g[m] + w[m + 1]]
    <2>2. Sum(h, m + 1)
      <3>1. ASSUME NEW n \in 0..(m + 1)
            PROVE  h[n] = IF n = 0 THEN 0 ELSE h[n - 1] + w[n]
        <4>1. CASE n = 0
          BY <1>0, <2>1, <4>1
        <4>2. CASE n \in 1..m
          <5>1. n \in 0..m /\ n - 1 \in 0..m /\ n - 1 \in 0..(m + 1) /\ n # 0 /\ n <= m /\ n - 1 <= m
            BY <1>0, <4>2
          <5>2. h[n] = g[n] /\ h[n - 1] = g[n - 1]
            BY <5>1
          <5>3. g[n] = g[n - 1] + w[n]
            BY <2>1, <5>1
          <5> QED
            BY <5>1, <5>2, <5>3
        <4>3. CASE n = m + 1
          <5>1. n # 0 /\ ~(n <= m) /\ n - 1 = m /\ m \in 0..(m + 1) /\ m <= m
            BY <1>0, <4>3
          <5> QED
            BY <4>3, <5>1
        <4> QED
          BY <1>0, <4>1, <4>2, <4>3
      <3> QED
        BY <3>1
    <2>3. m + 1 \in 0..last
      BY <1>0, <1>2
    <2> HIDE DEF Sum, h
    <2> QED
      BY <2>2, <2>3
  <1>3. last \in S
    <2> HIDE DEF S, last
    <2>1. \A m \in 0..last : m \in S
      BY <1>0, <1>1, <1>2, CountingUp
    <2> QED
      BY <1>0, <2>1
  <1>4. Sum(RunningSum(w), last)
    BY <1>3 DEF RunningSum
  <1> DEFINE f == RunningSum(w)
  <1>5. \A n \in 0..last : f[n] = IF n = 0 THEN 0 ELSE f[n - 1] + w[n]
    BY <1>4
  <1> HIDE DEF S, f
  <1>6. f[0] = 0
    BY <1>0, <1>5
  <1>7. \A n \in 1..last : f[n] = f[n - 1] + w[n]
    BY <1>0, <1>5
  <1>8. \A n \in 0..last : f[n] \in Int
    <2> DEFINE U == {n \in 0..last : f[n] \in Int}
    <2>1. 0 \in U
      BY <1>0, <1>6
    <2>2. ASSUME NEW n \in 0..last, n \in U, n # last PROVE n + 1 \in U
      <3>1. n + 1 \in 1..last /\ (n + 1) - 1 = n
        BY <1>0, <2>2
      <3>2. f[n + 1] = f[n] + w[n + 1]
        BY <1>7, <3>1
      <3> QED
        BY <2>2, <3>1, <3>2
    <2> HIDE DEF U
    <2>3. \A n \in 0..last : n \in U
      BY <1>0, <2>1, <2>2, CountingUp
    <2> QED
      BY <2>3 DEF U
  <1> QED
    BY <1>6, <1>7, <1>8 DEF f

(* The sums of two sequences, one after the other *)
LEMMA SumsOfBoth ==
  ASSUME NEW s, NEW t, IsSeq(s), IsSeq(t),
         \A n \in 1..Len(s) : s[n] \in Int, \A n \in 1..Len(t) : t[n] \in Int
  PROVE  /\ \A n \in 0..Len(s) : RunningSum(s \o t)[n] = RunningSum(s)[n]
         /\ \A n \in 0..Len(t) :
                RunningSum(s \o t)[Len(s) + n] = RunningSum(s)[Len(s)] + RunningSum(t)[n]
  <1> DEFINE f == RunningSum(s \o t)
             g == RunningSum(s)
             h == RunningSum(t)
             m == Len(s)
             l == Len(t)
             U == {n \in 0..m : f[n] = g[n]}
             V == {n \in 0..l : f[m + n] = g[m] + h[n]}
  <1>1. m \in Nat /\ l \in Nat
    BY SeqFacts
  <1>2. /\ IsSeq(s \o t)
        /\ Len(s \o t) = m + l
        /\ \A i \in 1..m : (s \o t)[i] = s[i]
        /\ \A i \in 1..l : (s \o t)[m + i] = t[i]
    BY Concat
  <1>3. ASSUME NEW n \in 1..(m + l) PROVE (s \o t)[n] \in Int
    <2>1. CASE n \in 1..m
      BY <1>2, <2>1
    <2>2. CASE n \notin 1..m
      <3>1. n - m \in 1..l /\ m + (n - m) = n
        BY <1>1, <2>2
      <3> QED
        BY <1>2, <3>1
    <2> QED
      BY <2>1, <2>2
  <1>4. /\ f[0] = 0
        /\ \A n \in 1..(m + l) : f[n] = f[n - 1] + (s \o t)[n]
    BY <1>2, <1>3, RunningSumFacts
  <1>5. /\ g[0] = 0 /\ \A n \in 1..m : g[n] = g[n - 1] + s[n]
        /\ \A n \in 0..m : g[n] \in Int
    BY RunningSumFacts
  <1>6. /\ h[0] = 0 /\ \A n \in 1..l : h[n] = h[n - 1] + t[n]
        /\ \A n \in 0..l : h[n] \in Int
    BY RunningSumFacts
  <1> HIDE DEF f, g, h, m, l
  <1>7. \A n \in 0..m : n \in U
    <2>1. 0 \in U
      BY <1>1, <1>4, <1>5
    <2>2. ASSUME NEW n \in 0..m, n \in U, n # m PROVE n + 1 \in U
      <3>1. n + 1 \in 1..m /\ n + 1 \in 1..(m + l) /\ (n + 1) - 1 = n
        BY <1>1, <2>2
      <3>2. f[n + 1] = f[n] + (s \o t)[n + 1] /\ g[n + 1] = g[n] + s[n + 1]
        BY <1>4, <1>5, <3>1
      <3> QED
        BY <1>2, <2>2, <3>1, <3>2
    <2> HIDE DEF U
    <2> QED
      BY <1>1, <2>1, <2>2, CountingUp
  <1>8. f[m] = g[m]
    BY <1>1, <1>7
  <1>9. \A n \in 0..l : n \in V
    <2>1. 0 \in V
      <3>1. m + 0 = m /\ g[m] + 0 = g[m]
        BY <1>1, <1>5
      <3> QED
        BY <1>1, <1>6, <1>8, <3>1
    <2>2. ASSUME NEW n \in 0..l, n \in V, n # l PROVE n + 1 \in V
      <3>1. n + 1 \in 1..l /\ m + (n + 1) \in 1..(m + l)
            /\ (n + 1) - 1 = n /\ (m + (n + 1)) - 1 = m + n
        BY <1>1, <2>2
      <3>2. /\ f[m + (n + 1)] = f[m + n] + (s \o t)[m + (n + 1)]
            /\ h[n + 1] = h[n] + t[n + 1]
            /\ (s \o t)[m + (n + 1)] = t[n + 1]
        BY <1>2, <1>4, <1>6, <3>1
      <3>3. h[n] \in Int /\ t[n + 1] \in Int /\ g[m] \in Int
        BY <1>1, <1>5, <1>6, <3>1 DEF l
      <3>4. (g[m] + h[n]) + t[n + 1] = g[m] + (h[n] + t[n + 1])
        BY <3>3
      <3>5. f[m + n] = g[m] + h[n]
        BY <2>2
      <3>6. n + 1 \in 0..l
        BY <1>1, <3>1
      <3> QED
        BY <3>2, <3>4, <3>5, <3>6
    <2> HIDE DEF V
    <2> QED
      BY <1>1, <2>1, <2>2, CountingUp
  <1> QED
    BY <1>7, <1>9 DEF f, g, h, m, l

-----------------------------------------------------------------------------
(* The items of the encoder *)

(* Items whose widths and sizes are numbers *)
IsItem(item) == ItemWidth(item) \in Nat /\ Announced(item) \in Nat

(* A sequence of items *)
AreItems(items) == IsSeq(items) /\ \A i \in 1..Len(items) : IsItem(items[i])

(* What the items of a sequence weigh: their bytes, and what they add to   *)
(* the items that are still needed                                         *)
LEMMA Weights ==
  ASSUME NEW items, AreItems(items)
  PROVE  /\ IsSeq(Widths(items)) /\ Len(Widths(items)) = Len(items)
         /\ \A i \in 1..Len(items) :
                Widths(items)[i] = ItemWidth(items[i]) /\ Widths(items)[i] \in Nat
         /\ IsSeq(Needs(items)) /\ Len(Needs(items)) = Len(items)
         /\ \A i \in 1..Len(items) :
                Needs(items)[i] = Announced(items[i]) - 1 /\ Needs(items)[i] \in Int
  <1>1. Len(items) \in Nat /\ DOMAIN items = 1..Len(items)
    BY SeqFacts DEF AreItems
  <1>2. HasLength(Widths(items), Len(items)) /\ HasLength(Needs(items), Len(items))
    BY <1>1 DEF HasLength, Widths, Needs
  <1>3. \A i \in 1..Len(items) :
            /\ Widths(items)[i] = ItemWidth(items[i]) /\ Widths(items)[i] \in Nat
            /\ Needs(items)[i] = Announced(items[i]) - 1 /\ Needs(items)[i] \in Int
    BY <1>1 DEF Widths, Needs, AreItems, IsItem
  <1> QED
    BY <1>1, <1>2, <1>3, IsSeqOfLength

(* The weights of two sequences of items, one after the other *)
LEMMA WeightsOfBoth ==
  ASSUME NEW s, NEW t, AreItems(s), AreItems(t)
  PROVE  /\ AreItems(s \o t)
         /\ Widths(s \o t) = Widths(s) \o Widths(t)
         /\ Needs(s \o t) = Needs(s) \o Needs(t)
  <1>1. /\ IsSeq(s) /\ IsSeq(t) /\ IsSeq(s \o t) /\ Len(s) \in Nat /\ Len(t) \in Nat
        /\ Len(s \o t) = Len(s) + Len(t)
        /\ \A i \in 1..Len(s) : (s \o t)[i] = s[i]
        /\ \A i \in 1..Len(t) : (s \o t)[Len(s) + i] = t[i]
    BY SeqFacts, Concat DEF AreItems
  <1>2. ASSUME NEW i \in 1..Len(s \o t), i \notin 1..Len(s)
        PROVE  i - Len(s) \in 1..Len(t) /\ Len(s) + (i - Len(s)) = i
    BY <1>1, <1>2
  <1>3. AreItems(s \o t)
    <2>1. ASSUME NEW i \in 1..Len(s \o t) PROVE IsItem((s \o t)[i])
      <3>1. CASE i \in 1..Len(s)
        BY <1>1, <3>1 DEF AreItems
      <3>2. CASE i \notin 1..Len(s)
        <4>1. (s \o t)[Len(s) + (i - Len(s))] = t[i - Len(s)] /\ i - Len(s) \in 1..Len(t)
          BY <1>1, <1>2, <3>2
        <4> QED
          BY <1>2, <3>2, <4>1 DEF AreItems
      <3> QED
        BY <3>1, <3>2
    <2> QED
      BY <1>1, <2>1 DEF AreItems
  <1>5. /\ \A i \in 1..Len(s) : i \in 1..Len(s \o t)
        /\ \A i \in 1..Len(t) : Len(s) + i \in 1..Len(s \o t)
    BY <1>1
  <1>6. Widths(s \o t) = Widths(s) \o Widths(t)
    <2> DEFINE u == Widths(s \o t)
               v == Widths(s)
               w == Widths(t)
    <2>1. /\ IsSeq(v) /\ Len(v) = Len(s)
          /\ \A i \in 1..Len(s) : v[i] = ItemWidth(s[i])
      BY Weights
    <2>2. /\ IsSeq(w) /\ Len(w) = Len(t)
          /\ \A i \in 1..Len(t) : w[i] = ItemWidth(t[i])
      BY Weights
    <2>3. /\ IsSeq(u) /\ Len(u) = Len(s \o t)
          /\ \A i \in 1..Len(s \o t) : u[i] = ItemWidth((s \o t)[i])
      BY <1>3, Weights
    <2> HIDE DEF u, v, w
    <2>4. \A i \in 1..Len(v) : u[i] = v[i]
      BY <1>1, <1>5, <2>1, <2>3
    <2>5. \A i \in 1..Len(w) : u[Len(v) + i] = w[i]
      <3>1. ASSUME NEW i \in 1..Len(t) PROVE u[Len(s) + i] = w[i]
        BY <1>1, <1>5, <2>2, <2>3
      <3> QED
        BY <2>1, <2>2, <3>1
    <2>6. IsSeq(u) /\ IsSeq(v) /\ IsSeq(w) /\ Len(u) = Len(v) + Len(w)
      BY <1>1, <2>1, <2>2, <2>3
    <2>7. u = v \o w
      <3>1. GoesThrough(u, v, w)
        BY <2>4, <2>5, <2>6 DEF GoesThrough
      <3> QED
        BY <3>1, Joined
    <2> QED
      BY <2>7 DEF u, v, w
  <1>7. Needs(s \o t) = Needs(s) \o Needs(t)
    <2> DEFINE u == Needs(s \o t)
               v == Needs(s)
               w == Needs(t)
    <2>1. /\ IsSeq(v) /\ Len(v) = Len(s)
          /\ \A i \in 1..Len(s) : v[i] = Announced(s[i]) - 1
      BY Weights
    <2>2. /\ IsSeq(w) /\ Len(w) = Len(t)
          /\ \A i \in 1..Len(t) : w[i] = Announced(t[i]) - 1
      BY Weights
    <2>3. /\ IsSeq(u) /\ Len(u) = Len(s \o t)
          /\ \A i \in 1..Len(s \o t) : u[i] = Announced((s \o t)[i]) - 1
      BY <1>3, Weights
    <2> HIDE DEF u, v, w
    <2>4. \A i \in 1..Len(v) : u[i] = v[i]
      BY <1>1, <1>5, <2>1, <2>3
    <2>5. \A i \in 1..Len(w) : u[Len(v) + i] = w[i]
      <3>1. ASSUME NEW i \in 1..Len(t) PROVE u[Len(s) + i] = w[i]
        BY <1>1, <1>5, <2>2, <2>3
      <3> QED
        BY <2>1, <2>2, <3>1
    <2>6. IsSeq(u) /\ IsSeq(v) /\ IsSeq(w) /\ Len(u) = Len(v) + Len(w)
      BY <1>1, <2>1, <2>2, <2>3
    <2>7. u = v \o w
      <3>1. GoesThrough(u, v, w)
        BY <2>4, <2>5, <2>6 DEF GoesThrough
      <3> QED
        BY <3>1, Joined
    <2> QED
      BY <2>7 DEF u, v, w
  <1> QED
    BY <1>3, <1>6, <1>7

(* ser_writer adds to the offset: the bytes of two sequences of items are  *)
(* those of the first and those of the second.                             *)
LEMMA BytesOfBoth ==
  ASSUME NEW s, NEW t, AreItems(s), AreItems(t)
  PROVE  /\ AreItems(s \o t)
         /\ BytesOf(s \o t) = BytesOf(s) + BytesOf(t)
  <1>1. /\ AreItems(s \o t) /\ Widths(s \o t) = Widths(s) \o Widths(t)
        /\ Len(s \o t) = Len(s) + Len(t) /\ Len(t) \in Nat
    BY WeightsOfBoth, SeqFacts, Concat DEF AreItems
  <1> DEFINE v == Widths(s)
             w == Widths(t)
  <1>2. IsSeq(v) /\ Len(v) = Len(s) /\ \A i \in 1..Len(s) : v[i] \in Nat
    BY Weights
  <1>3. IsSeq(w) /\ Len(w) = Len(t) /\ \A i \in 1..Len(t) : w[i] \in Nat
    BY Weights
  <1> HIDE DEF v, w
  <1>4. /\ IsSeq(v) /\ \A n \in 1..Len(v) : v[n] \in Int
        /\ IsSeq(w) /\ \A n \in 1..Len(w) : w[n] \in Int
    BY <1>2, <1>3
  <1>5. \A n \in 0..Len(w) :
            RunningSum(v \o w)[Len(v) + n] = RunningSum(v)[Len(v)] + RunningSum(w)[n]
    BY <1>4, SumsOfBoth
  <1>6. Len(w) \in 0..Len(w)
    BY <1>1, <1>3
  <1>7. RunningSum(v \o w)[Len(s) + Len(t)] = RunningSum(v)[Len(s)] + RunningSum(w)[Len(t)]
    BY <1>2, <1>3, <1>5, <1>6
  <1>8. /\ BytesOf(s) = RunningSum(v)[Len(s)] /\ BytesOf(t) = RunningSum(w)[Len(t)]
        /\ BytesOf(s \o t) = RunningSum(v \o w)[Len(s) + Len(t)]
    BY <1>1 DEF BytesOf, v, w
  <1> QED
    BY <1>1, <1>7, <1>8

-----------------------------------------------------------------------------
(* The items the encoder writes *)

(* A text announces nothing. *)
LEMMA StrItem ==
  ASSUME NEW text, TextLength(text) \in Nat
  PROVE  /\ IsItem(Str(text)) /\ ItemWidth(Str(text)) = TextSize(text)
         /\ TextSize(text) \in Nat /\ Announced(Str(text)) = 0
  <1>1. TextSize(text) \in Nat
    BY DEF TextSize, TextWidth
  <1>2. ItemWidth(Str(text)) = TextSize(text)
    BY DEF ItemWidth, Str, TextSize
  <1>3. Announced(Str(text)) = 0
    BY DEF Announced, Str
  <1> QED
    BY <1>1, <1>2, <1>3 DEF IsItem

(* An integer announces nothing. *)
LEMMA NumItem ==
  ASSUME NEW value
  PROVE  /\ IsItem(Num(value)) /\ ItemWidth(Num(value)) = NumWidth(value)
         /\ NumWidth(value) \in Nat /\ Announced(Num(value)) = 0
  <1>1. NumWidth(value) \in Nat
    BY NumWidthBound
  <1>2. ItemWidth(Num(value)) = NumWidth(value)
    BY DEF ItemWidth, Num
  <1>3. Announced(Num(value)) = 0
    BY DEF Announced, Num
  <1> QED
    BY <1>1, <1>2, <1>3 DEF IsItem

(* A truth value takes one byte. *)
LEMMA BoolItem ==
  ASSUME NEW value
  PROVE  /\ IsItem(Bool(value)) /\ ItemWidth(Bool(value)) = 1 /\ Announced(Bool(value)) = 0
  <1>1. ItemWidth(Bool(value)) = 1 /\ Announced(Bool(value)) = 0
    BY DEF ItemWidth, Announced, Bool
  <1> QED
    BY <1>1 DEF IsItem

(* A map announces a key and a value for each of its entries. *)
LEMMA MapItem ==
  ASSUME NEW size \in Nat
  PROVE  /\ IsItem(Map(size)) /\ ItemWidth(Map(size)) = 1 /\ Announced(Map(size)) = 2 * size
  <1>1. ItemWidth(Map(size)) = 1 /\ Announced(Map(size)) = 2 * size
    BY DEF ItemWidth, Announced, Map
  <1> QED
    BY <1>1 DEF IsItem

(* An array announces its elements. *)
LEMMA ArrayItem ==
  ASSUME NEW size \in Nat
  PROVE  /\ IsItem(Array(size)) /\ ItemWidth(Array(size)) = CountWidth(size)
         /\ CountWidth(size) \in Nat /\ Announced(Array(size)) = size
  <1>1. CountWidth(size) \in Nat
    BY CountWidthBound
  <1>2. ItemWidth(Array(size)) = CountWidth(size) /\ Announced(Array(size)) = size
    BY DEF ItemWidth, Announced, Array
  <1> QED
    BY <1>1, <1>2 DEF IsItem

(* Texts of a length below 32 take one byte more. *)
LEMMA ShortText ==
  ASSUME NEW text, NEW length \in 0..31, TextLength(text) = length
  PROVE  /\ IsItem(Str(text)) /\ ItemWidth(Str(text)) = 1 + length
         /\ Announced(Str(text)) = 0
  <1>1. TextSize(text) = 1 + length /\ TextLength(text) \in Nat
    BY DEF TextSize, TextWidth
  <1> QED
    BY <1>1, StrItem

(* The lengths of the texts the code writes, one by one *)
LEMMA FixedTexts ==
  /\ TextLength("a") = 1 /\ TextLength("b") = 1 /\ TextLength("c") = 1
  /\ TextLength("f") = 1 /\ TextLength("o") = 1 /\ TextLength("p") = 1
  /\ TextLength("r") = 1 /\ TextLength("s") = 1 /\ TextLength("t") = 1
  /\ TextLength("tp") = 2 /\ TextLength("sl") = 2 /\ TextLength("na") = 2
  /\ TextLength("oid") = 3 /\ TextLength("tif") = 3
  /\ TextLength("Alo") = 3 /\ TextLength("Ioc") = 3 /\ TextLength("Gtc") = 3
  /\ TextLength("type") = 4 /\ TextLength("tpsl") = 4 /\ TextLength("ntli") = 4
  /\ TextLength("order") = 5 /\ TextLength("limit") = 5
  /\ TextLength("asset") = 5 /\ TextLength("isBuy") = 5
  /\ TextLength("orders") = 6 /\ TextLength("cancel") = 6
  /\ TextLength("trigger") = 7 /\ TextLength("cancels") = 7
  /\ TextLength("builder") = 7 /\ TextLength("isCross") = 7
  /\ TextLength("isMarket") = 8 /\ TextLength("modifies") = 8
  /\ TextLength("grouping") = 8 /\ TextLength("leverage") = 8
  /\ TextLength("triggerPx") = 9 /\ TextLength("normalTpsl") = 10
  /\ TextLength("batchModify") = 11 /\ TextLength("positionTpsl") = 12
  /\ TextLength("updateLeverage") = 14 /\ TextLength("updateIsolatedMargin") = 20
  BY FixedTextsAssumption

(* The sums over a few items *)
LEMMA SumsOfItems ==
  ASSUME NEW n \in Nat, NEW items, HasLength(items, n), \A i \in 1..n : IsItem(items[i])
  PROVE  /\ AreItems(items) /\ Len(items) = n
         /\ RunningSum(Widths(items))[0] = 0
         /\ \A i \in 1..n : RunningSum(Widths(items))[i] =
                                RunningSum(Widths(items))[i - 1] + ItemWidth(items[i])
         /\ BytesOf(items) = RunningSum(Widths(items))[n]
         /\ RunningSum(Needs(items))[0] = 0
         /\ \A i \in 1..n : RunningSum(Needs(items))[i] =
                                RunningSum(Needs(items))[i - 1] + (Announced(items[i]) - 1)
  <1> DEFINE v == Widths(items)
             w == Needs(items)
  <1>1. AreItems(items) /\ Len(items) = n
    BY IsSeqOfLength DEF AreItems
  <1>2. /\ IsSeq(v) /\ Len(v) = n
        /\ \A i \in 1..n : v[i] = ItemWidth(items[i]) /\ v[i] \in Int
    BY <1>1, Weights
  <1>3. /\ IsSeq(w) /\ Len(w) = n
        /\ \A i \in 1..n : w[i] = Announced(items[i]) - 1 /\ w[i] \in Int
    BY <1>1, Weights
  <1>4. BytesOf(items) = RunningSum(v)[n]
    BY <1>1 DEF BytesOf
  <1> HIDE DEF v, w
  <1>5. RunningSum(v)[0] = 0 /\ \A i \in 1..n : RunningSum(v)[i] = RunningSum(v)[i - 1] + v[i]
    BY <1>2, RunningSumFacts
  <1>6. RunningSum(w)[0] = 0 /\ \A i \in 1..n : RunningSum(w)[i] = RunningSum(w)[i - 1] + w[i]
    BY <1>3, RunningSumFacts
  <1> QED
    BY <1>1, <1>2, <1>3, <1>4, <1>5, <1>6 DEF v, w

(* What is written, request after request *)
LEMMA ThroughFacts ==
  ASSUME NEW a, Len(RequestsOf(a)) \in Nat
  PROVE  /\ ItemsThrough(a, 0) = HeaderItems(a)
         /\ \A n \in 1..Len(RequestsOf(a)) :
                ItemsThrough(a, n) = ItemsThrough(a, n - 1) \o RequestItems(a, n)
  <1> DEFINE last == Len(RequestsOf(a))
             Through(g, m) ==
                 g = [i \in 0..m |-> IF i = 0 THEN HeaderItems(a)
                                     ELSE g[i - 1] \o RequestItems(a, i)]
             S == {m \in 0..last : \E g : Through(g, m)}
  <1>1. 0 \in S
    <2>1. Through([i \in 0..0 |-> HeaderItems(a)], 0)
      OBVIOUS
    <2> HIDE DEF Through
    <2> QED
      BY <2>1
  <1>2. ASSUME NEW m \in 0..last, m \in S, m # last PROVE m + 1 \in S
    <2>1. PICK g : Through(g, m)
      BY <1>2
    <2> DEFINE h == [i \in 0..(m + 1) |-> IF i <= m THEN g[i] ELSE g[m] \o RequestItems(a, m + 1)]
    <2>2. Through(h, m + 1)
      <3>1. ASSUME NEW i \in 0..(m + 1)
            PROVE  h[i] = IF i = 0 THEN HeaderItems(a) ELSE h[i - 1] \o RequestItems(a, i)
        <4>1. CASE i = 0
          BY <2>1, <4>1
        <4>2. CASE i \in 1..m
          <5>1. /\ i \in 0..m /\ i - 1 \in 0..m /\ i - 1 \in 0..(m + 1)
                /\ i # 0 /\ i <= m /\ i - 1 <= m
            BY <4>2
          <5>2. h[i] = g[i] /\ h[i - 1] = g[i - 1]
            BY <5>1
          <5>3. g[i] = g[i - 1] \o RequestItems(a, i)
            BY <2>1, <5>1
          <5> QED
            BY <5>1, <5>2, <5>3
        <4>3. CASE i = m + 1
          <5>1. i # 0 /\ ~(i <= m) /\ i - 1 = m /\ m \in 0..(m + 1) /\ m <= m
            BY <4>3
          <5> QED
            BY <4>3, <5>1
        <4> QED
          BY <4>1, <4>2, <4>3
      <3> QED
        BY <3>1
    <2>3. m + 1 \in 0..last
      BY <1>2
    <2> HIDE DEF Through, h
    <2> QED
      BY <2>2, <2>3
  <1>3. last \in S
    <2> HIDE DEF S, last
    <2>1. last \in Nat
      BY DEF last
    <2>2. \A m \in 0..last : m \in S
      BY <1>1, <1>2, <2>1, CountingUp
    <2> QED
      BY <2>1, <2>2
  <1> DEFINE f == CHOOSE g : Through(g, last)
  <1>4. Through(f, last)
    <2>1. \E g : Through(g, last)
      BY <1>3
    <2> HIDE DEF Through, last
    <2> QED
      BY <2>1
  <1>5. \A n : ItemsThrough(a, n) = f[n]
    BY DEF ItemsThrough
  <1> HIDE DEF f
  <1>6. \A n \in 0..last : f[n] = IF n = 0 THEN HeaderItems(a) ELSE f[n - 1] \o RequestItems(a, n)
    BY <1>4
  <1> HIDE DEF last, Through, S
  <1>7. last \in Nat
    BY DEF last
  <1>8. ItemsThrough(a, 0) = HeaderItems(a)
    <2>1. 0 \in 0..last
      BY <1>7
    <2>2. f[0] = HeaderItems(a)
      BY <1>6, <2>1
    <2> QED
      BY <1>5, <2>2
  <1>9. ASSUME NEW n \in 1..last
        PROVE  ItemsThrough(a, n) = ItemsThrough(a, n - 1) \o RequestItems(a, n)
    <2>1. n \in 0..last /\ n # 0
      BY <1>7
    <2>2. f[n] = f[n - 1] \o RequestItems(a, n)
      BY <1>6, <2>1
    <2> QED
      BY <1>5, <2>2
  <1> QED
    BY <1>8, <1>9 DEF last

(* Items take a number of bytes. *)
LEMMA BytesAreNat ==
  ASSUME NEW s, AreItems(s) PROVE BytesOf(s) \in Nat
  <1> DEFINE w == Widths(s)
             f == RunningSum(w)
             last == Len(w)
             U == {n \in 0..last : f[n] \in Nat}
  <1>1. /\ IsSeq(w) /\ Len(w) = Len(s) /\ \A n \in 1..Len(s) : w[n] \in Nat
        /\ Len(s) \in Nat
    BY Weights, SeqFacts DEF AreItems
  <1> HIDE DEF w
  <1>2. f[0] = 0 /\ \A n \in 1..last : f[n] = f[n - 1] + w[n]
    BY <1>1, RunningSumFacts
  <1>3. last \in Nat /\ last = Len(s)
    BY <1>1
  <1> HIDE DEF f, last
  <1>4. 0 \in U
    BY <1>2, <1>3
  <1>5. ASSUME NEW n \in 0..last, n \in U, n # last PROVE n + 1 \in U
    <2>1. n + 1 \in 1..last /\ n + 1 \in 0..last /\ (n + 1) - 1 = n
      BY <1>3, <1>5
    <2>2. f[n + 1] = f[n] + w[n + 1]
      BY <1>2, <2>1
    <2> QED
      BY <1>1, <1>3, <1>5, <2>1, <2>2
  <1> HIDE DEF U
  <1>6. \A n \in 0..last : n \in U
    BY <1>3, <1>4, <1>5, CountingUp
  <1>7. f[last] \in Nat
    BY <1>3, <1>6 DEF U
  <1> QED
    BY <1>3, <1>7 DEF BytesOf, f, w

(* The bytes of an explicit tuple *)
LEMMA FewItems ==
  ASSUME NEW n \in 0..13, NEW s, HasLength(s, n), \A i \in 1..n : IsItem(s[i])
  PROVE  /\ AreItems(s) /\ Len(s) = n /\ BytesOf(s) \in Nat
         /\ n = 2 => BytesOf(s) =
                ItemWidth(s[1]) + ItemWidth(s[2])
         /\ n = 4 => BytesOf(s) =
                ItemWidth(s[1]) + ItemWidth(s[2]) + ItemWidth(s[3]) + ItemWidth(s[4])
         /\ n = 5 => BytesOf(s) =
                ItemWidth(s[1]) + ItemWidth(s[2]) + ItemWidth(s[3]) + ItemWidth(s[4])
                + ItemWidth(s[5])
         /\ n = 6 => BytesOf(s) =
                ItemWidth(s[1]) + ItemWidth(s[2]) + ItemWidth(s[3]) + ItemWidth(s[4])
                + ItemWidth(s[5]) + ItemWidth(s[6])
         /\ n = 8 => BytesOf(s) =
                ItemWidth(s[1]) + ItemWidth(s[2]) + ItemWidth(s[3]) + ItemWidth(s[4])
                + ItemWidth(s[5]) + ItemWidth(s[6]) + ItemWidth(s[7]) + ItemWidth(s[8])
         /\ n = 9 => BytesOf(s) =
                ItemWidth(s[1]) + ItemWidth(s[2]) + ItemWidth(s[3]) + ItemWidth(s[4])
                + ItemWidth(s[5]) + ItemWidth(s[6]) + ItemWidth(s[7]) + ItemWidth(s[8])
                + ItemWidth(s[9])
         /\ n = 13 => BytesOf(s) =
                ItemWidth(s[1]) + ItemWidth(s[2]) + ItemWidth(s[3]) + ItemWidth(s[4])
                + ItemWidth(s[5]) + ItemWidth(s[6]) + ItemWidth(s[7]) + ItemWidth(s[8])
                + ItemWidth(s[9]) + ItemWidth(s[10]) + ItemWidth(s[11]) + ItemWidth(s[12])
                + ItemWidth(s[13])
  <1> DEFINE f == RunningSum(Widths(s))
  <1>1. /\ AreItems(s) /\ Len(s) = n /\ BytesOf(s) = f[n]
        /\ f[0] = 0 /\ \A i \in 1..n : f[i] = f[i - 1] + ItemWidth(s[i])
    BY SumsOfItems
  <1>2. BytesOf(s) \in Nat
    BY <1>1, BytesAreNat
  <1> HIDE DEF f
  <1>3. \A i \in 1..n : ItemWidth(s[i]) \in Nat
    BY DEF IsItem
  <1>4. CASE n = 2
    <2>1. /\ f[1] = f[0] + ItemWidth(s[1]) /\ f[2] = f[1] + ItemWidth(s[2])
      BY <1>1, <1>4
    <2> QED
      BY <1>1, <1>2, <1>3, <1>4, <2>1
  <1>5. CASE n = 4
    <2>1. /\ f[1] = f[0] + ItemWidth(s[1]) /\ f[2] = f[1] + ItemWidth(s[2])
          /\ f[3] = f[2] + ItemWidth(s[3]) /\ f[4] = f[3] + ItemWidth(s[4])
      BY <1>1, <1>5
    <2> QED
      BY <1>1, <1>2, <1>3, <1>5, <2>1
  <1>6. CASE n = 5
    <2>1. /\ f[1] = f[0] + ItemWidth(s[1]) /\ f[2] = f[1] + ItemWidth(s[2])
          /\ f[3] = f[2] + ItemWidth(s[3]) /\ f[4] = f[3] + ItemWidth(s[4])
          /\ f[5] = f[4] + ItemWidth(s[5])
      BY <1>1, <1>6
    <2> QED
      BY <1>1, <1>2, <1>3, <1>6, <2>1
  <1>7. CASE n = 6
    <2>1. /\ f[1] = f[0] + ItemWidth(s[1]) /\ f[2] = f[1] + ItemWidth(s[2])
          /\ f[3] = f[2] + ItemWidth(s[3]) /\ f[4] = f[3] + ItemWidth(s[4])
          /\ f[5] = f[4] + ItemWidth(s[5]) /\ f[6] = f[5] + ItemWidth(s[6])
      BY <1>1, <1>7
    <2> QED
      BY <1>1, <1>2, <1>3, <1>7, <2>1
  <1>8. CASE n = 8
    <2>1. /\ f[1] = f[0] + ItemWidth(s[1]) /\ f[2] = f[1] + ItemWidth(s[2])
          /\ f[3] = f[2] + ItemWidth(s[3]) /\ f[4] = f[3] + ItemWidth(s[4])
          /\ f[5] = f[4] + ItemWidth(s[5]) /\ f[6] = f[5] + ItemWidth(s[6])
          /\ f[7] = f[6] + ItemWidth(s[7]) /\ f[8] = f[7] + ItemWidth(s[8])
      BY <1>1, <1>8
    <2> QED
      BY <1>1, <1>2, <1>3, <1>8, <2>1
  <1>9. CASE n = 9
    <2>1. /\ f[1] = f[0] + ItemWidth(s[1]) /\ f[2] = f[1] + ItemWidth(s[2])
          /\ f[3] = f[2] + ItemWidth(s[3]) /\ f[4] = f[3] + ItemWidth(s[4])
          /\ f[5] = f[4] + ItemWidth(s[5]) /\ f[6] = f[5] + ItemWidth(s[6])
          /\ f[7] = f[6] + ItemWidth(s[7]) /\ f[8] = f[7] + ItemWidth(s[8])
          /\ f[9] = f[8] + ItemWidth(s[9])
      BY <1>1, <1>9
    <2> QED
      BY <1>1, <1>2, <1>3, <1>9, <2>1
  <1>10. CASE n = 13
    <2>1. /\ f[1] = f[0] + ItemWidth(s[1]) /\ f[2] = f[1] + ItemWidth(s[2])
          /\ f[3] = f[2] + ItemWidth(s[3]) /\ f[4] = f[3] + ItemWidth(s[4])
          /\ f[5] = f[4] + ItemWidth(s[5]) /\ f[6] = f[5] + ItemWidth(s[6])
          /\ f[7] = f[6] + ItemWidth(s[7]) /\ f[8] = f[7] + ItemWidth(s[8])
          /\ f[9] = f[8] + ItemWidth(s[9]) /\ f[10] = f[9] + ItemWidth(s[10])
          /\ f[11] = f[10] + ItemWidth(s[11]) /\ f[12] = f[11] + ItemWidth(s[12])
          /\ f[13] = f[12] + ItemWidth(s[13])
      BY <1>1, <1>10
    <2> QED
      BY <1>1, <1>2, <1>3, <1>10, <2>1
  <1> QED
    BY <1>1, <1>2, <1>4, <1>5, <1>6, <1>7, <1>8, <1>9, <1>10

(* The items of the fixed texts *)
FixedItem(text, width) ==
    IsItem(Str(text)) /\ ItemWidth(Str(text)) = width /\ Announced(Str(text)) = 0

(* The bytes of the texts the code writes, one by one *)
LEMMA FixedItems ==
  /\ FixedItem("a", 2) /\ FixedItem("b", 2) /\ FixedItem("c", 2)
  /\ FixedItem("f", 2) /\ FixedItem("o", 2) /\ FixedItem("p", 2)
  /\ FixedItem("r", 2) /\ FixedItem("s", 2) /\ FixedItem("t", 2)
  /\ FixedItem("tp", 3) /\ FixedItem("sl", 3) /\ FixedItem("na", 3)
  /\ FixedItem("oid", 4) /\ FixedItem("tif", 4) /\ FixedItem("Alo", 4)
  /\ FixedItem("Ioc", 4) /\ FixedItem("Gtc", 4)
  /\ FixedItem("type", 5) /\ FixedItem("tpsl", 5) /\ FixedItem("ntli", 5)
  /\ FixedItem("order", 6) /\ FixedItem("limit", 6) /\ FixedItem("asset", 6)
  /\ FixedItem("isBuy", 6)
  /\ FixedItem("orders", 7) /\ FixedItem("cancel", 7)
  /\ FixedItem("trigger", 8) /\ FixedItem("cancels", 8) /\ FixedItem("builder", 8)
  /\ FixedItem("isCross", 8)
  /\ FixedItem("isMarket", 9) /\ FixedItem("modifies", 9) /\ FixedItem("grouping", 9)
  /\ FixedItem("leverage", 9)
  /\ FixedItem("triggerPx", 10)
  /\ FixedItem("normalTpsl", 11)
  /\ FixedItem("batchModify", 12)
  /\ FixedItem("positionTpsl", 13)
  /\ FixedItem("updateLeverage", 15)
  /\ FixedItem("updateIsolatedMargin", 21)
  <1>1. ASSUME NEW text, NEW length \in 0..31, TextLength(text) = length
        PROVE  FixedItem(text, 1 + length)
    BY <1>1, ShortText DEF FixedItem
  <1>2. \A text : /\ TextLength(text) = 1 => FixedItem(text, 2)
                  /\ TextLength(text) = 2 => FixedItem(text, 3)
                  /\ TextLength(text) = 3 => FixedItem(text, 4)
                  /\ TextLength(text) = 4 => FixedItem(text, 5)
                  /\ TextLength(text) = 5 => FixedItem(text, 6)
                  /\ TextLength(text) = 6 => FixedItem(text, 7)
                  /\ TextLength(text) = 7 => FixedItem(text, 8)
                  /\ TextLength(text) = 8 => FixedItem(text, 9)
                  /\ TextLength(text) = 9 => FixedItem(text, 10)
                  /\ TextLength(text) = 10 => FixedItem(text, 11)
                  /\ TextLength(text) = 11 => FixedItem(text, 12)
                  /\ TextLength(text) = 12 => FixedItem(text, 13)
                  /\ TextLength(text) = 14 => FixedItem(text, 15)
                  /\ TextLength(text) = 20 => FixedItem(text, 21)
    BY <1>1
  <1> QED
    BY <1>2, FixedTexts
(* The bytes of two items, as of a key and its value *)
LEMMA TwoItems ==
  ASSUME NEW a, NEW b, IsItem(a), IsItem(b)
  PROVE  /\ AreItems(<<a, b>>) /\ Len(<<a, b>>) = 2
         /\ BytesOf(<<a, b>>) = ItemWidth(a) + ItemWidth(b)
  <1> DEFINE s == <<a, b>>
  <1>1. HasLength(s, 2)
    BY DEF HasLength
  <1>2. s[1] = a /\ s[2] = b
    OBVIOUS
  <1> HIDE DEF s
  <1>3. \A i \in 1..2 : IsItem(s[i])
    BY <1>2
  <1>4. AreItems(s) /\ Len(s) = 2 /\ BytesOf(s) = ItemWidth(s[1]) + ItemWidth(s[2])
    BY <1>1, <1>3, FewItems
  <1> QED
    BY <1>2, <1>4 DEF s

-----------------------------------------------------------------------------
(* The bytes of an order *)

(* The parts of an order: order_request_serialize up to the kind, the kind,*)
(* the client order id                                                     *)
OrderHead(order) ==
    <<OrderMap(order), Str("a"), Num(order.asset), Str("b"), Bool(order.is_buy),
      Str("p"), Str(order.limit_px), Str("s"), Str(order.sz),
      Str("r"), Bool(order.reduce_only), Str("t"), Map(1)>>

OrderKind(order) ==
    IF order.order_type = "LIMIT" THEN LimitItems(order.limit) ELSE TriggerItems(order.trigger)

OrderCloid(order) == IF order.cloid # Absent THEN <<Str("c"), Str(order.cloid)>> ELSE <<>>

(* An order is written in three parts: the head, the kind, the client order*)
(* id (order_request.c:334-405).                                           *)
LEMMA OrderParts ==
  ASSUME NEW order
  PROVE  OrderItems(order) = (OrderHead(order) \o OrderKind(order)) \o OrderCloid(order)
  BY DEF OrderItems, OrderHead, OrderKind, OrderCloid

(* A price or a size is an item. *)
LEMMA NumericItem ==
  ASSUME NEW text \in NumericTexts
  PROVE  IsItem(Str(text)) /\ ItemWidth(Str(text)) = TextSize(text) /\ Announced(Str(text)) = 0
  <1>1. TextLength(text) \in Nat
    BY NumericTextsAssumption
  <1> QED
    BY <1>1, StrItem

(* A client order id takes 36 bytes, an address 44. *)
LEMMA HexItem ==
  /\ \A text \in Cloids :
         IsItem(Str(text)) /\ ItemWidth(Str(text)) = 36 /\ Announced(Str(text)) = 0
  /\ \A text \in Addresses :
         IsItem(Str(text)) /\ ItemWidth(Str(text)) = 44 /\ Announced(Str(text)) = 0
  <1>1. ASSUME NEW text, TextLength(text) \in {34, 42}
        PROVE  IsItem(Str(text)) /\ ItemWidth(Str(text)) = 2 + TextLength(text)
               /\ Announced(Str(text)) = 0
    <2>1. TextLength(text) \in Nat /\ TextSize(text) = 2 + TextLength(text)
      BY <1>1 DEF TextSize, TextWidth
    <2> QED
      BY <2>1, StrItem
  <1> QED
    BY <1>1, HexTextsAssumption

(* The map of an order takes one byte and announces six or seven entries   *)
(* (order_request.c:335).                                                  *)
LEMMA OrderMapItem ==
  ASSUME NEW order
  PROVE  /\ IsItem(OrderMap(order)) /\ ItemWidth(OrderMap(order)) = 1
         /\ Announced(OrderMap(order)) = IF order.cloid # Absent THEN 14 ELSE 12
  <1>1. /\ IsItem(Map(6)) /\ ItemWidth(Map(6)) = 1 /\ Announced(Map(6)) = 12
        /\ IsItem(Map(7)) /\ ItemWidth(Map(7)) = 1 /\ Announced(Map(7)) = 14
    BY MapItem
  <1> QED
    BY <1>1 DEF OrderMap

(* The head of an order is thirteen items, and these are their bytes. *)
LEMMA OrderHeadItems ==
  ASSUME NEW order \in OrderRequests
  PROVE  /\ HasLength(OrderHead(order), 13)
         /\ AreItems(OrderHead(order)) /\ Len(OrderHead(order)) = 13
         /\ BytesOf(OrderHead(order)) =
                16 + NumWidth(order.asset) + TextSize(order.limit_px) + TextSize(order.sz)
  <1> DEFINE s == OrderHead(order)
  <1>1. HasLength(s, 13)
    BY DEF HasLength, OrderHead
  <1>2. /\ s[1] = OrderMap(order) /\ s[2] = Str("a") /\ s[3] = Num(order.asset)
        /\ s[4] = Str("b") /\ s[5] = Bool(order.is_buy) /\ s[6] = Str("p")
        /\ s[7] = Str(order.limit_px) /\ s[8] = Str("s") /\ s[9] = Str(order.sz)
        /\ s[10] = Str("r") /\ s[11] = Bool(order.reduce_only) /\ s[12] = Str("t")
        /\ s[13] = Map(1)
    BY DEF OrderHead
  <1> HIDE DEF s
  <1>3. /\ IsItem(s[1]) /\ ItemWidth(s[1]) = 1
        /\ IsItem(s[3]) /\ ItemWidth(s[3]) = NumWidth(order.asset)
        /\ IsItem(s[5]) /\ ItemWidth(s[5]) = 1
        /\ IsItem(s[11]) /\ ItemWidth(s[11]) = 1
        /\ IsItem(s[13]) /\ ItemWidth(s[13]) = 1
    BY <1>2, OrderMapItem, NumItem, BoolItem, MapItem
  <1>4. /\ IsItem(s[7]) /\ ItemWidth(s[7]) = TextSize(order.limit_px)
        /\ IsItem(s[9]) /\ ItemWidth(s[9]) = TextSize(order.sz)
    BY <1>2, OrderFields, NumericItem
  <1>5. /\ IsItem(s[2]) /\ ItemWidth(s[2]) = 2 /\ IsItem(s[4]) /\ ItemWidth(s[4]) = 2
        /\ IsItem(s[6]) /\ ItemWidth(s[6]) = 2 /\ IsItem(s[8]) /\ ItemWidth(s[8]) = 2
        /\ IsItem(s[10]) /\ ItemWidth(s[10]) = 2 /\ IsItem(s[12]) /\ ItemWidth(s[12]) = 2
    BY <1>2, FixedItems DEF FixedItem
  <1>6. \A i \in 1..13 : IsItem(s[i])
    BY <1>3, <1>4, <1>5
  <1>7. /\ AreItems(s) /\ Len(s) = 13
        /\ BytesOf(s) = ItemWidth(s[1]) + ItemWidth(s[2]) + ItemWidth(s[3]) + ItemWidth(s[4])
               + ItemWidth(s[5]) + ItemWidth(s[6]) + ItemWidth(s[7]) + ItemWidth(s[8])
               + ItemWidth(s[9]) + ItemWidth(s[10]) + ItemWidth(s[11]) + ItemWidth(s[12])
               + ItemWidth(s[13])
    BY <1>1, <1>6, FewItems
  <1>8. NumWidth(order.asset) \in Nat /\ TextSize(order.limit_px) \in Nat
        /\ TextSize(order.sz) \in Nat
    BY <1>3, <1>4 DEF IsItem
  <1>9. BytesOf(s) = 16 + NumWidth(order.asset) + TextSize(order.limit_px) + TextSize(order.sz)
    BY <1>3, <1>4, <1>5, <1>7, <1>8
  <1> QED
    BY <1>1, <1>7, <1>9 DEF s

(* Nothing takes no bytes. *)
LEMMA NoItems ==
  AreItems(<<>>) /\ Len(<<>>) = 0 /\ BytesOf(<<>>) = 0
  <1> DEFINE s == <<>>
  <1>1. HasLength(s, 0)
    BY DEF HasLength
  <1> HIDE DEF s
  <1>2. \A i \in 1..0 : IsItem(s[i])
    OBVIOUS
  <1>3. AreItems(s) /\ Len(s) = 0 /\ RunningSum(Widths(s))[0] = 0
        /\ BytesOf(s) = RunningSum(Widths(s))[0]
    BY <1>1, <1>2, SumsOfItems
  <1> QED
    BY <1>3 DEF s

(* The kind of a limit order: four items of 15 bytes                       *)
(* (order_request.c:55-84)                                                 *)
LEMMA LimitKindItems ==
  ASSUME NEW order \in LimitOrders
  PROVE  /\ HasLength(LimitItems(order.limit), 4)
         /\ AreItems(LimitItems(order.limit)) /\ Len(LimitItems(order.limit)) = 4
         /\ BytesOf(LimitItems(order.limit)) = 15
  <1> DEFINE s == LimitItems(order.limit)
  <1>1. HasLength(s, 4)
    BY DEF HasLength, LimitItems
  <1>2. /\ s[1] = Str("limit") /\ s[2] = Map(1) /\ s[3] = Str("tif")
        /\ s[4] = Str(TifText(order.limit.tif))
    BY DEF LimitItems
  <1> HIDE DEF s
  <1>3. order.limit.tif \in {"ALO", "IOC", "GTC"}
    BY DEF LimitOrders
  <1>4. TifText(order.limit.tif) \in {"Alo", "Ioc", "Gtc"}
    BY <1>3 DEF TifText
  <1>5. /\ IsItem(s[1]) /\ ItemWidth(s[1]) = 6
        /\ IsItem(s[3]) /\ ItemWidth(s[3]) = 4
        /\ IsItem(s[4]) /\ ItemWidth(s[4]) = 4
    BY <1>2, <1>4, FixedItems DEF FixedItem
  <1>6. IsItem(s[2]) /\ ItemWidth(s[2]) = 1
    BY <1>2, MapItem
  <1>7. \A i \in 1..4 : IsItem(s[i])
    BY <1>5, <1>6
  <1>8. /\ AreItems(s) /\ Len(s) = 4
        /\ BytesOf(s) = ItemWidth(s[1]) + ItemWidth(s[2]) + ItemWidth(s[3]) + ItemWidth(s[4])
    BY <1>1, <1>7, FewItems
  <1> QED
    BY <1>1, <1>5, <1>6, <1>8 DEF s

(* The kind of a trigger order: eight items (order_request.c:141-179) *)
LEMMA TriggerKindItems ==
  ASSUME NEW order \in TriggerOrders
  PROVE  /\ HasLength(TriggerItems(order.trigger), 8)
         /\ AreItems(TriggerItems(order.trigger)) /\ Len(TriggerItems(order.trigger)) = 8
         /\ BytesOf(TriggerItems(order.trigger)) = 37 + TextSize(order.trigger.trigger_px)
  <1> DEFINE s == TriggerItems(order.trigger)
  <1>1. HasLength(s, 8)
    BY DEF HasLength, TriggerItems
  <1>2. /\ s[1] = Str("trigger") /\ s[2] = Map(3) /\ s[3] = Str("isMarket")
        /\ s[4] = Bool(order.trigger.is_market) /\ s[5] = Str("triggerPx")
        /\ s[6] = Str(order.trigger.trigger_px) /\ s[7] = Str("tpsl")
        /\ s[8] = Str(IF order.trigger.tpsl = "TP" THEN "tp" ELSE "sl")
    BY DEF TriggerItems
  <1> HIDE DEF s
  <1>3. order.trigger.trigger_px \in NumericTexts
    BY DEF TriggerOrders
  <1>4. /\ IsItem(s[1]) /\ ItemWidth(s[1]) = 8
        /\ IsItem(s[3]) /\ ItemWidth(s[3]) = 9
        /\ IsItem(s[5]) /\ ItemWidth(s[5]) = 10
        /\ IsItem(s[7]) /\ ItemWidth(s[7]) = 5
        /\ IsItem(s[8]) /\ ItemWidth(s[8]) = 3
    BY <1>2, FixedItems DEF FixedItem
  <1>5. /\ IsItem(s[2]) /\ ItemWidth(s[2]) = 1 /\ IsItem(s[4]) /\ ItemWidth(s[4]) = 1
    BY <1>2, MapItem, BoolItem
  <1>6. IsItem(s[6]) /\ ItemWidth(s[6]) = TextSize(order.trigger.trigger_px)
    BY <1>2, <1>3, NumericItem
  <1>7. \A i \in 1..8 : IsItem(s[i])
    BY <1>4, <1>5, <1>6
  <1>8. /\ AreItems(s) /\ Len(s) = 8
        /\ BytesOf(s) = ItemWidth(s[1]) + ItemWidth(s[2]) + ItemWidth(s[3]) + ItemWidth(s[4])
               + ItemWidth(s[5]) + ItemWidth(s[6]) + ItemWidth(s[7]) + ItemWidth(s[8])
    BY <1>1, <1>7, FewItems
  <1>9. BytesOf(s) = 37 + TextSize(order.trigger.trigger_px)
    BY <1>4, <1>5, <1>6, <1>8 DEF IsItem
  <1> QED
    BY <1>1, <1>8, <1>9 DEF s

(* The kind of an order takes the bytes that OrderSize counts for it. *)
LEMMA OrderKindItems ==
  ASSUME NEW order \in OrderRequests
  PROVE  /\ AreItems(OrderKind(order))
         /\ BytesOf(OrderKind(order)) =
                IF order.order_type = "LIMIT" THEN 15 ELSE 37 + TextSize(order.trigger.trigger_px)
  <1>1. CASE order.order_type = "LIMIT"
    <2>1. order \in LimitOrders
      BY <1>1, OrderFields
    <2> QED
      BY <1>1, <2>1, LimitKindItems DEF OrderKind
  <1>2. CASE order.order_type # "LIMIT"
    <2>1. order \in TriggerOrders
      BY <1>2, OrderFields
    <2> QED
      BY <1>2, <2>1, TriggerKindItems DEF OrderKind
  <1> QED
    BY <1>1, <1>2

(* The client order id takes 38 bytes, or none if it was not sent. *)
LEMMA OrderCloidItems ==
  ASSUME NEW order \in OrderRequests
  PROVE  /\ AreItems(OrderCloid(order))
         /\ BytesOf(OrderCloid(order)) = IF order.cloid # Absent THEN 38 ELSE 0
  <1>1. CASE order.cloid # Absent
    <2>1. order.cloid \in Cloids
      BY <1>1, OrderFields
    <2>2. IsItem(Str("c")) /\ ItemWidth(Str("c")) = 2
      BY FixedItems DEF FixedItem
    <2>3. IsItem(Str(order.cloid)) /\ ItemWidth(Str(order.cloid)) = 36
      BY <2>1, HexItem
    <2>4. /\ AreItems(<<Str("c"), Str(order.cloid)>>)
          /\ BytesOf(<<Str("c"), Str(order.cloid)>>) = 38
      BY <2>2, <2>3, TwoItems
    <2> QED
      BY <1>1, <2>4 DEF OrderCloid
  <1>2. CASE order.cloid = Absent
    BY <1>2, NoItems DEF OrderCloid
  <1> QED
    BY <1>1, <1>2

(* An order takes as many bytes as its items. *)
LEMMA OrderBytes ==
  ASSUME NEW order \in OrderRequests
  PROVE  AreItems(OrderItems(order)) /\ BytesOf(OrderItems(order)) = OrderSize(order)
  <1> DEFINE h == OrderHead(order)
             k == OrderKind(order)
             c == OrderCloid(order)
  <1>1. AreItems(h) /\ AreItems(k) /\ AreItems(c)
    BY OrderHeadItems, OrderKindItems, OrderCloidItems
  <1>2. AreItems(h \o k) /\ BytesOf(h \o k) = BytesOf(h) + BytesOf(k)
    BY <1>1, BytesOfBoth
  <1>3. /\ AreItems((h \o k) \o c)
        /\ BytesOf((h \o k) \o c) = BytesOf(h \o k) + BytesOf(c)
    BY <1>1, <1>2, BytesOfBoth
  <1>4. BytesOf((h \o k) \o c) = BytesOf(h) + BytesOf(k) + BytesOf(c)
    BY <1>2, <1>3
  <1>5. BytesOf(h) + BytesOf(k) + BytesOf(c) = OrderSize(order)
    BY OrderHeadItems, OrderKindItems, OrderCloidItems DEF OrderSize
  <1> QED
    BY <1>3, <1>4, <1>5, OrderParts

-----------------------------------------------------------------------------
(* The bytes of an action *)

(* The requests of an action can be counted. *)
LEMMA CountIsNat ==
  ASSUME NEW a, IsParsed(a)
  PROVE  Len(RequestsOf(a)) \in Nat
  <1>1. CASE a.type = "BULK_ORDER"
    <2>1. a.body.orders \in Seq(OrderRequests)
      BY <1>1 DEF IsParsed, BulkOrders
    <2> QED
      BY <1>1, <2>1, LenProperties DEF RequestsOf
  <1>2. CASE a.type = "BULK_MODIFY"
    <2>1. a.body.modifies \in Seq([oid : Nat, order : OrderRequests])
      BY <1>2 DEF IsParsed, BulkModifies
    <2> QED
      BY <1>2, <2>1, LenProperties DEF RequestsOf
  <1>3. CASE a.type = "BULK_CANCEL"
    <2>1. a.body.cancels \in Seq([asset : Nat, oid : Nat])
      BY <1>3 DEF IsParsed, BulkCancels
    <2> QED
      BY <1>3, <2>1, LenProperties DEF RequestsOf
  <1>4. CASE a.type \notin {"BULK_ORDER", "BULK_MODIFY", "BULK_CANCEL"}
    <2>1. RequestsOf(a) = <<>>
      BY <1>4 DEF RequestsOf
    <2>2. Len(RequestsOf(a)) = 0
      BY <2>1, NoItems
    <2> QED
      BY <2>2
  <1> QED
    BY <1>1, <1>2, <1>3, <1>4

(* The header of a bulk action *)
LEMMA BulkHeaderItems ==
  ASSUME NEW size \in Nat, NEW count \in Nat,
         NEW name, NEW width \in Nat, FixedItem(name, width),
         NEW list, NEW length \in Nat, FixedItem(list, length),
         NEW s, s = <<Map(size), Str("type"), Str(name), Str(list), Array(count)>>
  PROVE  /\ HasLength(s, 5) /\ AreItems(s) /\ Len(s) = 5
         /\ BytesOf(s) = 6 + width + length + CountWidth(count)
  <1>1. HasLength(s, 5)
    BY DEF HasLength
  <1>2. /\ s[1] = Map(size) /\ s[2] = Str("type") /\ s[3] = Str(name)
        /\ s[4] = Str(list) /\ s[5] = Array(count)
    OBVIOUS
  <1>3. /\ IsItem(s[1]) /\ ItemWidth(s[1]) = 1
        /\ IsItem(s[5]) /\ ItemWidth(s[5]) = CountWidth(count)
    BY <1>2, MapItem, ArrayItem
  <1>4. /\ IsItem(s[2]) /\ ItemWidth(s[2]) = 5
        /\ IsItem(s[3]) /\ ItemWidth(s[3]) = width
        /\ IsItem(s[4]) /\ ItemWidth(s[4]) = length
    BY <1>2, FixedItems DEF FixedItem
  <1>5. \A i \in 1..5 : IsItem(s[i])
    BY <1>3, <1>4
  <1>6. /\ AreItems(s) /\ Len(s) = 5
        /\ BytesOf(s) = ItemWidth(s[1]) + ItemWidth(s[2]) + ItemWidth(s[3]) + ItemWidth(s[4])
                        + ItemWidth(s[5])
    BY <1>1, <1>5, FewItems
  <1>7. CountWidth(count) \in Nat
    BY ArrayItem
  <1>8. BytesOf(s) = 6 + width + length + CountWidth(count)
    BY <1>3, <1>4, <1>6, <1>7
  <1> QED
    BY <1>1, <1>6, <1>8

(* An update, which is all header *)
LEMMA UpdateItems ==
  ASSUME NEW asset, NEW flag, NEW value,
         NEW name, NEW width \in Nat, FixedItem(name, width),
         NEW flagName, NEW flagWidth \in Nat, FixedItem(flagName, flagWidth),
         NEW valueName, NEW valueWidth \in Nat, FixedItem(valueName, valueWidth),
         NEW s, s = <<Map(4), Str("type"), Str(name), Str("asset"), Num(asset),
                      Str(flagName), Bool(flag), Str(valueName), Num(value)>>
  PROVE  /\ HasLength(s, 9) /\ AreItems(s) /\ Len(s) = 9
         /\ BytesOf(s) = 13 + width + flagWidth + valueWidth + NumWidth(asset) + NumWidth(value)
  <1>1. HasLength(s, 9)
    BY DEF HasLength
  <1>2. /\ s[1] = Map(4) /\ s[2] = Str("type") /\ s[3] = Str(name) /\ s[4] = Str("asset")
        /\ s[5] = Num(asset) /\ s[6] = Str(flagName) /\ s[7] = Bool(flag)
        /\ s[8] = Str(valueName) /\ s[9] = Num(value)
    OBVIOUS
  <1>3. /\ IsItem(s[1]) /\ ItemWidth(s[1]) = 1
        /\ IsItem(s[5]) /\ ItemWidth(s[5]) = NumWidth(asset)
        /\ IsItem(s[7]) /\ ItemWidth(s[7]) = 1
        /\ IsItem(s[9]) /\ ItemWidth(s[9]) = NumWidth(value)
    BY <1>2, MapItem, NumItem, BoolItem
  <1>4. /\ IsItem(s[2]) /\ ItemWidth(s[2]) = 5
        /\ IsItem(s[3]) /\ ItemWidth(s[3]) = width
        /\ IsItem(s[4]) /\ ItemWidth(s[4]) = 6
        /\ IsItem(s[6]) /\ ItemWidth(s[6]) = flagWidth
        /\ IsItem(s[8]) /\ ItemWidth(s[8]) = valueWidth
    BY <1>2, FixedItems DEF FixedItem
  <1>5. \A i \in 1..9 : IsItem(s[i])
    BY <1>3, <1>4
  <1>6. /\ AreItems(s) /\ Len(s) = 9
        /\ BytesOf(s) = ItemWidth(s[1]) + ItemWidth(s[2]) + ItemWidth(s[3]) + ItemWidth(s[4])
               + ItemWidth(s[5]) + ItemWidth(s[6]) + ItemWidth(s[7]) + ItemWidth(s[8])
               + ItemWidth(s[9])
    BY <1>1, <1>5, FewItems
  <1>7. NumWidth(asset) \in Nat /\ NumWidth(value) \in Nat
    BY NumItem
  <1>8. BytesOf(s) = 13 + width + flagWidth + valueWidth + NumWidth(asset) + NumWidth(value)
    BY <1>3, <1>4, <1>6, <1>7
  <1> QED
    BY <1>1, <1>6, <1>8

(* The items of a header *)
HeaderLength(a) == IF a.type \in {"BULK_ORDER", "BULK_MODIFY", "BULK_CANCEL"} THEN 5 ELSE 9

(* The header takes the bytes that HeaderSize counts. *)
LEMMA HeaderBytes ==
  ASSUME NEW a, IsParsed(a), a.type \in SerializedTypes
  PROVE  /\ HasLength(HeaderItems(a), HeaderLength(a))
         /\ AreItems(HeaderItems(a)) /\ Len(HeaderItems(a)) = HeaderLength(a)
         /\ BytesOf(HeaderItems(a)) = HeaderSize(a)
  <1> DEFINE count == Len(RequestsOf(a))
             s == HeaderItems(a)
  <1>1. count \in Nat
    BY CountIsNat
  <1>2. CountWidth(count) \in Nat
    BY <1>1, ArrayItem
  <1>3. CASE a.type = "BULK_ORDER"
    <2> DEFINE size == IF a.body.builder # Absent THEN 4 ELSE 3
    <2>1. size \in Nat
      OBVIOUS
    <2>2. s = <<Map(size), Str("type"), Str("order"), Str("orders"), Array(count)>>
      BY <1>3 DEF HeaderItems
    <2> HIDE DEF size, s, count
    <2>3. FixedItem("order", 6) /\ FixedItem("orders", 7)
      BY FixedItems
    <2>4. /\ HasLength(s, 5) /\ AreItems(s) /\ Len(s) = 5
          /\ BytesOf(s) = 6 + 6 + 7 + CountWidth(count)
      BY <1>1, <2>1, <2>2, <2>3, BulkHeaderItems
    <2>5. HeaderSize(a) = 19 + CountWidth(count) /\ HeaderLength(a) = 5
      BY <1>3 DEF HeaderSize, HeaderLength, count
    <2>6. BytesOf(s) = 19 + CountWidth(count)
      BY <1>2, <2>4
    <2> QED
      BY <2>4, <2>5, <2>6 DEF s
  <1>4. CASE a.type = "BULK_MODIFY"
    <2>1. s = <<Map(2), Str("type"), Str("batchModify"), Str("modifies"), Array(count)>>
      BY <1>4 DEF HeaderItems
    <2> HIDE DEF s, count
    <2>2. FixedItem("batchModify", 12) /\ FixedItem("modifies", 9)
      BY FixedItems
    <2>3. /\ HasLength(s, 5) /\ AreItems(s) /\ Len(s) = 5
          /\ BytesOf(s) = 6 + 12 + 9 + CountWidth(count)
      BY <1>1, <2>1, <2>2, BulkHeaderItems
    <2>4. HeaderSize(a) = 27 + CountWidth(count) /\ HeaderLength(a) = 5
      BY <1>4 DEF HeaderSize, HeaderLength, count
    <2>5. BytesOf(s) = 27 + CountWidth(count)
      BY <1>2, <2>3
    <2> QED
      BY <2>3, <2>4, <2>5 DEF s
  <1>5. CASE a.type = "BULK_CANCEL"
    <2>1. s = <<Map(2), Str("type"), Str("cancel"), Str("cancels"), Array(count)>>
      BY <1>5 DEF HeaderItems
    <2> HIDE DEF s, count
    <2>2. FixedItem("cancel", 7) /\ FixedItem("cancels", 8)
      BY FixedItems
    <2>3. /\ HasLength(s, 5) /\ AreItems(s) /\ Len(s) = 5
          /\ BytesOf(s) = 6 + 7 + 8 + CountWidth(count)
      BY <1>1, <2>1, <2>2, BulkHeaderItems
    <2>4. HeaderSize(a) = 21 + CountWidth(count) /\ HeaderLength(a) = 5
      BY <1>5 DEF HeaderSize, HeaderLength, count
    <2>5. BytesOf(s) = 21 + CountWidth(count)
      BY <1>2, <2>3
    <2> QED
      BY <2>3, <2>4, <2>5 DEF s
  <1>6. CASE a.type = "UPDATE_LEVERAGE"
    <2>1. s = <<Map(4), Str("type"), Str("updateLeverage"), Str("asset"), Num(a.body.asset),
                Str("isCross"), Bool(a.body.is_cross), Str("leverage"), Num(a.body.leverage)>>
      BY <1>6 DEF HeaderItems
    <2> HIDE DEF s, count
    <2>2. FixedItem("updateLeverage", 15) /\ FixedItem("isCross", 8) /\ FixedItem("leverage", 9)
      BY FixedItems
    <2>3. /\ HasLength(s, 9) /\ AreItems(s) /\ Len(s) = 9
          /\ BytesOf(s) = 13 + 15 + 8 + 9 + NumWidth(a.body.asset) + NumWidth(a.body.leverage)
      BY <2>1, <2>2, UpdateItems
    <2>4. /\ HeaderSize(a) = 45 + NumWidth(a.body.asset) + NumWidth(a.body.leverage)
          /\ HeaderLength(a) = 9
      BY <1>6 DEF HeaderSize, HeaderLength
    <2>5. BytesOf(s) = 45 + NumWidth(a.body.asset) + NumWidth(a.body.leverage)
      BY <2>3, NumItem
    <2> QED
      BY <2>3, <2>4, <2>5 DEF s
  <1>7. CASE a.type = "UPDATE_ISOLATED_MARGIN"
    <2>1. s = <<Map(4), Str("type"), Str("updateIsolatedMargin"), Str("asset"),
                Num(a.body.asset), Str("isBuy"), Bool(a.body.is_buy),
                Str("ntli"), Num(a.body.ntli)>>
      BY <1>7 DEF HeaderItems
    <2> HIDE DEF s, count
    <2>2. FixedItem("updateIsolatedMargin", 21) /\ FixedItem("isBuy", 6) /\ FixedItem("ntli", 5)
      BY FixedItems
    <2>3. /\ HasLength(s, 9) /\ AreItems(s) /\ Len(s) = 9
          /\ BytesOf(s) = 13 + 21 + 6 + 5 + NumWidth(a.body.asset) + NumWidth(a.body.ntli)
      BY <2>1, <2>2, UpdateItems
    <2>4. /\ HeaderSize(a) = 45 + NumWidth(a.body.asset) + NumWidth(a.body.ntli)
          /\ HeaderLength(a) = 9
      BY <1>7 DEF HeaderSize, HeaderLength
    <2>5. BytesOf(s) = 45 + NumWidth(a.body.asset) + NumWidth(a.body.ntli)
      BY <2>3, NumItem
    <2> QED
      BY <2>3, <2>4, <2>5 DEF s
  <1> QED
    BY <1>3, <1>4, <1>5, <1>6, <1>7 DEF SerializedTypes

(* bulk_modify_serialize, before the order *)
ModifyHead(modify) == <<Map(2), Str("oid"), Num(modify.oid), Str("order")>>

(* What is written before the order of a modification (bulk_modify.c) *)
LEMMA ModifyHeadItems ==
  ASSUME NEW modify
  PROVE  /\ HasLength(ModifyHead(modify), 4)
         /\ AreItems(ModifyHead(modify)) /\ Len(ModifyHead(modify)) = 4
         /\ BytesOf(ModifyHead(modify)) = 11 + NumWidth(modify.oid)
  <1> DEFINE s == ModifyHead(modify)
  <1>1. HasLength(s, 4)
    BY DEF HasLength, ModifyHead
  <1>2. s[1] = Map(2) /\ s[2] = Str("oid") /\ s[3] = Num(modify.oid) /\ s[4] = Str("order")
    BY DEF ModifyHead
  <1> HIDE DEF s
  <1>3. /\ IsItem(s[1]) /\ ItemWidth(s[1]) = 1
        /\ IsItem(s[3]) /\ ItemWidth(s[3]) = NumWidth(modify.oid)
    BY <1>2, MapItem, NumItem
  <1>4. IsItem(s[2]) /\ ItemWidth(s[2]) = 4 /\ IsItem(s[4]) /\ ItemWidth(s[4]) = 6
    BY <1>2, FixedItems DEF FixedItem
  <1>5. \A i \in 1..4 : IsItem(s[i])
    BY <1>3, <1>4
  <1>6. /\ AreItems(s) /\ Len(s) = 4
        /\ BytesOf(s) = ItemWidth(s[1]) + ItemWidth(s[2]) + ItemWidth(s[3]) + ItemWidth(s[4])
    BY <1>1, <1>5, FewItems
  <1>7. NumWidth(modify.oid) \in Nat
    BY NumItem
  <1>8. BytesOf(s) = 11 + NumWidth(modify.oid)
    BY <1>3, <1>4, <1>6, <1>7
  <1> QED
    BY <1>1, <1>6, <1>8 DEF s

(* A cancellation takes the bytes that RequestSize counts. *)
LEMMA CancelBytes ==
  ASSUME NEW cancel
  PROVE  /\ HasLength(CancelItems(cancel), 5)
         /\ AreItems(CancelItems(cancel)) /\ Len(CancelItems(cancel)) = 5
         /\ BytesOf(CancelItems(cancel)) = 5 + NumWidth(cancel.asset) + NumWidth(cancel.oid)
  <1> DEFINE s == CancelItems(cancel)
  <1>1. HasLength(s, 5)
    BY DEF HasLength, CancelItems
  <1>2. /\ s[1] = Map(2) /\ s[2] = Str("a") /\ s[3] = Num(cancel.asset)
        /\ s[4] = Str("o") /\ s[5] = Num(cancel.oid)
    BY DEF CancelItems
  <1> HIDE DEF s
  <1>3. /\ IsItem(s[1]) /\ ItemWidth(s[1]) = 1
        /\ IsItem(s[3]) /\ ItemWidth(s[3]) = NumWidth(cancel.asset)
        /\ IsItem(s[5]) /\ ItemWidth(s[5]) = NumWidth(cancel.oid)
    BY <1>2, MapItem, NumItem
  <1>4. IsItem(s[2]) /\ ItemWidth(s[2]) = 2 /\ IsItem(s[4]) /\ ItemWidth(s[4]) = 2
    BY <1>2, FixedItems DEF FixedItem
  <1>5. \A i \in 1..5 : IsItem(s[i])
    BY <1>3, <1>4
  <1>6. /\ AreItems(s) /\ Len(s) = 5
        /\ BytesOf(s) = ItemWidth(s[1]) + ItemWidth(s[2]) + ItemWidth(s[3]) + ItemWidth(s[4])
                        + ItemWidth(s[5])
    BY <1>1, <1>5, FewItems
  <1>7. NumWidth(cancel.asset) \in Nat /\ NumWidth(cancel.oid) \in Nat
    BY NumItem
  <1>8. BytesOf(s) = 5 + NumWidth(cancel.asset) + NumWidth(cancel.oid)
    BY <1>3, <1>4, <1>6, <1>7
  <1> QED
    BY <1>1, <1>6, <1>8 DEF s

(* Every request takes the bytes that RequestSize counts. *)
LEMMA RequestBytes ==
  ASSUME NEW a, IsParsed(a), NEW i \in 1..Len(RequestsOf(a))
  PROVE  /\ AreItems(RequestItems(a, i))
         /\ BytesOf(RequestItems(a, i)) = RequestSize(a, i)
         /\ a.type \in {"BULK_ORDER", "BULK_MODIFY", "BULK_CANCEL"}
  <1>1. CASE a.type = "BULK_ORDER"
    <2>1. a.body.orders[i] \in OrderRequests
      BY <1>1, RequestFields
    <2>2. /\ AreItems(OrderItems(a.body.orders[i]))
          /\ BytesOf(OrderItems(a.body.orders[i])) = OrderSize(a.body.orders[i])
      BY <2>1, OrderBytes
    <2>3. /\ RequestItems(a, i) = OrderItems(a.body.orders[i])
          /\ RequestSize(a, i) = OrderSize(a.body.orders[i])
      BY <1>1 DEF RequestItems, RequestSize
    <2> QED
      BY <1>1, <2>2, <2>3
  <1>2. CASE a.type = "BULK_MODIFY"
    <2> DEFINE modify == a.body.modifies[i]
               head == ModifyHead(modify)
               order == OrderItems(modify.order)
    <2>1. modify.order \in OrderRequests
      BY <1>2, RequestFields
    <2>2. AreItems(order) /\ BytesOf(order) = OrderSize(modify.order)
      BY <2>1, OrderBytes
    <2>3. /\ RequestItems(a, i) = head \o order
          /\ RequestSize(a, i) = 11 + NumWidth(modify.oid) + OrderSize(modify.order)
      BY <1>2 DEF RequestItems, RequestSize, ModifyItems, ModifyHead
    <2>4. AreItems(head) /\ BytesOf(head) = 11 + NumWidth(modify.oid)
      BY ModifyHeadItems
    <2> HIDE DEF head, order
    <2>5. AreItems(head \o order) /\ BytesOf(head \o order) = BytesOf(head) + BytesOf(order)
      BY <2>2, <2>4, BytesOfBoth
    <2>6. BytesOf(head \o order) = 11 + NumWidth(modify.oid) + OrderSize(modify.order)
      BY <2>2, <2>4, <2>5
    <2> QED
      BY <1>2, <2>3, <2>5, <2>6
  <1>3. CASE a.type = "BULK_CANCEL"
    <2>1. /\ RequestItems(a, i) = CancelItems(a.body.cancels[i])
          /\ RequestSize(a, i) =
                 5 + NumWidth(a.body.cancels[i].asset) + NumWidth(a.body.cancels[i].oid)
      BY <1>3 DEF RequestItems, RequestSize
    <2>2. /\ AreItems(CancelItems(a.body.cancels[i]))
          /\ BytesOf(CancelItems(a.body.cancels[i])) =
                 5 + NumWidth(a.body.cancels[i].asset) + NumWidth(a.body.cancels[i].oid)
      BY CancelBytes
    <2> QED
      BY <1>3, <2>1, <2>2
  <1>4. CASE a.type \notin {"BULK_ORDER", "BULK_MODIFY", "BULK_CANCEL"}
    <2>1. Len(RequestsOf(a)) = 0
      <3>1. RequestsOf(a) = <<>>
        BY <1>4 DEF RequestsOf
      <3> QED
        BY <3>1, NoItems
    <2> QED
      BY <2>1
  <1> QED
    BY <1>1, <1>2, <1>3, <1>4

(* The parts of a trailer: the grouping, the builder *)
TrailerHead(a) == <<Str("grouping"), Str(a.body.grouping)>>

BuilderTail(a) == IF a.body.builder # Absent THEN BuilderItems(a.body.builder) ELSE <<>>

(* The builder takes 57 bytes and its fee (bulk_order.c). *)
LEMMA BuilderBytes ==
  ASSUME NEW builder \in [builder : Addresses, fee : Nat]
  PROVE  /\ HasLength(BuilderItems(builder), 6)
         /\ AreItems(BuilderItems(builder)) /\ Len(BuilderItems(builder)) = 6
         /\ BytesOf(BuilderItems(builder)) = 57 + NumWidth(builder.fee)
  <1> DEFINE s == BuilderItems(builder)
  <1>1. HasLength(s, 6)
    BY DEF HasLength, BuilderItems
  <1>2. /\ s[1] = Str("builder") /\ s[2] = Map(2) /\ s[3] = Str("b")
        /\ s[4] = Str(builder.builder) /\ s[5] = Str("f") /\ s[6] = Num(builder.fee)
    BY DEF BuilderItems
  <1> HIDE DEF s
  <1>3. /\ IsItem(s[2]) /\ ItemWidth(s[2]) = 1
        /\ IsItem(s[6]) /\ ItemWidth(s[6]) = NumWidth(builder.fee)
    BY <1>2, MapItem, NumItem
  <1>4. /\ IsItem(s[1]) /\ ItemWidth(s[1]) = 8
        /\ IsItem(s[3]) /\ ItemWidth(s[3]) = 2
        /\ IsItem(s[5]) /\ ItemWidth(s[5]) = 2
    BY <1>2, FixedItems DEF FixedItem
  <1>5. IsItem(s[4]) /\ ItemWidth(s[4]) = 44
    <2>1. builder.builder \in Addresses
      OBVIOUS
    <2> QED
      BY <1>2, <2>1, HexItem
  <1>6. \A i \in 1..6 : IsItem(s[i])
    BY <1>3, <1>4, <1>5
  <1>7. /\ AreItems(s) /\ Len(s) = 6
        /\ BytesOf(s) = ItemWidth(s[1]) + ItemWidth(s[2]) + ItemWidth(s[3]) + ItemWidth(s[4])
                        + ItemWidth(s[5]) + ItemWidth(s[6])
    BY <1>1, <1>6, FewItems
  <1>8. NumWidth(builder.fee) \in Nat
    BY NumItem
  <1>9. BytesOf(s) = 57 + NumWidth(builder.fee)
    BY <1>3, <1>4, <1>5, <1>7, <1>8
  <1> QED
    BY <1>1, <1>7, <1>9 DEF s

(* The trailer takes the bytes that TrailerSize counts. *)
LEMMA TrailerBytes ==
  ASSUME NEW a, IsParsed(a)
  PROVE  /\ AreItems(TrailerItems(a))
         /\ BytesOf(TrailerItems(a)) = TrailerSize(a)
         /\ a.type = "BULK_ORDER" =>
                /\ TrailerItems(a) = TrailerHead(a) \o BuilderTail(a)
                /\ AreItems(TrailerHead(a)) /\ Len(TrailerHead(a)) = 2
                /\ AreItems(BuilderTail(a))
  <1>1. CASE a.type = "BULK_ORDER"
    <2>1. /\ a.body.grouping \in {"na", "normalTpsl", "positionTpsl"}
          /\ a.body.builder \in [builder : Addresses, fee : Nat] \cup {Absent}
      BY <1>1 DEF IsParsed, BulkOrders
    <2>2. IsItem(Str("grouping")) /\ ItemWidth(Str("grouping")) = 9
      BY FixedItems DEF FixedItem
    <2>3. /\ IsItem(Str(a.body.grouping))
          /\ ItemWidth(Str(a.body.grouping)) = GroupingSize(a.body.grouping)
          /\ GroupingSize(a.body.grouping) \in Nat
      <3>1. CASE a.body.grouping = "na"
        BY <3>1, FixedItems DEF FixedItem, GroupingSize
      <3>2. CASE a.body.grouping = "normalTpsl"
        BY <3>2, FixedItems DEF FixedItem, GroupingSize
      <3>3. CASE a.body.grouping = "positionTpsl"
        BY <3>3, FixedItems DEF FixedItem, GroupingSize
      <3> QED
        BY <2>1, <3>1, <3>2, <3>3
    <2>4. /\ AreItems(TrailerHead(a)) /\ Len(TrailerHead(a)) = 2
          /\ BytesOf(TrailerHead(a)) = 9 + GroupingSize(a.body.grouping)
      BY <2>2, <2>3, TwoItems DEF TrailerHead
    <2> DEFINE tail == IF a.body.builder # Absent THEN 57 + NumWidth(a.body.builder.fee) ELSE 0
    <2>5. AreItems(BuilderTail(a)) /\ BytesOf(BuilderTail(a)) = tail
      <3>1. CASE a.body.builder # Absent
        BY <2>1, <3>1, BuilderBytes DEF BuilderTail
      <3>2. CASE a.body.builder = Absent
        BY <3>2, NoItems DEF BuilderTail
      <3> QED
        BY <3>1, <3>2
    <2>6. TrailerItems(a) = TrailerHead(a) \o BuilderTail(a)
      BY <1>1 DEF TrailerItems, TrailerHead, BuilderTail
    <2>7. TrailerSize(a) = 9 + GroupingSize(a.body.grouping) + tail
      BY <1>1 DEF TrailerSize
    <2> HIDE DEF tail
    <2>8. /\ AreItems(TrailerHead(a) \o BuilderTail(a))
          /\ BytesOf(TrailerHead(a) \o BuilderTail(a))
                 = BytesOf(TrailerHead(a)) + BytesOf(BuilderTail(a))
      BY <2>4, <2>5, BytesOfBoth
    <2> QED
      BY <2>4, <2>5, <2>6, <2>7, <2>8
  <1>2. CASE a.type # "BULK_ORDER"
    BY <1>2, NoItems DEF TrailerItems, TrailerSize
  <1> QED
    BY <1>1, <1>2

(* The bytes grow, request by request, and no request is missing. *)
LEMMA ThroughBytes ==
  ASSUME NEW a, IsParsed(a), a.type \in SerializedTypes
  PROVE  /\ Len(RequestsOf(a)) \in Nat
         /\ ItemsThrough(a, 0) = HeaderItems(a)
         /\ \A n \in 0..Len(RequestsOf(a)) : AreItems(ItemsThrough(a, n))
         /\ \A n \in 1..Len(RequestsOf(a)) :
                /\ ItemsThrough(a, n) = ItemsThrough(a, n - 1) \o RequestItems(a, n)
                /\ BytesOf(ItemsThrough(a, n)) = BytesOf(ItemsThrough(a, n - 1)) + RequestSize(a, n)
                /\ RequestSize(a, n) \in Nat
  <1> DEFINE last == Len(RequestsOf(a))
             U == {n \in 0..last : AreItems(ItemsThrough(a, n))}
  <1>1. /\ last \in Nat
        /\ ItemsThrough(a, 0) = HeaderItems(a)
        /\ \A n \in 1..last : ItemsThrough(a, n) = ItemsThrough(a, n - 1) \o RequestItems(a, n)
    BY CountIsNat, ThroughFacts
  <1>2. \A n \in 1..last : AreItems(RequestItems(a, n))
                           /\ BytesOf(RequestItems(a, n)) = RequestSize(a, n)
    BY RequestBytes
  <1> HIDE DEF last
  <1>3. 0 \in U
    BY <1>1, HeaderBytes
  <1>4. ASSUME NEW n \in 0..last, n \in U, n # last PROVE n + 1 \in U
    <2>1. n + 1 \in 1..last /\ n + 1 \in 0..last /\ (n + 1) - 1 = n
      BY <1>1, <1>4
    <2>2. AreItems(ItemsThrough(a, n)) /\ AreItems(RequestItems(a, n + 1))
      BY <1>2, <1>4, <2>1
    <2>3. ItemsThrough(a, n + 1) = ItemsThrough(a, n) \o RequestItems(a, n + 1)
      BY <1>1, <2>1
    <2>4. AreItems(ItemsThrough(a, n + 1))
      BY <2>2, <2>3, BytesOfBoth
    <2> QED
      BY <2>1, <2>4
  <1> HIDE DEF U
  <1>5. \A n \in 0..last : n \in U
    BY <1>1, <1>3, <1>4, CountingUp
  <1>6. \A n \in 0..last : AreItems(ItemsThrough(a, n))
    BY <1>5 DEF U
  <1>7. ASSUME NEW n \in 1..last
        PROVE  /\ BytesOf(ItemsThrough(a, n)) = BytesOf(ItemsThrough(a, n - 1)) + RequestSize(a, n)
               /\ RequestSize(a, n) \in Nat
    <2>1. n - 1 \in 0..last
      BY <1>1
    <2>2. AreItems(ItemsThrough(a, n - 1)) /\ AreItems(RequestItems(a, n))
      BY <1>2, <1>6, <2>1
    <2>3. BytesOf(ItemsThrough(a, n - 1) \o RequestItems(a, n))
            = BytesOf(ItemsThrough(a, n - 1)) + BytesOf(RequestItems(a, n))
      BY <2>2, BytesOfBoth
    <2>4. BytesOf(RequestItems(a, n)) = RequestSize(a, n) /\ BytesOf(RequestItems(a, n)) \in Nat
      BY <1>2, <2>2, BytesAreNat
    <2>5. ItemsThrough(a, n) = ItemsThrough(a, n - 1) \o RequestItems(a, n)
      BY <1>1
    <2> QED
      BY <2>3, <2>4, <2>5
  <1> QED
    BY <1>1, <1>6, <1>7 DEF last

(* No part of an action takes more than the action. *)
LEMMA BytesGrow ==
  ASSUME NEW a, IsParsed(a), a.type \in SerializedTypes, NEW m \in 0..Len(RequestsOf(a))
  PROVE  /\ AreItems(ActionItems(a))
         /\ BytesOf(ActionItems(a))
                = BytesOf(ItemsThrough(a, Len(RequestsOf(a)))) + TrailerSize(a)
         /\ TrailerSize(a) \in Nat
         /\ BytesOf(ItemsThrough(a, m)) \in Nat
         /\ BytesOf(ItemsThrough(a, m)) <= BytesOf(ItemsThrough(a, Len(RequestsOf(a))))
         /\ BytesOf(ItemsThrough(a, Len(RequestsOf(a)))) \in Nat
  <1> DEFINE last == Len(RequestsOf(a))
             b(n) == BytesOf(ItemsThrough(a, n))
             U == {n \in 0..last : m <= n => b(m) <= b(n)}
  <1>1. last \in Nat /\ \A n \in 0..last : AreItems(ItemsThrough(a, n))
    BY ThroughBytes
  <1>2. \A n \in 1..last : b(n) = b(n - 1) + RequestSize(a, n) /\ RequestSize(a, n) \in Nat
    BY ThroughBytes
  <1>3. \A n \in 0..last : b(n) \in Nat
    BY <1>1, BytesAreNat
  <1>4. m \in 0..last
    OBVIOUS
  <1>5. /\ AreItems(TrailerItems(a)) /\ BytesOf(TrailerItems(a)) = TrailerSize(a)
        /\ BytesOf(TrailerItems(a)) \in Nat
    BY TrailerBytes, BytesAreNat
  <1>6. /\ AreItems(ActionItems(a))
        /\ BytesOf(ActionItems(a)) = BytesOf(ItemsThrough(a, last)) + BytesOf(TrailerItems(a))
    <2>1. AreItems(ItemsThrough(a, last))
      BY <1>1
    <2> QED
      BY <1>5, <2>1, BytesOfBoth DEF ActionItems
  <1> HIDE DEF last, b
  <1>7. 0 \in U
    <2>1. m <= 0 => m = 0
      BY <1>1, <1>4
    <2> QED
      BY <1>1, <1>3, <1>4, <2>1
  <1>8. ASSUME NEW n \in 0..last, n \in U, n # last PROVE n + 1 \in U
    <2>1. n + 1 \in 1..last /\ n + 1 \in 0..last /\ (n + 1) - 1 = n
      BY <1>1, <1>8
    <2>2. b(n + 1) = b(n) + RequestSize(a, n + 1) /\ RequestSize(a, n + 1) \in Nat
      BY <1>2, <2>1
    <2>3. CASE m = n + 1
      BY <1>3, <2>1, <2>3
    <2>4. CASE m <= n
      BY <1>3, <1>4, <1>8, <2>1, <2>2, <2>4
    <2>5. CASE ~(m <= n + 1)
      BY <2>1, <2>5
    <2> QED
      BY <1>1, <1>4, <2>3, <2>4, <2>5
  <1> HIDE DEF U
  <1>9. \A n \in 0..last : n \in U
    BY <1>1, <1>7, <1>8, CountingUp
  <1>10. b(m) <= b(last)
    <2>1. last \in U /\ m <= last
      BY <1>1, <1>4, <1>9
    <2> QED
      BY <2>1 DEF U
  <1> QED
    BY <1>1, <1>3, <1>4, <1>5, <1>6, <1>10 DEF last, b

-----------------------------------------------------------------------------
(* While it is written the buffer holds the header and the requests written*)
(* so far, at the end the whole action; a refusal comes when the whole does*)
(* not fit.                                                                *)
WrittenInv ==
    /\ IsParsed(approved)
    /\ capacity \in Nat /\ offset \in Nat /\ offset <= capacity
    /\ stage \in {"unused", "header", "requests", "hash", "done", "refused"}
    /\ stage # "unused" => approved.type \in SerializedTypes
    /\ stage \in {"unused", "header"} => written = 0 /\ offset = 0 /\ out = <<>>
    /\ stage = "requests" =>
           /\ written \in 0..Len(RequestsOf(approved))
           /\ out = ItemsThrough(approved, written)
    /\ stage = "hash" => out = ActionItems(approved)
    /\ stage = "done" => out = ActionItems(approved) \o HashTail(approved.nonce)
    /\ stage # "done" => offset = BytesOf(out)
    /\ stage = "refused" =>
           /\ BytesOf(ActionItems(approved)) > capacity
           /\ \/ out = <<>>
              \/ /\ written \in 0..Len(RequestsOf(approved))
                 /\ out = ItemsThrough(approved, written)

(* Serialization begins with an empty buffer. *)
LEMMA WrittenInit == Init => WrittenInv
  <1> SUFFICES ASSUME Init PROVE WrittenInv
    OBVIOUS
  <1>1. IsParsed(approved) /\ capacity \in Nat
    BY RequestsAssumption, CapacitiesAssumption DEF Init, StartSerializer, approved
  <1>2. /\ stage = IF approved.type \in SerializedTypes THEN "header" ELSE "unused"
        /\ written = 0 /\ offset = 0 /\ out = <<>>
    BY DEF Init, StartSerializer
  <1>3. offset = BytesOf(out)
    BY <1>2, NoItems
  <1> QED
    BY <1>1, <1>2, <1>3 DEF WrittenInv

(* Whatever comes next has the bytes that are tested for room. *)
LEMMA WriteHeaderStep ==
  ASSUME WrittenInv, WriteHeader PROVE WrittenInv'
  <1>1. IsParsed(approved) /\ approved.type \in SerializedTypes /\ offset = 0 /\ out = <<>>
    BY DEF WrittenInv, WriteHeader
  <1>2. /\ AreItems(HeaderItems(approved))
        /\ BytesOf(HeaderItems(approved)) = HeaderSize(approved)
        /\ ItemsThrough(approved, 0) = HeaderItems(approved)
        /\ Len(RequestsOf(approved)) \in Nat
        /\ BytesOf(HeaderItems(approved)) \in Nat
    BY <1>1, HeaderBytes, ThroughBytes, BytesAreNat
  <1>3. out' = HeaderItems(approved)
    <2>1. out' = <<>> \o HeaderItems(approved)
      BY <1>1 DEF WriteHeader, Put
    <2>2. HeaderItems(approved) \in Seq(Range(HeaderItems(approved)))
      BY <1>2 DEF AreItems, IsSeq
    <2> QED
      BY <2>1, <2>2, ConcatEmptySeq
  <1>4. /\ request' = request /\ capacity' = capacity /\ written' = written
        /\ stage' = "requests" /\ offset' = 0 + HeaderSize(approved)
        /\ 0 + HeaderSize(approved) <= capacity
    BY <1>1 DEF WriteHeader, Put, Fits
  <1>5. approved' = approved
    BY <1>4 DEF approved
  <1>6. written = 0 /\ capacity \in Nat
    BY DEF WrittenInv, WriteHeader
  <1> QED
    BY <1>1, <1>2, <1>3, <1>4, <1>5, <1>6 DEF WrittenInv

(* A request is appended to those before it. *)
LEMMA WriteRequestStep ==
  ASSUME WrittenInv, WriteRequest PROVE WrittenInv'
  <1> DEFINE n == written + 1
  <1>1. /\ IsParsed(approved) /\ approved.type \in SerializedTypes
        /\ written \in 0..Len(RequestsOf(approved)) /\ written < Len(RequestsOf(approved))
        /\ out = ItemsThrough(approved, written) /\ offset = BytesOf(out)
        /\ capacity \in Nat /\ offset \in Nat
    BY DEF WrittenInv, WriteRequest
  <1>2. Len(RequestsOf(approved)) \in Nat
    BY <1>1, ThroughBytes
  <1>3. n \in 1..Len(RequestsOf(approved)) /\ n - 1 = written
    BY <1>1, <1>2
  <1>4. /\ ItemsThrough(approved, n) = ItemsThrough(approved, written) \o RequestItems(approved, n)
        /\ BytesOf(ItemsThrough(approved, n))
               = BytesOf(ItemsThrough(approved, written)) + RequestSize(approved, n)
        /\ RequestSize(approved, n) \in Nat
    BY <1>1, <1>3, ThroughBytes
  <1>5. /\ request' = request /\ capacity' = capacity /\ written' = n
        /\ stage' = "requests" /\ offset' = offset + RequestSize(approved, n)
        /\ offset + RequestSize(approved, n) <= capacity
        /\ out' = out \o RequestItems(approved, n)
    <2>1. stage = "requests" /\ UNCHANGED stage
      BY DEF WriteRequest
    <2> QED
      BY <2>1 DEF WriteRequest, Put, Fits
  <1>6. approved' = approved
    BY <1>5 DEF approved
  <1>7. n \in 0..Len(RequestsOf(approved))
    BY <1>2, <1>3
  <1> HIDE DEF n
  <1>8. out' = ItemsThrough(approved, n)
    BY <1>1, <1>4, <1>5
  <1>9. offset' = BytesOf(ItemsThrough(approved, n)) /\ offset' \in Nat /\ offset' <= capacity'
    BY <1>1, <1>4, <1>5
  <1> QED
    BY <1>1, <1>5, <1>6, <1>7, <1>8, <1>9 DEF WrittenInv

(* The trailer makes the action complete. *)
LEMMA WriteTrailerStep ==
  ASSUME WrittenInv, WriteTrailer PROVE WrittenInv'
  <1>1. /\ IsParsed(approved) /\ approved.type \in SerializedTypes
        /\ written = Len(RequestsOf(approved)) /\ written \in 0..Len(RequestsOf(approved))
        /\ out = ItemsThrough(approved, written) /\ offset = BytesOf(out)
        /\ capacity \in Nat /\ offset \in Nat
    BY DEF WrittenInv, WriteTrailer
  <1>2. /\ BytesOf(ActionItems(approved)) = BytesOf(out) + TrailerSize(approved)
        /\ TrailerSize(approved) \in Nat
    BY <1>1, BytesGrow
  <1>3. /\ request' = request /\ capacity' = capacity /\ written' = written
        /\ stage' = "hash" /\ offset' = offset + TrailerSize(approved)
        /\ offset + TrailerSize(approved) <= capacity
        /\ out' = out \o TrailerItems(approved)
    BY DEF WriteTrailer, Put, Fits
  <1>4. approved' = approved
    BY <1>3 DEF approved
  <1>5. out' = ActionItems(approved)
    BY <1>1, <1>3 DEF ActionItems
  <1>6. offset' = BytesOf(out') /\ offset' \in Nat /\ offset' <= capacity'
    BY <1>1, <1>2, <1>3, <1>5
  <1> QED
    BY <1>1, <1>3, <1>4, <1>5, <1>6 DEF WrittenInv

(* What does not fit next does not fit in the end. *)
LEMMA RefuseStep ==
  ASSUME WrittenInv, RefuseToWrite PROVE WrittenInv'
  <1>1. /\ IsParsed(approved) /\ approved.type \in SerializedTypes
        /\ offset = BytesOf(out) /\ capacity \in Nat /\ offset \in Nat
        /\ stage \in {"header", "requests"}
    BY DEF WrittenInv, RefuseToWrite
  <1>2. /\ request' = request /\ capacity' = capacity /\ written' = written
        /\ stage' = "refused" /\ offset' = offset /\ out' = out
    BY DEF RefuseToWrite
  <1>3. approved' = approved
    BY <1>2 DEF approved
  <1>4. ~(offset + NextSize <= capacity)
    BY DEF RefuseToWrite, Fits
  <1> DEFINE last == Len(RequestsOf(approved))
             b(m) == BytesOf(ItemsThrough(approved, m))
             whole == BytesOf(ActionItems(approved))
  <1>5. last \in Nat /\ \A m \in 0..last : b(m) \in Nat /\ b(m) <= b(last)
    BY <1>1, ThroughBytes, BytesGrow
  <1>6. whole = b(last) + TrailerSize(approved) /\ TrailerSize(approved) \in Nat
        /\ b(last) \in Nat
    <2>1. last \in 0..last
      BY <1>5
    <2> QED
      BY <1>1, <2>1, BytesGrow
  <1>7. offset + NextSize <= whole /\ offset + NextSize \in Nat /\ whole \in Nat
    <2>1. CASE stage = "header"
      <3>1. NextSize = HeaderSize(approved)
        BY <2>1 DEF NextSize
      <3>2. HeaderSize(approved) = b(0)
        BY <1>1, HeaderBytes, ThroughBytes
      <3>3. offset = 0
        BY <2>1 DEF WrittenInv
      <3>4. 0 \in 0..last
        BY <1>5
      <3> HIDE DEF b, last, whole
      <3> QED
        BY <1>5, <1>6, <3>1, <3>2, <3>3, <3>4
    <2>2. CASE stage = "requests" /\ written < last
      <3>1. NextSize = RequestSize(approved, written + 1)
        BY <2>2 DEF NextSize
      <3>2. written \in 0..last /\ offset = b(written)
        BY <1>1, <2>2 DEF WrittenInv
      <3>3. written + 1 \in 1..last /\ written + 1 \in 0..last /\ (written + 1) - 1 = written
        BY <1>5, <2>2, <3>2
      <3>4. /\ b(written + 1) = b(written) + RequestSize(approved, written + 1)
            /\ RequestSize(approved, written + 1) \in Nat
        BY <1>1, <3>3, ThroughBytes
      <3>5. b(written + 1) \in Nat /\ b(written + 1) <= b(last)
        BY <1>5, <3>3
      <3> HIDE DEF b, last, whole
      <3> QED
        BY <1>1, <1>6, <3>1, <3>2, <3>4, <3>5
    <2>3. CASE stage = "requests" /\ ~(written < last)
      <3>1. NextSize = TrailerSize(approved)
        BY <2>3 DEF NextSize
      <3>2. written \in 0..last /\ offset = b(written)
        BY <1>1, <2>3 DEF WrittenInv
      <3>3. written = last
        BY <1>5, <2>3, <3>2
      <3> HIDE DEF b, last, whole
      <3> QED
        BY <1>1, <1>6, <3>1, <3>2, <3>3
    <2> QED
      BY <1>1, <2>1, <2>2, <2>3
  <1>8. whole > capacity
    BY <1>1, <1>4, <1>7
  <1>9. stage' # "done" /\ offset' = BytesOf(out') /\ offset' <= capacity' /\ offset' \in Nat
    BY <1>1, <1>2 DEF WrittenInv
  <1>10. \/ out = <<>>
         \/ written \in 0..last /\ out = ItemsThrough(approved, written)
    BY <1>1 DEF WrittenInv
  <1> QED
    BY <1>1, <1>2, <1>3, <1>8, <1>9, <1>10 DEF WrittenInv

(* The nonce and the end byte are hashed after the whole action. *)
LEMMA HashBufferStep ==
  ASSUME WrittenInv, HashBuffer PROVE WrittenInv'
  <1>1. /\ request' = request /\ capacity' = capacity /\ written' = written
        /\ stage' = "done" /\ offset' = offset /\ out' = out \o HashTail(approved.nonce)
        /\ stage = "hash"
    BY DEF HashBuffer
  <1>2. approved' = approved
    BY <1>1 DEF approved
  <1> QED
    BY <1>1, <1>2 DEF WrittenInv

(* Every step of a signature keeps the invariant of the buffer. *)
LEMMA WrittenStep ==
  ASSUME WrittenInv, [Next]_vars PROVE WrittenInv'
  <1>1. CASE WriteHeader
    BY <1>1, WriteHeaderStep
  <1>2. CASE WriteRequest
    BY <1>2, WriteRequestStep
  <1>3. CASE WriteTrailer
    BY <1>3, WriteTrailerStep
  <1>4. CASE RefuseToWrite
    BY <1>4, RefuseStep
  <1>5. CASE HashBuffer
    BY <1>5, HashBufferStep
  <1>6. CASE UNCHANGED buffer_vars
    BY <1>6 DEF WrittenInv, buffer_vars, approved
  <1>7. HashDomain \/ HashMessage \/ Sign \/ UNCHANGED vars => UNCHANGED buffer_vars
    BY DEF HashDomain, HashMessage, Sign, vars
  <1> QED
    BY <1>1, <1>2, <1>3, <1>4, <1>5, <1>6, <1>7 DEF Next, Serialize

(* The buffer always holds the parts written so far, and their bytes are   *)
(* its offset (action.c:297-342).                                          *)
THEOREM WrittenAlways == Spec => []WrittenInv
  BY WrittenInit, WrittenStep, PTL DEF Spec

(* The buffer is never overrun, and its offset is the number of bytes      *)
(* written, so what is hashed is all of them (action.c:297-302, 324).      *)
THEOREM InBufferAlways == Spec => []InBuffer
  <1>1. WrittenInv => InBuffer
    BY DEF WrittenInv, InBuffer
  <1> QED
    BY <1>1, WrittenAlways, PTL

(* An action is refused only if its bytes really exceed the buffer: the    *)
(* sizes that are tested part by part add up to the bytes of the whole     *)
(* (action.c:297).                                                         *)
THEOREM RefusedOnlyIfTooLongAlways == Spec => []RefusedOnlyIfTooLong
  <1>1. WrittenInv => RefusedOnlyIfTooLong
    BY DEF WrittenInv, RefusedOnlyIfTooLong
  <1> QED
    BY <1>1, WrittenAlways, PTL

-----------------------------------------------------------------------------
(* What the bytes tell: an item, an order *)

(* Four sequences, one after the other, grouped from the right *)
LEMMA ConcatFour ==
  ASSUME NEW h, NEW k, NEW c, NEW z, IsSeq(h), IsSeq(k), IsSeq(c), IsSeq(z)
  PROVE  /\ IsSeq(c \o z) /\ IsSeq(k \o (c \o z))
         /\ ((h \o k) \o c) \o z = h \o (k \o (c \o z))
  <1> DEFINE hk == h \o k
             cz == c \o z
  <1>1. IsSeq(hk) /\ IsSeq(cz) /\ IsSeq(k \o cz)
    BY Concat
  <1>2. (hk \o c) \o z = hk \o cz
    <2>1. ASSUME NEW s, IsSeq(s) PROVE (s \o c) \o z = s \o (c \o z)
      BY <2>1, ConcatAssoc
    <2> HIDE DEF hk
    <2> QED
      BY <1>1, <2>1
  <1>3. hk \o cz = h \o (k \o cz)
    <2>1. ASSUME NEW s, IsSeq(s) PROVE (h \o k) \o s = h \o (k \o s)
      BY <2>1, ConcatAssoc
    <2> HIDE DEF cz
    <2> QED
      BY <1>1, <2>1
  <1> QED
    BY <1>1, <1>2, <1>3

(* One sequence, seen as s and what follows it, and as t and what follows  *)
(* that                                                                    *)
Alike(s, x, t, y) == IsSeq(x) /\ IsSeq(y) /\ s \o x = t \o y

(* Sequences that are alike and begin with parts of one length are alike   *)
(* part by part.                                                           *)
LEMMA AlikeParts ==
  ASSUME NEW s, NEW x, NEW t, NEW y, IsSeq(s), IsSeq(t), Alike(s, x, t, y), Len(s) = Len(t)
  PROVE  s = t /\ x = y
  BY SameParts DEF Alike

(* What an item says is what it was made of. *)
LEMMA ItemsDetermine ==
  /\ \A x, y : Str(x) = Str(y) => x = y
  /\ \A x, y : Num(x) = Num(y) => x = y
  /\ \A x, y : Bool(x) = Bool(y) => x = y
  /\ \A x, y : Map(x) = Map(y) => x = y
  /\ \A x, y : Array(x) = Array(y) => x = y
  BY DEF Str, Num, Bool, Map, Array

(* What is made of items is a sequence. *)
LEMMA ItemsAreSeq == ASSUME NEW s, AreItems(s) PROVE IsSeq(s)
  BY DEF AreItems

(* The head of an order tells its fields. *)
LEMMA OrderHeadDetermines ==
  ASSUME NEW o \in OrderRequests, NEW p \in OrderRequests,
         NEW x, NEW y, Alike(OrderHead(o), x, OrderHead(p), y)
  PROVE  /\ x = y
         /\ OrderMap(o) = OrderMap(p) /\ o.asset = p.asset /\ o.is_buy = p.is_buy
         /\ o.limit_px = p.limit_px /\ o.sz = p.sz /\ o.reduce_only = p.reduce_only
  <1>1. /\ IsSeq(OrderHead(o)) /\ IsSeq(OrderHead(p))
        /\ Len(OrderHead(o)) = Len(OrderHead(p))
    BY OrderHeadItems, ItemsAreSeq
  <1>2. OrderHead(o) = OrderHead(p) /\ x = y
    BY <1>1, AlikeParts
  <1>3. /\ OrderMap(o) = OrderMap(p) /\ Num(o.asset) = Num(p.asset)
        /\ Bool(o.is_buy) = Bool(p.is_buy) /\ Str(o.limit_px) = Str(p.limit_px)
        /\ Str(o.sz) = Str(p.sz) /\ Bool(o.reduce_only) = Bool(p.reduce_only)
    BY <1>2 DEF OrderHead
  <1> QED
    BY <1>2, <1>3, ItemsDetermine

(* The size of the map tells whether a client order id follows. *)
LEMMA CloidPresence ==
  ASSUME NEW o, NEW p, OrderMap(o) = OrderMap(p)
  PROVE  o.cloid # Absent <=> p.cloid # Absent
  <1>1. Map(7) # Map(6)
    BY DEF Map
  <1> QED
    BY <1>1 DEF OrderMap

(* The first text of the kind tells a limit from a trigger, and with it how*)
(* long the kind is.                                                       *)
LEMMA OrderKindDetermines ==
  ASSUME NEW o \in OrderRequests, NEW p \in OrderRequests,
         NEW x, NEW y, Alike(OrderKind(o), x, OrderKind(p), y)
  PROVE  /\ x = y /\ o.order_type = p.order_type
         /\ o.order_type = "LIMIT" => o.limit = p.limit
         /\ o.order_type # "LIMIT" => o.trigger = p.trigger
  <1>1. IsSeq(OrderKind(o)) /\ IsSeq(OrderKind(p))
    BY OrderKindItems, ItemsAreSeq
  <1>2. ASSUME NEW q \in OrderRequests
        PROVE  /\ q.order_type = "LIMIT" =>
                      /\ OrderKind(q) = LimitItems(q.limit)
                      /\ Len(OrderKind(q)) = 4 /\ OrderKind(q)[1] = Str("limit")
               /\ q.order_type # "LIMIT" =>
                      /\ OrderKind(q) = TriggerItems(q.trigger)
                      /\ Len(OrderKind(q)) = 8 /\ OrderKind(q)[1] = Str("trigger")
    <2>1. CASE q.order_type = "LIMIT"
      <3>1. q \in LimitOrders /\ OrderKind(q) = LimitItems(q.limit)
        BY <2>1, OrderFields DEF OrderKind
      <3>2. LimitItems(q.limit)[1] = Str("limit")
        BY DEF LimitItems
      <3> QED
        BY <2>1, <3>1, <3>2, LimitKindItems
    <2>2. CASE q.order_type # "LIMIT"
      <3>1. q \in TriggerOrders /\ OrderKind(q) = TriggerItems(q.trigger)
        BY <2>2, OrderFields DEF OrderKind
      <3>2. TriggerItems(q.trigger)[1] = Str("trigger")
        BY DEF TriggerItems
      <3> QED
        BY <2>2, <3>1, <3>2, TriggerKindItems
    <2> QED
      BY <2>1, <2>2
  <1>3. 1 \in 1..Len(OrderKind(o)) /\ 1 \in 1..Len(OrderKind(p))
    <2>1. \A n : n = 4 \/ n = 8 => 1 \in 1..n
      OBVIOUS
    <2>2. Len(OrderKind(o)) = 4 \/ Len(OrderKind(o)) = 8
      BY <1>2
    <2>3. Len(OrderKind(p)) = 4 \/ Len(OrderKind(p)) = 8
      BY <1>2
    <2> QED
      BY <2>1, <2>2, <2>3
  <1>4. OrderKind(o)[1] = OrderKind(p)[1]
    <2>1. (OrderKind(o) \o x)[1] = OrderKind(o)[1] /\ (OrderKind(p) \o y)[1] = OrderKind(p)[1]
      BY <1>1, <1>3, Concat DEF Alike
    <2> QED
      BY <2>1 DEF Alike
  <1>5. Str("limit") # Str("trigger")
    <2>1. "limit" # "trigger"
      OBVIOUS
    <2> QED
      BY <2>1, ItemsDetermine
  <1>6. o.order_type = "LIMIT" <=> p.order_type = "LIMIT"
    BY <1>2, <1>4, <1>5
  <1>7. o.order_type = p.order_type
    BY <1>6, OrderFields
  <1>8. Len(OrderKind(o)) = Len(OrderKind(p))
    BY <1>2, <1>6
  <1>9. OrderKind(o) = OrderKind(p) /\ x = y
    BY <1>1, <1>8, AlikeParts
  <1>10. ASSUME o.order_type = "LIMIT" PROVE o.limit = p.limit
    <2>1. LimitItems(o.limit) = LimitItems(p.limit)
      BY <1>2, <1>6, <1>9, <1>10
    <2>2. Str(TifText(o.limit.tif)) = Str(TifText(p.limit.tif))
      BY <2>1 DEF LimitItems
    <2>3. TifText(o.limit.tif) = TifText(p.limit.tif)
      BY <2>2, ItemsDetermine
    <2>4. o \in LimitOrders /\ p \in LimitOrders
      BY <1>6, <1>10, OrderFields
    <2>5. o.limit \in [tif : {"ALO", "IOC", "GTC"}] /\ p.limit \in [tif : {"ALO", "IOC", "GTC"}]
      BY <2>4 DEF LimitOrders
    <2>6. o.limit.tif \in {"ALO", "IOC", "GTC"} /\ p.limit.tif \in {"ALO", "IOC", "GTC"}
      BY <2>5
    <2>7. o.limit.tif = p.limit.tif
      BY <2>3, <2>6 DEF TifText
    <2> QED
      BY <2>5, <2>7
  <1>11. ASSUME o.order_type # "LIMIT" PROVE o.trigger = p.trigger
    <2>1. TriggerItems(o.trigger) = TriggerItems(p.trigger)
      BY <1>2, <1>6, <1>9, <1>11
    <2>2. /\ Bool(o.trigger.is_market) = Bool(p.trigger.is_market)
          /\ Str(o.trigger.trigger_px) = Str(p.trigger.trigger_px)
          /\ Str(IF o.trigger.tpsl = "TP" THEN "tp" ELSE "sl")
                 = Str(IF p.trigger.tpsl = "TP" THEN "tp" ELSE "sl")
      BY <2>1 DEF TriggerItems
    <2>3. /\ o.trigger.is_market = p.trigger.is_market
          /\ o.trigger.trigger_px = p.trigger.trigger_px
          /\ (IF o.trigger.tpsl = "TP" THEN "tp" ELSE "sl")
                 = (IF p.trigger.tpsl = "TP" THEN "tp" ELSE "sl")
      BY <2>2, ItemsDetermine
    <2>4. o \in TriggerOrders /\ p \in TriggerOrders
      BY <1>6, <1>11, OrderFields
    <2> DEFINE R == [is_market : BOOLEAN, trigger_px : NumericTexts, tpsl : {"TP", "SL"}]
    <2>5. o.trigger \in R /\ p.trigger \in R
      BY <2>4 DEF TriggerOrders
    <2>6. o.trigger.tpsl \in {"TP", "SL"} /\ p.trigger.tpsl \in {"TP", "SL"}
      BY <2>5
    <2>7. o.trigger.tpsl = p.trigger.tpsl
      BY <2>3, <2>6
    <2> QED
      BY <2>3, <2>5, <2>7
  <1> QED
    BY <1>7, <1>9, <1>10, <1>11

(* The client order id ends where it is announced to end. *)
LEMMA OrderCloidDetermines ==
  ASSUME NEW o \in OrderRequests, NEW p \in OrderRequests,
         o.cloid # Absent <=> p.cloid # Absent,
         NEW x, NEW y, Alike(OrderCloid(o), x, OrderCloid(p), y)
  PROVE  x = y /\ o.cloid = p.cloid
  <1>1. IsSeq(OrderCloid(o)) /\ IsSeq(OrderCloid(p))
    BY OrderCloidItems, ItemsAreSeq
  <1>2. CASE o.cloid # Absent
    <2>1. /\ OrderCloid(o) = <<Str("c"), Str(o.cloid)>>
          /\ OrderCloid(p) = <<Str("c"), Str(p.cloid)>>
      BY <1>2 DEF OrderCloid
    <2>2. Len(OrderCloid(o)) = Len(OrderCloid(p))
      BY <2>1
    <2>3. OrderCloid(o) = OrderCloid(p) /\ x = y
      BY <1>1, <2>2, AlikeParts
    <2>4. Str(o.cloid) = Str(p.cloid)
      BY <2>1, <2>3
    <2> QED
      BY <2>3, <2>4, ItemsDetermine
  <1>3. CASE o.cloid = Absent
    <2>1. OrderCloid(o) = <<>> /\ OrderCloid(p) = <<>>
      BY <1>3 DEF OrderCloid
    <2>2. Len(OrderCloid(o)) = Len(OrderCloid(p))
      BY <2>1
    <2>3. x = y
      BY <1>1, <2>2, AlikeParts
    <2> QED
      BY <1>3, <2>3
  <1> QED
    BY <1>2, <1>3

(* Orders of one kind whose fields agree are one order. *)
LEMMA SameLimitOrder ==
  ASSUME NEW o \in LimitOrders, NEW p \in LimitOrders,
         o.asset = p.asset, o.is_buy = p.is_buy, o.limit_px = p.limit_px, o.sz = p.sz,
         o.reduce_only = p.reduce_only, o.limit = p.limit, o.cloid = p.cloid
  PROVE  o = p
  <1>1. o.order_type = "LIMIT" /\ p.order_type = "LIMIT"
    BY DEF LimitOrders
  <1>2. ASSUME NEW q \in LimitOrders
        PROVE  q = [order_type |-> q.order_type, limit |-> q.limit, asset |-> q.asset,
                    is_buy |-> q.is_buy, limit_px |-> q.limit_px, sz |-> q.sz,
                    reduce_only |-> q.reduce_only, cloid |-> q.cloid]
    BY DEF LimitOrders
  <1> QED
    BY <1>1, <1>2, Zenon

LEMMA SameTriggerOrder ==
  ASSUME NEW o \in TriggerOrders, NEW p \in TriggerOrders,
         o.asset = p.asset, o.is_buy = p.is_buy, o.limit_px = p.limit_px, o.sz = p.sz,
         o.reduce_only = p.reduce_only, o.trigger = p.trigger, o.cloid = p.cloid
  PROVE  o = p
  <1>1. o.order_type = "TRIGGER" /\ p.order_type = "TRIGGER"
    BY DEF TriggerOrders
  <1>2. ASSUME NEW q \in TriggerOrders
        PROVE  q = [order_type |-> q.order_type, trigger |-> q.trigger, asset |-> q.asset,
                    is_buy |-> q.is_buy, limit_px |-> q.limit_px, sz |-> q.sz,
                    reduce_only |-> q.reduce_only, cloid |-> q.cloid]
    BY DEF TriggerOrders
  <1> QED
    BY <1>1, <1>2, Zenon

(* The items of an order tell where they end, and which order it is. *)
LEMMA OrderDetermines ==
  ASSUME NEW o \in OrderRequests, NEW p \in OrderRequests,
         NEW x, NEW y, Alike(OrderItems(o), x, OrderItems(p), y)
  PROVE  o = p /\ x = y
  <1>1. ASSUME NEW q \in OrderRequests, NEW z, IsSeq(z)
        PROVE  /\ OrderItems(q) \o z = OrderHead(q) \o (OrderKind(q) \o (OrderCloid(q) \o z))
               /\ IsSeq(OrderCloid(q) \o z)
               /\ IsSeq(OrderKind(q) \o (OrderCloid(q) \o z))
    <2> DEFINE h == OrderHead(q)
               k == OrderKind(q)
               c == OrderCloid(q)
    <2>1. IsSeq(h) /\ IsSeq(k) /\ IsSeq(c) /\ Len(h) = 13
      BY OrderHeadItems, OrderKindItems, OrderCloidItems, ItemsAreSeq
    <2>2. OrderItems(q) = (h \o k) \o c
      BY OrderParts
    <2> HIDE DEF h, k, c
    <2>3. /\ IsSeq(c \o z) /\ IsSeq(k \o (c \o z))
          /\ ((h \o k) \o c) \o z = h \o (k \o (c \o z))
      BY <1>1, <2>1, ConcatFour
    <2> QED
      BY <2>1, <2>2, <2>3 DEF h, k, c
  <1> DEFINE u == OrderCloid(o) \o x
             v == OrderCloid(p) \o y
             s == OrderKind(o) \o u
             t == OrderKind(p) \o v
  <1>2. Alike(OrderHead(o), s, OrderHead(p), t) /\ IsSeq(x) /\ IsSeq(y) /\ IsSeq(u) /\ IsSeq(v)
    BY <1>1 DEF Alike
  <1>3. /\ s = t
        /\ OrderMap(o) = OrderMap(p) /\ o.asset = p.asset /\ o.is_buy = p.is_buy
        /\ o.limit_px = p.limit_px /\ o.sz = p.sz /\ o.reduce_only = p.reduce_only
    <2> HIDE DEF s, t
    <2> QED
      BY <1>2, OrderHeadDetermines
  <1>4. o.cloid # Absent <=> p.cloid # Absent
    BY <1>3, CloidPresence
  <1>6. /\ u = v /\ o.order_type = p.order_type
        /\ o.order_type = "LIMIT" => o.limit = p.limit
        /\ o.order_type # "LIMIT" => o.trigger = p.trigger
    <2>1. Alike(OrderKind(o), u, OrderKind(p), v)
      BY <1>2, <1>3 DEF Alike
    <2> HIDE DEF u, v
    <2> QED
      BY <2>1, OrderKindDetermines
  <1>7. x = y /\ o.cloid = p.cloid
    <2>1. Alike(OrderCloid(o), x, OrderCloid(p), y)
      BY <1>2, <1>6 DEF Alike
    <2> QED
      BY <1>4, <2>1, OrderCloidDetermines
  <1>8. o = p
    <2>1. CASE o.order_type = "LIMIT"
      <3>1. o \in LimitOrders /\ p \in LimitOrders
        BY <1>6, <2>1, OrderFields
      <3> QED
        BY <1>3, <1>6, <1>7, <2>1, <3>1, SameLimitOrder
    <2>2. CASE o.order_type # "LIMIT"
      <3>1. o \in TriggerOrders /\ p \in TriggerOrders
        BY <1>6, <2>2, OrderFields
      <3> QED
        BY <1>3, <1>6, <1>7, <2>2, <3>1, SameTriggerOrder
    <2> QED
      BY <2>1, <2>2
  <1> QED
    BY <1>7, <1>8

-----------------------------------------------------------------------------
(* What the bytes tell: a request, a header *)

(* What begins alike and goes on alike, regrouped *)
LEMMA AlikeConcat ==
  ASSUME NEW s, NEW t, NEW u, NEW v, NEW x, NEW y,
         IsSeq(s), IsSeq(t), IsSeq(u), IsSeq(v)
  PROVE  Alike(s \o u, x, t \o v, y) => Alike(s, u \o x, t, v \o y)
  <1>1. ASSUME IsSeq(x) PROVE IsSeq(u \o x) /\ (s \o u) \o x = s \o (u \o x)
    <2>1. IsSeq(u \o x)
      BY <1>1, Concat
    <2>2. Regroups(s, u, x)
      BY <1>1, Regrouped
    <2> QED
      BY <2>1, <2>2 DEF Regroups
  <1>2. ASSUME IsSeq(y) PROVE IsSeq(v \o y) /\ (t \o v) \o y = t \o (v \o y)
    <2>1. IsSeq(v \o y)
      BY <1>2, Concat
    <2>2. Regroups(t, v, y)
      BY <1>2, Regrouped
    <2> QED
      BY <2>1, <2>2 DEF Regroups
  <1> QED
    BY <1>1, <1>2 DEF Alike

(* The items of a modification tell where they end, and which one it is. *)
LEMMA ModifyDetermines ==
  ASSUME NEW m \in [oid : Nat, order : OrderRequests],
         NEW n \in [oid : Nat, order : OrderRequests],
         NEW x, NEW y, Alike(ModifyItems(m), x, ModifyItems(n), y)
  PROVE  m = n /\ x = y
  <1> DEFINE h == ModifyHead(m)
             g == ModifyHead(n)
             u == OrderItems(m.order)
             v == OrderItems(n.order)
  <1>1. m.order \in OrderRequests /\ n.order \in OrderRequests
    OBVIOUS
  <1>2. IsSeq(h) /\ IsSeq(g) /\ IsSeq(u) /\ IsSeq(v) /\ Len(h) = Len(g)
    BY <1>1, ModifyHeadItems, OrderBytes, ItemsAreSeq
  <1>3. Alike(h \o u, x, g \o v, y)
    BY DEF ModifyItems, ModifyHead
  <1>4. Alike(h, u \o x, g, v \o y)
    <2> HIDE DEF h, g, u, v
    <2> QED
      BY <1>2, <1>3, AlikeConcat
  <1>5. h = g /\ u \o x = v \o y
    <2> DEFINE s == u \o x
               t == v \o y
    <2>1. Alike(h, s, g, t)
      BY <1>4
    <2> HIDE DEF h, g, s, t
    <2>2. h = g /\ s = t
      BY <1>2, <2>1, AlikeParts
    <2> QED
      BY <2>2 DEF s, t
  <1>6. Alike(u, x, v, y)
    BY <1>3, <1>5 DEF Alike
  <1>7. m.order = n.order /\ x = y
    BY <1>1, <1>6, OrderDetermines
  <1>8. Num(m.oid) = Num(n.oid)
    BY <1>5 DEF ModifyHead
  <1>9. m.oid = n.oid
    BY <1>8, ItemsDetermine
  <1>10. m = n
    BY <1>7, <1>9
  <1> QED
    BY <1>7, <1>10

(* The items of a cancellation tell where they end, and which one it is. *)
LEMMA CancelDetermines ==
  ASSUME NEW c \in [asset : Nat, oid : Nat], NEW d \in [asset : Nat, oid : Nat],
         NEW x, NEW y, Alike(CancelItems(c), x, CancelItems(d), y)
  PROVE  c = d /\ x = y
  <1>1. /\ IsSeq(CancelItems(c)) /\ IsSeq(CancelItems(d))
        /\ Len(CancelItems(c)) = Len(CancelItems(d))
    BY CancelBytes, ItemsAreSeq
  <1>2. CancelItems(c) = CancelItems(d) /\ x = y
    BY <1>1, AlikeParts
  <1>3. Num(c.asset) = Num(d.asset) /\ Num(c.oid) = Num(d.oid)
    BY <1>2 DEF CancelItems
  <1>4. c.asset = d.asset /\ c.oid = d.oid
    BY <1>3, ItemsDetermine
  <1>5. c = d
    BY <1>4
  <1> QED
    BY <1>2, <1>5

(* A request that has a MessagePack form, and its end *)
LEMMA RequestDetermines ==
  ASSUME NEW a, NEW b, IsParsed(a), IsParsed(b), a.type = b.type,
         NEW i \in 1..Len(RequestsOf(a)), i \in 1..Len(RequestsOf(b)),
         NEW x, NEW y, Alike(RequestItems(a, i), x, RequestItems(b, i), y)
  PROVE  RequestsOf(a)[i] = RequestsOf(b)[i] /\ x = y
  <1>1. a.type \in {"BULK_ORDER", "BULK_MODIFY", "BULK_CANCEL"}
    BY RequestBytes
  <1>2. CASE a.type = "BULK_ORDER"
    <2>1. a.body.orders[i] \in OrderRequests /\ b.body.orders[i] \in OrderRequests
      BY <1>2, RequestFields
    <2>2. Alike(OrderItems(a.body.orders[i]), x, OrderItems(b.body.orders[i]), y)
      BY <1>2 DEF RequestItems
    <2>3. a.body.orders[i] = b.body.orders[i] /\ x = y
      BY <2>1, <2>2, OrderDetermines
    <2> QED
      BY <1>2, <2>3 DEF RequestsOf
  <1>3. CASE a.type = "BULK_MODIFY"
    <2>1. /\ a.body.modifies[i] \in [oid : Nat, order : OrderRequests]
          /\ b.body.modifies[i] \in [oid : Nat, order : OrderRequests]
      BY <1>3, RequestFields
    <2>2. Alike(ModifyItems(a.body.modifies[i]), x, ModifyItems(b.body.modifies[i]), y)
      BY <1>3 DEF RequestItems
    <2>3. a.body.modifies[i] = b.body.modifies[i] /\ x = y
      BY <2>1, <2>2, ModifyDetermines
    <2> QED
      BY <1>3, <2>3 DEF RequestsOf
  <1>4. CASE a.type = "BULK_CANCEL"
    <2>1. /\ a.body.cancels[i] \in [asset : Nat, oid : Nat]
          /\ b.body.cancels[i] \in [asset : Nat, oid : Nat]
      BY <1>4, RequestFields
    <2>2. Alike(CancelItems(a.body.cancels[i]), x, CancelItems(b.body.cancels[i]), y)
      BY <1>4 DEF RequestItems
    <2>3. a.body.cancels[i] = b.body.cancels[i] /\ x = y
      BY <2>1, <2>2, CancelDetermines
    <2> QED
      BY <1>4, <2>3 DEF RequestsOf
  <1> QED
    BY <1>1, <1>2, <1>3, <1>4

(* The text each type is written as *)
TypeText(type) ==
    CASE type = "BULK_ORDER"             -> "order"
      [] type = "BULK_MODIFY"            -> "batchModify"
      [] type = "BULK_CANCEL"            -> "cancel"
      [] type = "UPDATE_LEVERAGE"        -> "updateLeverage"
      [] type = "UPDATE_ISOLATED_MARGIN" -> "updateIsolatedMargin"

(* No two types of action are written as the same text. *)
LEMMA TypeTextDetermines ==
  ASSUME NEW t \in SerializedTypes, NEW u \in SerializedTypes, TypeText(t) = TypeText(u)
  PROVE  t = u
  BY DEF TypeText, SerializedTypes

(* The third item of a header is the text of the type. *)
LEMMA TypeItem ==
  ASSUME NEW a, a.type \in SerializedTypes
  PROVE  HeaderItems(a)[3] = Str(TypeText(a.type))
  <1>1. CASE a.type = "BULK_ORDER"
    BY <1>1 DEF HeaderItems, TypeText
  <1>2. CASE a.type = "BULK_MODIFY"
    BY <1>2 DEF HeaderItems, TypeText
  <1>3. CASE a.type = "BULK_CANCEL"
    BY <1>3 DEF HeaderItems, TypeText
  <1>4. CASE a.type = "UPDATE_LEVERAGE"
    BY <1>4 DEF HeaderItems, TypeText
  <1>5. CASE a.type = "UPDATE_ISOLATED_MARGIN"
    BY <1>5 DEF HeaderItems, TypeText
  <1> QED
    BY <1>1, <1>2, <1>3, <1>4, <1>5 DEF SerializedTypes

(* The header tells the type, and with it where the header ends. *)
LEMMA HeaderDetermines ==
  ASSUME NEW a, NEW b, IsParsed(a), IsParsed(b),
         a.type \in SerializedTypes, b.type \in SerializedTypes,
         NEW x, NEW y, Alike(HeaderItems(a), x, HeaderItems(b), y)
  PROVE  a.type = b.type /\ HeaderItems(a) = HeaderItems(b) /\ x = y
  <1>1. /\ IsSeq(HeaderItems(a)) /\ IsSeq(HeaderItems(b))
        /\ Len(HeaderItems(a)) = HeaderLength(a) /\ Len(HeaderItems(b)) = HeaderLength(b)
    BY HeaderBytes, ItemsAreSeq
  <1>2. \A c : 3 \in 1..HeaderLength(c)
    BY DEF HeaderLength
  <1>3. HeaderItems(a)[3] = HeaderItems(b)[3]
    <2>1. /\ (HeaderItems(a) \o x)[3] = HeaderItems(a)[3]
          /\ (HeaderItems(b) \o y)[3] = HeaderItems(b)[3]
      <3>1. 3 \in 1..Len(HeaderItems(a)) /\ 3 \in 1..Len(HeaderItems(b))
        BY <1>1, <1>2
      <3>2. IsSeq(x) /\ IsSeq(y)
        BY DEF Alike
      <3> QED
        BY <1>1, <3>1, <3>2, Concat
    <2> QED
      BY <2>1 DEF Alike
  <1>4. TypeText(a.type) = TypeText(b.type)
    BY <1>3, TypeItem, ItemsDetermine
  <1>5. a.type = b.type
    BY <1>4, TypeTextDetermines
  <1>6. Len(HeaderItems(a)) = Len(HeaderItems(b))
    BY <1>1, <1>5 DEF HeaderLength
  <1>7. HeaderItems(a) = HeaderItems(b) /\ x = y
    BY <1>1, <1>6, AlikeParts
  <1> QED
    BY <1>5, <1>7

(* Equal headers announce the same number of requests, and a builder or    *)
(* none.                                                                   *)
LEMMA HeaderSays ==
  ASSUME NEW a, NEW b, a.type = b.type, HeaderItems(a) = HeaderItems(b),
         IsParsed(a), IsParsed(b), a.type \in SerializedTypes
  PROVE  /\ Len(RequestsOf(a)) = Len(RequestsOf(b))
         /\ a.type = "BULK_ORDER" => (a.body.builder # Absent <=> b.body.builder # Absent)
         /\ a.type \in {"UPDATE_LEVERAGE", "UPDATE_ISOLATED_MARGIN"} => a.body = b.body
  <1>1. CASE a.type = "BULK_ORDER"
    <2>1. /\ Map(IF a.body.builder # Absent THEN 4 ELSE 3)
               = Map(IF b.body.builder # Absent THEN 4 ELSE 3)
          /\ Array(Len(RequestsOf(a))) = Array(Len(RequestsOf(b)))
      BY <1>1 DEF HeaderItems
    <2>2. /\ (IF a.body.builder # Absent THEN 4 ELSE 3)
               = (IF b.body.builder # Absent THEN 4 ELSE 3)
          /\ Len(RequestsOf(a)) = Len(RequestsOf(b))
      BY <2>1, ItemsDetermine
    <2> QED
      BY <1>1, <2>2
  <1>2. CASE a.type = "BULK_MODIFY"
    <2>1. Array(Len(RequestsOf(a))) = Array(Len(RequestsOf(b)))
      BY <1>2 DEF HeaderItems
    <2> QED
      BY <1>2, <2>1, ItemsDetermine
  <1>3. CASE a.type = "BULK_CANCEL"
    <2>1. Array(Len(RequestsOf(a))) = Array(Len(RequestsOf(b)))
      BY <1>3 DEF HeaderItems
    <2> QED
      BY <1>3, <2>1, ItemsDetermine
  <1>4. CASE a.type = "UPDATE_LEVERAGE"
    <2>1. /\ Num(a.body.asset) = Num(b.body.asset)
          /\ Bool(a.body.is_cross) = Bool(b.body.is_cross)
          /\ Num(a.body.leverage) = Num(b.body.leverage)
      BY <1>4 DEF HeaderItems
    <2>2. /\ a.body.asset = b.body.asset /\ a.body.is_cross = b.body.is_cross
          /\ a.body.leverage = b.body.leverage
      BY <2>1, ItemsDetermine
    <2>3. /\ a.body \in [asset : Nat, is_cross : BOOLEAN, leverage : Nat]
          /\ b.body \in [asset : Nat, is_cross : BOOLEAN, leverage : Nat]
      BY <1>4 DEF IsParsed, LeverageUpdates
    <2>4. a.body = b.body
      BY <2>2, <2>3
    <2>5. RequestsOf(a) = <<>> /\ RequestsOf(b) = <<>>
      BY <1>4 DEF RequestsOf
    <2> QED
      BY <1>4, <2>4, <2>5
  <1>5. CASE a.type = "UPDATE_ISOLATED_MARGIN"
    <2>1. /\ Num(a.body.asset) = Num(b.body.asset)
          /\ Bool(a.body.is_buy) = Bool(b.body.is_buy)
          /\ Num(a.body.ntli) = Num(b.body.ntli)
      BY <1>5 DEF HeaderItems
    <2>2. /\ a.body.asset = b.body.asset /\ a.body.is_buy = b.body.is_buy
          /\ a.body.ntli = b.body.ntli
      BY <2>1, ItemsDetermine
    <2>3. /\ a.body \in [asset : Nat, is_buy : BOOLEAN, ntli : Int]
          /\ b.body \in [asset : Nat, is_buy : BOOLEAN, ntli : Int]
      BY <1>5 DEF IsParsed, MarginUpdates
    <2>4. a.body = b.body
      BY <2>2, <2>3
    <2>5. RequestsOf(a) = <<>> /\ RequestsOf(b) = <<>>
      BY <1>5 DEF RequestsOf
    <2> QED
      BY <1>5, <2>4, <2>5
  <1> QED
    BY <1>1, <1>2, <1>3, <1>4, <1>5 DEF SerializedTypes

-----------------------------------------------------------------------------
(* What the bytes tell: all requests, the trailer *)

(* A sequence that goes on after its first part *)
Begins(s, h) == \E r : IsSeq(r) /\ s = h \o r

(* Whatever has been written, and whatever follows, begins with the header. *)
LEMMA HeaderFirst ==
  ASSUME NEW a, IsParsed(a), a.type \in SerializedTypes, NEW m \in 0..Len(RequestsOf(a)),
         NEW x, IsSeq(x)
  PROVE  Begins(ItemsThrough(a, m) \o x, HeaderItems(a))
  <1> DEFINE last == Len(RequestsOf(a))
             U == {n \in 0..last :
                      \A z : IsSeq(z) => Begins(ItemsThrough(a, n) \o z, HeaderItems(a))}
  <1>1. /\ last \in Nat
        /\ ItemsThrough(a, 0) = HeaderItems(a)
        /\ \A n \in 0..last : AreItems(ItemsThrough(a, n))
        /\ \A n \in 1..last : ItemsThrough(a, n) = ItemsThrough(a, n - 1) \o RequestItems(a, n)
    BY ThroughBytes
  <1>2. \A n \in 0..last : IsSeq(ItemsThrough(a, n))
    BY <1>1, ItemsAreSeq
  <1>3. \A n \in 1..last : IsSeq(RequestItems(a, n))
    BY RequestBytes, ItemsAreSeq
  <1>4. m \in 0..last
    OBVIOUS
  <1> HIDE DEF last
  <1>5. 0 \in U
    BY <1>1 DEF Begins
  <1>6. ASSUME NEW n \in 0..last, n \in U, n # last PROVE n + 1 \in U
    <2>1. n + 1 \in 1..last /\ n + 1 \in 0..last /\ (n + 1) - 1 = n
      BY <1>1, <1>6
    <2> DEFINE i == ItemsThrough(a, n)
               q == RequestItems(a, n + 1)
    <2>2. ItemsThrough(a, n + 1) = i \o q /\ IsSeq(i) /\ IsSeq(q)
      BY <1>1, <1>2, <1>3, <2>1
    <2>3. ASSUME NEW z, IsSeq(z)
          PROVE  Begins(ItemsThrough(a, n + 1) \o z, HeaderItems(a))
      <3> DEFINE w == q \o z
      <3>1. IsSeq(w)
        BY <2>2, <2>3, Concat
      <3>2. (i \o q) \o z = i \o w
        <4>1. Regroups(i, q, z)
          <5> HIDE DEF i, q
          <5> QED
            BY <2>2, <2>3, Regrouped, Zenon
        <4> QED
          BY <4>1 DEF Regroups
      <3>3. Begins(i \o w, HeaderItems(a))
        <4>1. \A y : IsSeq(y) => Begins(i \o y, HeaderItems(a))
          BY <1>6
        <4> HIDE DEF i, w
        <4> QED
          BY <3>1, <4>1
      <3> QED
        BY <2>2, <3>2, <3>3
    <2> QED
      BY <2>1, <2>3
  <1>7. \A n \in 0..last : n \in U
    <2> HIDE DEF U
    <2> QED
      BY <1>1, <1>5, <1>6, CountingUp
  <1> QED
    BY <1>4, <1>7

(* Actions of one type that have written the same through as many requests *)
(* have the same requests.                                                 *)
LEMMA RequestsDetermine ==
  ASSUME NEW a, NEW b, IsParsed(a), IsParsed(b), a.type = b.type,
         a.type \in SerializedTypes, b.type \in SerializedTypes,
         NEW last, last = Len(RequestsOf(a)), last = Len(RequestsOf(b)),
         NEW x, NEW y, Alike(ItemsThrough(a, last), x, ItemsThrough(b, last), y)
  PROVE  x = y /\ \A i \in 1..last : RequestsOf(a)[i] = RequestsOf(b)[i]
  <1> DEFINE P(n) == \A u, v : Alike(ItemsThrough(a, n), u, ItemsThrough(b, n), v) =>
                         u = v /\ \A i \in 1..n : RequestsOf(a)[i] = RequestsOf(b)[i]
             U == {n \in 0..last : P(n)}
  <1>1. last \in Nat
    BY CountIsNat
  <1>2. ASSUME NEW c, IsParsed(c), c.type \in SerializedTypes, last = Len(RequestsOf(c))
        PROVE  /\ ItemsThrough(c, 0) = HeaderItems(c)
               /\ \A n \in 0..last : IsSeq(ItemsThrough(c, n))
               /\ \A n \in 1..last :
                      /\ ItemsThrough(c, n) = ItemsThrough(c, n - 1) \o RequestItems(c, n)
                      /\ IsSeq(RequestItems(c, n))
    BY <1>2, ThroughBytes, RequestBytes, ItemsAreSeq
  <1>3. 0 \in U
    <2>1. ASSUME NEW u, NEW v, Alike(ItemsThrough(a, 0), u, ItemsThrough(b, 0), v)
          PROVE  u = v
      <3>1. Alike(HeaderItems(a), u, HeaderItems(b), v)
        BY <1>2, <2>1
      <3> QED
        BY <3>1, HeaderDetermines
    <2> QED
      BY <1>1, <2>1
  <1>4. ASSUME NEW n \in 0..last, n \in U, n # last PROVE n + 1 \in U
    <2> DEFINE k == n + 1
    <2>1. k \in 1..last /\ k \in 0..last /\ k - 1 = n
      BY <1>1, <1>4
    <2>2. /\ ItemsThrough(a, k) = ItemsThrough(a, n) \o RequestItems(a, k)
          /\ ItemsThrough(b, k) = ItemsThrough(b, n) \o RequestItems(b, k)
          /\ IsSeq(RequestItems(a, k)) /\ IsSeq(RequestItems(b, k))
          /\ IsSeq(ItemsThrough(a, n)) /\ IsSeq(ItemsThrough(b, n))
      BY <1>2, <2>1
    <2>3. P(n)
      BY <1>4
    <2>4. \A i \in 1..k : i \in 1..n \/ i = k
      BY <1>1
    <2>5. k \in 1..Len(RequestsOf(a)) /\ k \in 1..Len(RequestsOf(b))
      BY <2>1
    <2> HIDE DEF k
    <2>6. ASSUME NEW u, NEW v, Alike(ItemsThrough(a, k), u, ItemsThrough(b, k), v)
          PROVE  u = v /\ \A i \in 1..k : RequestsOf(a)[i] = RequestsOf(b)[i]
      <3> DEFINE s == RequestItems(a, k) \o u
                 t == RequestItems(b, k) \o v
      <3>1. Alike(ItemsThrough(a, n) \o RequestItems(a, k), u,
                  ItemsThrough(b, n) \o RequestItems(b, k), v)
        BY <2>2, <2>6
      <3>2. Alike(ItemsThrough(a, n), s, ItemsThrough(b, n), t)
        BY <2>2, <3>1, AlikeConcat
      <3>3. s = t /\ \A i \in 1..n : RequestsOf(a)[i] = RequestsOf(b)[i]
        BY <2>3, <3>2
      <3>4. Alike(RequestItems(a, k), u, RequestItems(b, k), v)
        <4>1. IsSeq(u) /\ IsSeq(v)
          BY <2>6 DEF Alike
        <4> QED
          BY <3>3, <4>1 DEF Alike
      <3>5. RequestsOf(a)[k] = RequestsOf(b)[k] /\ u = v
        BY <2>5, <3>4, RequestDetermines
      <3> QED
        BY <2>4, <3>3, <3>5
    <2>7. P(k)
      BY <2>6
    <2> QED
      BY <2>1, <2>7 DEF k
  <1>5. \A n \in 0..last : n \in U
    <2> HIDE DEF U
    <2> QED
      BY <1>1, <1>3, <1>4, CountingUp
  <1>6. P(last)
    BY <1>1, <1>5
  <1> QED
    BY <1>6

(* What is hashed after the buffer is a sequence of two items. *)
LEMMA HashTailIsSeq == ASSUME NEW n PROVE IsSeq(HashTail(n)) /\ Len(HashTail(n)) = 2
  <1>1. HasLength(HashTail(n), 2)
    BY DEF HasLength, HashTail
  <1> QED
    BY <1>1, IsSeqOfLength

(* The tail tells the nonce, which has a fixed width. *)
LEMMA HashTailDetermines ==
  ASSUME NEW m, NEW n, HashTail(m) = HashTail(n) PROVE m = n
  BY DEF HashTail

(* The items of a builder tell where they end, and which one it is. *)
LEMMA BuilderDetermines ==
  ASSUME NEW a, NEW b, a.type = "BULK_ORDER", b.type = "BULK_ORDER", IsParsed(a), IsParsed(b),
         a.body.builder # Absent <=> b.body.builder # Absent,
         NEW x, NEW y, Alike(BuilderTail(a), x, BuilderTail(b), y)
  PROVE  a.body.builder = b.body.builder /\ x = y
  <1>1. /\ a.body.builder \in [builder : Addresses, fee : Nat] \cup {Absent}
        /\ b.body.builder \in [builder : Addresses, fee : Nat] \cup {Absent}
    BY DEF IsParsed, BulkOrders
  <1>2. IsSeq(BuilderTail(a)) /\ IsSeq(BuilderTail(b))
    BY TrailerBytes, ItemsAreSeq
  <1>3. CASE a.body.builder # Absent
    <2> DEFINE c == a.body.builder
               d == b.body.builder
    <2>1. c \in [builder : Addresses, fee : Nat] /\ d \in [builder : Addresses, fee : Nat]
      BY <1>1, <1>3
    <2>2. BuilderTail(a) = BuilderItems(c) /\ BuilderTail(b) = BuilderItems(d)
      BY <1>3 DEF BuilderTail
    <2> HIDE DEF c, d
    <2>3. Len(BuilderItems(c)) = 6 /\ Len(BuilderItems(d)) = 6
      BY <2>1, BuilderBytes
    <2>4. Len(BuilderTail(a)) = Len(BuilderTail(b))
      BY <2>2, <2>3
    <2>5. BuilderTail(a) = BuilderTail(b) /\ x = y
      BY <1>2, <2>4, AlikeParts
    <2>6. BuilderItems(c) = BuilderItems(d)
      BY <2>2, <2>5
    <2>7. Str(c.builder) = Str(d.builder) /\ Num(c.fee) = Num(d.fee)
      BY <2>6 DEF BuilderItems
    <2>8. c.builder = d.builder /\ c.fee = d.fee
      BY <2>7, ItemsDetermine
    <2>9. c = d
      BY <2>1, <2>8
    <2> QED
      BY <2>5, <2>9 DEF c, d
  <1>4. CASE a.body.builder = Absent
    <2>1. BuilderTail(a) = <<>> /\ BuilderTail(b) = <<>>
      BY <1>4 DEF BuilderTail
    <2>2. Len(BuilderTail(a)) = Len(BuilderTail(b))
      BY <2>1
    <2>3. x = y
      BY <1>2, <2>2, AlikeParts
    <2> QED
      BY <1>4, <2>3
  <1> QED
    BY <1>3, <1>4

(* The trailer tells the grouping and the builder. *)
LEMMA TrailerDetermines ==
  ASSUME NEW a, NEW b, IsParsed(a), IsParsed(b), a.type = b.type,
         a.type = "BULK_ORDER" => (a.body.builder # Absent <=> b.body.builder # Absent),
         NEW x, NEW y, Alike(TrailerItems(a), x, TrailerItems(b), y)
  PROVE  /\ x = y
         /\ a.type = "BULK_ORDER" =>
                a.body.grouping = b.body.grouping /\ a.body.builder = b.body.builder
  <1>1. CASE a.type = "BULK_ORDER"
    <2> DEFINE g == TrailerHead(a)
               h == TrailerHead(b)
               u == BuilderTail(a)
               v == BuilderTail(b)
    <2>1. /\ IsSeq(g) /\ IsSeq(h) /\ IsSeq(u) /\ IsSeq(v) /\ Len(g) = Len(h)
          /\ TrailerItems(a) = g \o u /\ TrailerItems(b) = h \o v
      <3>1. b.type = "BULK_ORDER"
        BY <1>1
      <3> QED
        BY <1>1, <3>1, TrailerBytes, ItemsAreSeq
    <2> DEFINE s == u \o x
               t == v \o y
    <2>2. Alike(g, s, h, t)
      <3>1. Alike(g \o u, x, h \o v, y)
        BY <2>1
      <3> HIDE DEF g, h, u, v
      <3> QED
        BY <2>1, <3>1, AlikeConcat
    <2>3. g = h /\ s = t
      <3>1. IsSeq(g) /\ IsSeq(h) /\ Len(g) = Len(h)
        BY <2>1
      <3> HIDE DEF g, h, s, t
      <3> QED
        BY <2>2, <3>1, AlikeParts
    <2>4. Alike(u, x, v, y)
      <3>1. IsSeq(x) /\ IsSeq(y)
        BY DEF Alike
      <3> QED
        BY <2>3, <3>1 DEF Alike
    <2>5. a.body.builder = b.body.builder /\ x = y
      <3>1. b.type = "BULK_ORDER"
        BY <1>1
      <3>2. a.body.builder # Absent <=> b.body.builder # Absent
        BY <1>1
      <3>3. Alike(BuilderTail(a), x, BuilderTail(b), y)
        BY <2>4
      <3> QED
        BY <1>1, <3>1, <3>2, <3>3, BuilderDetermines
    <2>6. Str(a.body.grouping) = Str(b.body.grouping)
      BY <2>3 DEF TrailerHead
    <2>7. a.body.grouping = b.body.grouping
      BY <2>6, ItemsDetermine
    <2> QED
      BY <2>5, <2>7
  <1>2. CASE a.type # "BULK_ORDER"
    <2>1. TrailerItems(a) = <<>> /\ TrailerItems(b) = <<>>
      BY <1>2 DEF TrailerItems
    <2>2. IsSeq(TrailerItems(a)) /\ IsSeq(TrailerItems(b))
      BY TrailerBytes, ItemsAreSeq
    <2>3. Len(TrailerItems(a)) = Len(TrailerItems(b))
      BY <2>1
    <2>4. x = y
      BY <2>2, <2>3, AlikeParts
    <2> QED
      BY <1>2, <2>4
  <1> QED
    BY <1>1, <1>2

-----------------------------------------------------------------------------
(* What the bytes tell: the action *)

(* What a serialized action says is all there is in it. *)
LEMMA BodyIs ==
  ASSUME NEW a, NEW b, IsParsed(a), IsParsed(b), a.type = b.type, a.type \in SerializedTypes,
         Len(RequestsOf(a)) = Len(RequestsOf(b)),
         \A i \in 1..Len(RequestsOf(a)) : RequestsOf(a)[i] = RequestsOf(b)[i],
         a.type = "BULK_ORDER" =>
             a.body.grouping = b.body.grouping /\ a.body.builder = b.body.builder,
         a.type \in {"UPDATE_LEVERAGE", "UPDATE_ISOLATED_MARGIN"} => a.body = b.body
  PROVE  a.body = b.body
  <1>1. CASE a.type = "BULK_ORDER"
    <2>1. a.body \in BulkOrders /\ b.body \in BulkOrders
      BY <1>1 DEF IsParsed
    <2> DEFINE s == a.body.orders
               t == b.body.orders
    <2>2. s \in Seq(OrderRequests) /\ t \in Seq(OrderRequests)
      BY <2>1 DEF BulkOrders
    <2>3. RequestsOf(a) = s /\ RequestsOf(b) = t
      BY <1>1 DEF RequestsOf
    <2>4. s = t
      <3>1. Len(s) = Len(t) /\ \A i \in 1..Len(s) : s[i] = t[i]
        BY <2>3
      <3> HIDE DEF s, t
      <3> QED
        BY <2>2, <3>1, SeqEqual
    <2>5. a.body.grouping = b.body.grouping /\ a.body.builder = b.body.builder
      BY <1>1
    <2> QED
      BY <2>1, <2>4, <2>5 DEF BulkOrders
  <1>2. CASE a.type = "BULK_MODIFY"
    <2>1. a.body \in BulkModifies /\ b.body \in BulkModifies
      BY <1>2 DEF IsParsed
    <2> DEFINE s == a.body.modifies
               t == b.body.modifies
    <2>2. /\ s \in Seq([oid : Nat, order : OrderRequests])
          /\ t \in Seq([oid : Nat, order : OrderRequests])
      BY <2>1 DEF BulkModifies
    <2>3. RequestsOf(a) = s /\ RequestsOf(b) = t
      BY <1>2 DEF RequestsOf
    <2>4. s = t
      <3>1. Len(s) = Len(t) /\ \A i \in 1..Len(s) : s[i] = t[i]
        BY <2>3
      <3> HIDE DEF s, t
      <3> QED
        BY <2>2, <3>1, SeqEqual
    <2> QED
      BY <2>1, <2>4 DEF BulkModifies
  <1>3. CASE a.type = "BULK_CANCEL"
    <2>1. a.body \in BulkCancels /\ b.body \in BulkCancels
      BY <1>3 DEF IsParsed
    <2> DEFINE s == a.body.cancels
               t == b.body.cancels
    <2>2. s \in Seq([asset : Nat, oid : Nat]) /\ t \in Seq([asset : Nat, oid : Nat])
      BY <2>1 DEF BulkCancels
    <2>3. RequestsOf(a) = s /\ RequestsOf(b) = t
      BY <1>3 DEF RequestsOf
    <2>4. s = t
      <3>1. Len(s) = Len(t) /\ \A i \in 1..Len(s) : s[i] = t[i]
        BY <2>3
      <3> HIDE DEF s, t
      <3> QED
        BY <2>2, <3>1, SeqEqual
    <2> QED
      BY <2>1, <2>4 DEF BulkCancels
  <1>4. CASE a.type \in {"UPDATE_LEVERAGE", "UPDATE_ISOLATED_MARGIN"}
    BY <1>4
  <1> QED
    BY <1>1, <1>2, <1>3, <1>4 DEF SerializedTypes

(* Everything that is written *)
Written(a) == ItemsThrough(a, Len(RequestsOf(a)))

(* What is written begins with the header. *)
LEMMA WrittenBegins ==
  ASSUME NEW a, IsParsed(a), a.type \in SerializedTypes, NEW x, IsSeq(x)
  PROVE  Begins(Written(a) \o x, HeaderItems(a))
  <1> DEFINE last == Len(RequestsOf(a))
  <1>1. last \in 0..last
    <2>1. last \in Nat
      BY CountIsNat
    <2> QED
      BY <2>1
  <1> QED
    BY <1>1, HeaderFirst DEF Written

(* Actions that are written alike have the same header. *)
LEMMA WrittenTellsHeader ==
  ASSUME NEW a, NEW b, IsParsed(a), IsParsed(b),
         a.type \in SerializedTypes, b.type \in SerializedTypes,
         NEW x, NEW y, Alike(Written(a), x, Written(b), y)
  PROVE  a.type = b.type /\ HeaderItems(a) = HeaderItems(b)
  <1>1. IsSeq(x) /\ IsSeq(y) /\ Written(a) \o x = Written(b) \o y
    BY DEF Alike
  <1>2. Begins(Written(a) \o x, HeaderItems(a))
    BY <1>1, WrittenBegins
  <1>3. Begins(Written(b) \o y, HeaderItems(b))
    BY <1>1, WrittenBegins
  <1>4. PICK q : IsSeq(q) /\ Written(a) \o x = HeaderItems(a) \o q
    BY <1>2 DEF Begins
  <1>5. PICK r : IsSeq(r) /\ Written(b) \o y = HeaderItems(b) \o r
    BY <1>3 DEF Begins
  <1>6. Alike(HeaderItems(a), q, HeaderItems(b), r)
    BY <1>1, <1>4, <1>5 DEF Alike
  <1> QED
    BY <1>6, HeaderDetermines

(* Actions that are written alike, whatever follows, are the same up to the*)
(* nonce.                                                                  *)
LEMMA WrittenDetermines ==
  ASSUME NEW a, NEW b, IsParsed(a), IsParsed(b), a.type = b.type,
         a.type \in SerializedTypes, b.type \in SerializedTypes,
         Len(RequestsOf(a)) = Len(RequestsOf(b)),
         NEW x, NEW y, Alike(Written(a), x, Written(b), y)
  PROVE  x = y /\ \A i \in 1..Len(RequestsOf(a)) : RequestsOf(a)[i] = RequestsOf(b)[i]
  <1> DEFINE last == Len(RequestsOf(a))
  <1>1. Alike(ItemsThrough(a, last), x, ItemsThrough(b, last), y)
    BY DEF Written
  <1>2. last = Len(RequestsOf(a)) /\ last = Len(RequestsOf(b))
    OBVIOUS
  <1> HIDE DEF last
  <1>3. x = y /\ \A i \in 1..last : RequestsOf(a)[i] = RequestsOf(b)[i]
    BY <1>1, <1>2, RequestsDetermine
  <1> QED
    BY <1>3 DEF last

(* What is hashed is not that of another action. *)
LEMMA HashedDetermines ==
  ASSUME NEW a, NEW b, IsParsed(a), IsParsed(b),
         a.type \in SerializedTypes, b.type \in SerializedTypes,
         ActionItems(a) \o HashTail(a.nonce) = ActionItems(b) \o HashTail(b.nonce)
  PROVE  a.type = b.type /\ a.body = b.body /\ a.nonce = b.nonce
  <1> DEFINE last == Len(RequestsOf(a))
             other == Len(RequestsOf(b))
             i == Written(a)
             j == Written(b)
             u == TrailerItems(a)
             v == TrailerItems(b)
             x == HashTail(a.nonce)
             y == HashTail(b.nonce)
  <1>1. last \in Nat /\ other \in Nat
    BY CountIsNat
  <1>2. IsSeq(i) /\ IsSeq(j) /\ IsSeq(u) /\ IsSeq(v) /\ IsSeq(x) /\ IsSeq(y)
    <2>1. last \in 0..last /\ other \in 0..other
      BY <1>1
    <2> QED
      BY <2>1, ThroughBytes, TrailerBytes, HashTailIsSeq, ItemsAreSeq DEF Written
  <1>3. Alike(i \o u, x, j \o v, y)
    BY <1>2 DEF Alike, ActionItems, Written
  <1> DEFINE s == u \o x
             t == v \o y
  <1>4. Alike(i, s, j, t)
    <2> HIDE DEF i, j, u, v, x, y
    <2> QED
      BY <1>2, <1>3, AlikeConcat
  <1>5. a.type = b.type /\ HeaderItems(a) = HeaderItems(b)
    <2> HIDE DEF s, t
    <2> QED
      BY <1>4, WrittenTellsHeader
  <1>6. /\ last = other
        /\ a.type = "BULK_ORDER" => (a.body.builder # Absent <=> b.body.builder # Absent)
        /\ a.type \in {"UPDATE_LEVERAGE", "UPDATE_ISOLATED_MARGIN"} => a.body = b.body
    BY <1>5, HeaderSays
  <1>7. s = t /\ \A k \in 1..last : RequestsOf(a)[k] = RequestsOf(b)[k]
    <2> HIDE DEF s, t
    <2> QED
      BY <1>4, <1>5, <1>6, WrittenDetermines
  <1>8. Alike(u, x, v, y)
    BY <1>2, <1>7 DEF Alike
  <1>9. /\ x = y
        /\ a.type = "BULK_ORDER" =>
               a.body.grouping = b.body.grouping /\ a.body.builder = b.body.builder
    <2>1. Alike(TrailerItems(a), x, TrailerItems(b), y)
      BY <1>8
    <2> HIDE DEF x, y
    <2> QED
      BY <1>5, <1>6, <2>1, TrailerDetermines
  <1>10. a.nonce = b.nonce
    BY <1>9, HashTailDetermines
  <1>11. a.body = b.body
    BY <1>5, <1>6, <1>7, <1>9, BodyIs
  <1> QED
    BY <1>5, <1>10, <1>11

(* No two actions are hashed from the same bytes, whatever the requests and*)
(* the size of the buffer (order_request.c:55-84, 141-179, 334-405,        *)
(* action.c:306-342).                                                      *)
THEOREM BytesDetermineActionAlways == Spec => []BytesDetermineAction
  <1>1. ASSUME WrittenInv PROVE BytesDetermineAction
    <2> SUFFICES ASSUME stage = "done", NEW r \in DOMAIN HashedBytes, out = HashedBytes[r]
                 PROVE  ConnectionId(r.action) = ConnectionId(approved)
      BY DEF BytesDetermineAction
    <2>1. r \in Requests /\ r.action.type \in SerializedTypes
      BY DEF HashedBytes
    <2>2. out = ActionItems(r.action) \o HashTail(r.action.nonce)
      BY <2>1 DEF HashedBytes
    <2>3. IsParsed(r.action)
      BY <2>1, RequestsAssumption
    <2>4. /\ IsParsed(approved) /\ approved.type \in SerializedTypes
          /\ out = ActionItems(approved) \o HashTail(approved.nonce)
      BY <1>1 DEF WrittenInv
    <2>5. /\ r.action.type = approved.type /\ r.action.body = approved.body
          /\ r.action.nonce = approved.nonce
      BY <2>1, <2>2, <2>3, <2>4, HashedDetermines
    <2> QED
      BY <2>5 DEF ConnectionId
  <1> QED
    BY <1>1, WrittenAlways, PTL

-----------------------------------------------------------------------------
(* One value: how many items are still needed *)

(* Where so many items are needed before, the items bring the number to    *)
(* what is needed after, and not to nothing until the last of them.        *)
Fills(items, before, after) ==
    /\ AreItems(items)
    /\ RunningSum(Needs(items))[Len(items)] = after - before
    /\ \A n \in 0..(Len(items) - 1) : before + RunningSum(Needs(items))[n] > 0

(* Nothing changes nothing. *)
LEMMA FillsNothing == ASSUME NEW k \in Nat PROVE Fills(<<>>, k, k)
  <1> DEFINE s == <<>>
  <1>1. HasLength(s, 0)
    BY DEF HasLength
  <1> HIDE DEF s
  <1>2. \A i \in 1..0 : IsItem(s[i])
    OBVIOUS
  <1>3. AreItems(s) /\ Len(s) = 0 /\ RunningSum(Needs(s))[0] = 0
    BY <1>1, <1>2, SumsOfItems
  <1>4. Fills(s, k, k)
    BY <1>3 DEF Fills
  <1> QED
    BY <1>4 DEF s

(* What is needed can be summed up. *)
LEMMA NeedsAreInt ==
  ASSUME NEW s, AreItems(s)
  PROVE  \A n \in 0..Len(s) : RunningSum(Needs(s))[n] \in Int
  <1> DEFINE w == Needs(s)
  <1>1. IsSeq(w) /\ Len(w) = Len(s) /\ \A n \in 1..Len(w) : w[n] \in Int
    BY Weights
  <1> HIDE DEF w
  <1>2. \A n \in 0..Len(w) : RunningSum(w)[n] \in Int
    BY <1>1, RunningSumFacts
  <1> QED
    BY <1>1, <1>2 DEF w

(* What fills up to a number, followed by what fills on from it *)
LEMMA FillsBoth ==
  ASSUME NEW s, NEW t, NEW k \in Nat, NEW l \in Nat, NEW m \in Nat,
         Fills(s, k, l), Fills(t, l, m)
  PROVE  Fills(s \o t, k, m)
  <1> DEFINE v == Needs(s)
             w == Needs(t)
             f == RunningSum(v \o w)
             g == RunningSum(v)
             h == RunningSum(w)
             a == Len(s)
             b == Len(t)
  <1>1. AreItems(s) /\ AreItems(t)
    BY DEF Fills
  <1>2. /\ AreItems(s \o t) /\ Needs(s \o t) = v \o w
        /\ Len(s \o t) = a + b /\ a \in Nat /\ b \in Nat
    BY <1>1, WeightsOfBoth, Concat, SeqFacts DEF AreItems
  <1>3. /\ IsSeq(v) /\ Len(v) = a /\ \A n \in 1..a : v[n] \in Int
        /\ IsSeq(w) /\ Len(w) = b /\ \A n \in 1..b : w[n] \in Int
    BY <1>1, Weights
  <1>4. /\ \A n \in 0..a : g[n] \in Int
        /\ \A n \in 0..b : h[n] \in Int
    BY <1>1, NeedsAreInt
  <1>5. g[a] = l - k /\ \A n \in 0..(a - 1) : k + g[n] > 0
    BY DEF Fills
  <1>6. h[b] = m - l /\ \A n \in 0..(b - 1) : l + h[n] > 0
    BY DEF Fills
  <1> HIDE DEF v, w, a, b
  <1>7. /\ \A n \in 0..a : f[n] = g[n]
        /\ \A n \in 0..b : f[a + n] = g[a] + h[n]
    <2>1. IsSeq(v) /\ IsSeq(w) /\ (\A n \in 1..Len(v) : v[n] \in Int)
          /\ (\A n \in 1..Len(w) : w[n] \in Int)
      BY <1>3
    <2>2. /\ \A n \in 0..Len(v) : f[n] = g[n]
          /\ \A n \in 0..Len(w) : f[Len(v) + n] = g[Len(v)] + h[n]
      BY <2>1, SumsOfBoth
    <2> QED
      BY <1>3, <2>2
  <1> HIDE DEF f, g, h
  <1>8. f[a + b] = m - k
    <2>1. b \in 0..b
      BY <1>2
    <2> QED
      BY <1>5, <1>6, <1>7, <2>1
  <1>9. ASSUME NEW n \in 0..(a + b - 1) PROVE k + f[n] > 0
    <2>1. CASE n \in 0..(a - 1)
      <3>1. n \in 0..a
        BY <1>2, <2>1
      <3> QED
        BY <1>5, <1>7, <2>1, <3>1
    <2>2. CASE n \notin 0..(a - 1)
      <3>1. n - a \in 0..(b - 1) /\ n - a \in 0..b /\ a + (n - a) = n
        BY <1>2, <2>2
      <3>2. f[a + (n - a)] = g[a] + h[n - a]
        BY <1>7, <3>1
      <3>3. h[n - a] \in Int /\ l + h[n - a] > 0
        BY <1>4, <1>6, <3>1
      <3> QED
        BY <1>5, <3>1, <3>2, <3>3
    <2> QED
      BY <2>1, <2>2
  <1> QED
    BY <1>2, <1>8, <1>9 DEF Fills, f

(* The sums of an explicit tuple *)
LEMMA FewNeeds ==
  ASSUME NEW n \in Nat, NEW s, HasLength(s, n), AreItems(s), Len(s) = n
  PROVE  /\ RunningSum(Needs(s))[0] = 0
         /\ \A i \in 1..n : RunningSum(Needs(s))[i] =
                                RunningSum(Needs(s))[i - 1] + (Announced(s[i]) - 1)
  <1>1. \A i \in 1..n : IsItem(s[i])
    BY DEF AreItems
  <1> QED
    BY <1>1, SumsOfItems

(* The head of an order leaves its kind open, which is two items, and the  *)
(* client order id if the map announces one.                               *)
LEMMA OrderHeadFills ==
  ASSUME NEW order \in OrderRequests, NEW k \in Nat
  PROVE  Fills(OrderHead(order), k + 1, k + (IF order.cloid # Absent THEN 4 ELSE 2))
  <1> DEFINE s == OrderHead(order)
             f == RunningSum(Needs(s))
             size == IF order.cloid # Absent THEN 14 ELSE 12
             rest == IF order.cloid # Absent THEN 4 ELSE 2
  <1>1. HasLength(s, 13) /\ AreItems(s) /\ Len(s) = 13
    BY OrderHeadItems
  <1>2. /\ s[1] = OrderMap(order) /\ s[2] = Str("a") /\ s[3] = Num(order.asset)
        /\ s[4] = Str("b") /\ s[5] = Bool(order.is_buy) /\ s[6] = Str("p")
        /\ s[7] = Str(order.limit_px) /\ s[8] = Str("s") /\ s[9] = Str(order.sz)
        /\ s[10] = Str("r") /\ s[11] = Bool(order.reduce_only) /\ s[12] = Str("t")
        /\ s[13] = Map(1)
    BY DEF OrderHead
  <1>3. size = rest + 10 /\ rest \in {2, 4}
    OBVIOUS
  <1> HIDE DEF s
  <1>4. f[0] = 0 /\ \A i \in 1..13 : f[i] = f[i - 1] + (Announced(s[i]) - 1)
    BY <1>1, FewNeeds
  <1>5. Announced(s[1]) = size
    BY <1>2, OrderMapItem
  <1>6. Announced(s[7]) = 0 /\ Announced(s[9]) = 0
    BY <1>2, OrderFields, NumericItem
  <1>7. Announced(s[3]) = 0 /\ Announced(s[5]) = 0 /\ Announced(s[11]) = 0 /\ Announced(s[13]) = 2
    BY <1>2, NumItem, BoolItem, MapItem
  <1>8. /\ Announced(s[2]) = 0 /\ Announced(s[4]) = 0 /\ Announced(s[6]) = 0
        /\ Announced(s[8]) = 0 /\ Announced(s[10]) = 0 /\ Announced(s[12]) = 0
    BY <1>2, FixedItems DEF FixedItem
  <1> HIDE DEF f, size, rest
  <1>9. /\ f[1] = f[0] + (Announced(s[1]) - 1) /\ f[2] = f[1] + (Announced(s[2]) - 1)
        /\ f[3] = f[2] + (Announced(s[3]) - 1) /\ f[4] = f[3] + (Announced(s[4]) - 1)
        /\ f[5] = f[4] + (Announced(s[5]) - 1) /\ f[6] = f[5] + (Announced(s[6]) - 1)
        /\ f[7] = f[6] + (Announced(s[7]) - 1) /\ f[8] = f[7] + (Announced(s[8]) - 1)
        /\ f[9] = f[8] + (Announced(s[9]) - 1) /\ f[10] = f[9] + (Announced(s[10]) - 1)
        /\ f[11] = f[10] + (Announced(s[11]) - 1) /\ f[12] = f[11] + (Announced(s[12]) - 1)
        /\ f[13] = f[12] + (Announced(s[13]) - 1)
    BY <1>4
  <1>10. /\ f[1] = size - 1 /\ f[2] = size - 2 /\ f[3] = size - 3 /\ f[4] = size - 4
         /\ f[5] = size - 5 /\ f[6] = size - 6 /\ f[7] = size - 7 /\ f[8] = size - 8
         /\ f[9] = size - 9 /\ f[10] = size - 10 /\ f[11] = size - 11 /\ f[12] = size - 12
         /\ f[13] = size - 11
    <2>1. /\ f[1] = size - 1 /\ f[2] = f[1] - 1 /\ f[3] = f[2] - 1 /\ f[4] = f[3] - 1
          /\ f[5] = f[4] - 1 /\ f[6] = f[5] - 1 /\ f[7] = f[6] - 1 /\ f[8] = f[7] - 1
          /\ f[9] = f[8] - 1 /\ f[10] = f[9] - 1 /\ f[11] = f[10] - 1 /\ f[12] = f[11] - 1
          /\ f[13] = f[12] + 1
      BY <1>3, <1>4, <1>5, <1>6, <1>7, <1>8, <1>9
    <2> QED
      BY <1>3, <2>1
  <1>11. f[13] = (k + rest) - (k + 1)
    BY <1>3, <1>10
  <1>12. \A n \in 0..12 : (k + 1) + f[n] > 0
    BY <1>3, <1>4, <1>10
  <1> QED
    BY <1>1, <1>11, <1>12 DEF Fills, f, s, rest

(* The kind of a limit order is a key and its value. *)
LEMMA LimitFills ==
  ASSUME NEW order \in LimitOrders, NEW k \in Nat
  PROVE  Fills(LimitItems(order.limit), k + 2, k)
  <1> DEFINE s == LimitItems(order.limit)
             f == RunningSum(Needs(s))
  <1>1. HasLength(s, 4) /\ AreItems(s) /\ Len(s) = 4
    BY LimitKindItems
  <1>2. /\ s[1] = Str("limit") /\ s[2] = Map(1)
        /\ s[3] = Str("tif") /\ s[4] = Str(TifText(order.limit.tif))
    BY DEF LimitItems
  <1>0. TifText(order.limit.tif) \in {"Alo", "Ioc", "Gtc"}
    <2>1. order.limit.tif \in {"ALO", "IOC", "GTC"}
      BY DEF LimitOrders
    <2> QED
      BY <2>1 DEF TifText
  <1> HIDE DEF s
  <1>3. f[0] = 0 /\ \A i \in 1..4 : f[i] = f[i - 1] + (Announced(s[i]) - 1)
    BY <1>1, FewNeeds
  <1>4. Announced(s[1]) = 0 /\ Announced(s[3]) = 0
    BY <1>2, FixedItems DEF FixedItem
  <1>5. Announced(s[2]) = 2
    BY <1>2, MapItem
  <1>6. Announced(s[4]) = 0
    BY <1>0, <1>2, FixedItems DEF FixedItem
  <1> HIDE DEF f
  <1>7. f[1] = -1 /\ f[2] = 0 /\ f[3] = -1 /\ f[4] = -2
    BY <1>3, <1>4, <1>5, <1>6
  <1>8. \A n \in 0..3 : (k + 2) + f[n] > 0
    BY <1>3, <1>7
  <1> QED
    BY <1>1, <1>7, <1>8 DEF Fills, f, s

(* The kind of a trigger order is a key and its value. *)
LEMMA TriggerFills ==
  ASSUME NEW order \in TriggerOrders, NEW k \in Nat
  PROVE  Fills(TriggerItems(order.trigger), k + 2, k)
  <1> DEFINE s == TriggerItems(order.trigger)
             f == RunningSum(Needs(s))
  <1>1. HasLength(s, 8) /\ AreItems(s) /\ Len(s) = 8
    BY TriggerKindItems
  <1>2. /\ s[1] = Str("trigger") /\ s[2] = Map(3)
        /\ s[3] = Str("isMarket") /\ s[4] = Bool(order.trigger.is_market)
        /\ s[5] = Str("triggerPx") /\ s[6] = Str(order.trigger.trigger_px)
        /\ s[7] = Str("tpsl") /\ s[8] = Str(IF order.trigger.tpsl = "TP" THEN "tp" ELSE "sl")
    BY DEF TriggerItems
  <1>0. order.trigger.trigger_px \in NumericTexts
    BY DEF TriggerOrders
  <1> HIDE DEF s
  <1>3. f[0] = 0 /\ \A i \in 1..8 : f[i] = f[i - 1] + (Announced(s[i]) - 1)
    BY <1>1, FewNeeds
  <1>4. /\ Announced(s[1]) = 0 /\ Announced(s[3]) = 0 /\ Announced(s[5]) = 0
        /\ Announced(s[7]) = 0 /\ Announced(s[8]) = 0
    BY <1>2, FixedItems DEF FixedItem
  <1>5. Announced(s[2]) = 6 /\ Announced(s[4]) = 0
    BY <1>2, MapItem, BoolItem
  <1>6. Announced(s[6]) = 0
    BY <1>0, <1>2, NumericItem
  <1> HIDE DEF f
  <1>7. /\ f[1] = -1 /\ f[2] = 4 /\ f[3] = 3 /\ f[4] = 2
        /\ f[5] = 1 /\ f[6] = 0 /\ f[7] = -1 /\ f[8] = -2
    BY <1>3, <1>4, <1>5, <1>6
  <1>8. \A n \in 0..7 : (k + 2) + f[n] > 0
    BY <1>3, <1>7
  <1> QED
    BY <1>1, <1>7, <1>8 DEF Fills, f, s

(* A key and a value that announces nothing *)
LEMMA PairFills ==
  ASSUME NEW a, NEW b, IsItem(a), IsItem(b), Announced(a) = 0, Announced(b) = 0, NEW k \in Nat
  PROVE  Fills(<<a, b>>, k + 2, k)
  <1> DEFINE s == <<a, b>>
             f == RunningSum(Needs(s))
  <1>1. HasLength(s, 2) /\ AreItems(s) /\ Len(s) = 2
    BY TwoItems DEF HasLength
  <1>2. s[1] = a /\ s[2] = b
    OBVIOUS
  <1> HIDE DEF s
  <1>3. f[0] = 0 /\ \A i \in 1..2 : f[i] = f[i - 1] + (Announced(s[i]) - 1)
    BY <1>1, FewNeeds
  <1> HIDE DEF f
  <1>4. f[1] = -1 /\ f[2] = -2
    BY <1>2, <1>3
  <1>5. \A n \in 0..1 : (k + 2) + f[n] > 0
    BY <1>3, <1>4
  <1> QED
    BY <1>1, <1>4, <1>5 DEF Fills, f, s

(* The head of a modification leaves the order open. *)
LEMMA ModifyHeadFills ==
  ASSUME NEW modify, NEW k \in Nat
  PROVE  Fills(ModifyHead(modify), k + 1, k + 1)
  <1> DEFINE s == ModifyHead(modify)
             f == RunningSum(Needs(s))
  <1>1. HasLength(s, 4) /\ AreItems(s) /\ Len(s) = 4
    BY ModifyHeadItems
  <1>2. /\ s[1] = Map(2) /\ s[2] = Str("oid")
        /\ s[3] = Num(modify.oid) /\ s[4] = Str("order")
    BY DEF ModifyHead
  <1> HIDE DEF s
  <1>3. f[0] = 0 /\ \A i \in 1..4 : f[i] = f[i - 1] + (Announced(s[i]) - 1)
    BY <1>1, FewNeeds
  <1>4. Announced(s[1]) = 4 /\ Announced(s[3]) = 0
    BY <1>2, NumItem, MapItem
  <1>5. Announced(s[2]) = 0 /\ Announced(s[4]) = 0
    BY <1>2, FixedItems DEF FixedItem
  <1> HIDE DEF f
  <1>6. f[1] = 3 /\ f[2] = 2 /\ f[3] = 1 /\ f[4] = 0
    BY <1>3, <1>4, <1>5
  <1>7. \A n \in 0..3 : (k + 1) + f[n] > 0
    BY <1>3, <1>6
  <1> QED
    BY <1>1, <1>6, <1>7 DEF Fills, f, s

(* A cancellation is one value. *)
LEMMA CancelFills ==
  ASSUME NEW cancel, NEW k \in Nat
  PROVE  Fills(CancelItems(cancel), k + 1, k)
  <1> DEFINE s == CancelItems(cancel)
             f == RunningSum(Needs(s))
  <1>1. HasLength(s, 5) /\ AreItems(s) /\ Len(s) = 5
    BY CancelBytes
  <1>2. /\ s[1] = Map(2) /\ s[2] = Str("a")
        /\ s[3] = Num(cancel.asset) /\ s[4] = Str("o")
        /\ s[5] = Num(cancel.oid)
    BY DEF CancelItems
  <1> HIDE DEF s
  <1>3. f[0] = 0 /\ \A i \in 1..5 : f[i] = f[i - 1] + (Announced(s[i]) - 1)
    BY <1>1, FewNeeds
  <1>4. Announced(s[1]) = 4 /\ Announced(s[3]) = 0 /\ Announced(s[5]) = 0
    BY <1>2, NumItem, MapItem
  <1>5. Announced(s[2]) = 0 /\ Announced(s[4]) = 0
    BY <1>2, FixedItems DEF FixedItem
  <1> HIDE DEF f
  <1>6. /\ f[1] = 3 /\ f[2] = 2 /\ f[3] = 1 /\ f[4] = 0
        /\ f[5] = -1
    BY <1>3, <1>4, <1>5
  <1>7. \A n \in 0..4 : (k + 1) + f[n] > 0
    BY <1>3, <1>6
  <1> QED
    BY <1>1, <1>6, <1>7 DEF Fills, f, s

(* The builder is a key and its value. *)
LEMMA BuilderFills ==
  ASSUME NEW builder \in [builder : Addresses, fee : Nat], NEW k \in Nat
  PROVE  Fills(BuilderItems(builder), k + 2, k)
  <1> DEFINE s == BuilderItems(builder)
             f == RunningSum(Needs(s))
  <1>1. HasLength(s, 6) /\ AreItems(s) /\ Len(s) = 6
    BY BuilderBytes
  <1>2. /\ s[1] = Str("builder") /\ s[2] = Map(2)
        /\ s[3] = Str("b") /\ s[4] = Str(builder.builder)
        /\ s[5] = Str("f") /\ s[6] = Num(builder.fee)
    BY DEF BuilderItems
  <1>0. builder.builder \in Addresses
    OBVIOUS
  <1> HIDE DEF s
  <1>3. f[0] = 0 /\ \A i \in 1..6 : f[i] = f[i - 1] + (Announced(s[i]) - 1)
    BY <1>1, FewNeeds
  <1>4. Announced(s[1]) = 0 /\ Announced(s[3]) = 0 /\ Announced(s[5]) = 0
    BY <1>2, FixedItems DEF FixedItem
  <1>5. Announced(s[2]) = 4 /\ Announced(s[6]) = 0
    BY <1>2, NumItem, MapItem
  <1>6. Announced(s[4]) = 0
    BY <1>0, <1>2, HexItem
  <1> HIDE DEF f
  <1>7. /\ f[1] = -1 /\ f[2] = 2 /\ f[3] = 1 /\ f[4] = 0
        /\ f[5] = -1 /\ f[6] = -2
    BY <1>3, <1>4, <1>5, <1>6
  <1>8. \A n \in 0..5 : (k + 2) + f[n] > 0
    BY <1>3, <1>7
  <1> QED
    BY <1>1, <1>7, <1>8 DEF Fills, f, s

(* An order is one value, with or without a client order id. *)
LEMMA OrderFills ==
  ASSUME NEW order \in OrderRequests, NEW k \in Nat
  PROVE  Fills(OrderItems(order), k + 1, k)
  <1> DEFINE h == OrderHead(order)
             q == OrderKind(order)
             c == OrderCloid(order)
             rest == IF order.cloid # Absent THEN 2 ELSE 0
  <1>1. rest \in Nat /\ k + 1 \in Nat /\ (k + rest) + 2 \in Nat /\ k + rest \in Nat
    OBVIOUS
  <1>2. Fills(h, k + 1, (k + rest) + 2)
    <2>1. Fills(h, k + 1, k + (IF order.cloid # Absent THEN 4 ELSE 2))
      BY OrderHeadFills
    <2>2. k + (IF order.cloid # Absent THEN 4 ELSE 2) = (k + rest) + 2
      OBVIOUS
    <2> QED
      BY <2>1, <2>2
  <1>3. ASSUME NEW l \in Nat PROVE Fills(q, l + 2, l)
    <2>1. CASE order.order_type = "LIMIT"
      <3>1. order \in LimitOrders
        BY <2>1, OrderFields
      <3>2. q = LimitItems(order.limit)
        BY <2>1 DEF OrderKind
      <3>3. Fills(LimitItems(order.limit), l + 2, l)
        BY <3>1, LimitFills
      <3> QED
        BY <3>2, <3>3
    <2>2. CASE order.order_type # "LIMIT"
      <3>1. order \in TriggerOrders
        BY <2>2, OrderFields
      <3>2. q = TriggerItems(order.trigger)
        BY <2>2 DEF OrderKind
      <3>3. Fills(TriggerItems(order.trigger), l + 2, l)
        BY <3>1, TriggerFills
      <3> QED
        BY <3>2, <3>3
    <2> QED
      BY <2>1, <2>2
  <1>4. Fills(c, k + rest, k)
    <2>1. CASE order.cloid # Absent
      <3>1. order.cloid \in Cloids
        BY <2>1, OrderFields
      <3>2. IsItem(Str("c")) /\ Announced(Str("c")) = 0
        BY FixedItems DEF FixedItem
      <3>3. IsItem(Str(order.cloid)) /\ Announced(Str(order.cloid)) = 0
        BY <3>1, HexItem
      <3>4. Fills(<<Str("c"), Str(order.cloid)>>, k + 2, k)
        BY <3>2, <3>3, PairFills
      <3>5. c = <<Str("c"), Str(order.cloid)>> /\ rest = 2
        BY <2>1 DEF OrderCloid
      <3> QED
        BY <3>4, <3>5
    <2>2. CASE order.cloid = Absent
      <3>1. c = <<>> /\ k + rest = k
        BY <2>2 DEF OrderCloid
      <3>2. Fills(<<>>, k, k)
        BY FillsNothing
      <3> QED
        BY <3>1, <3>2
    <2> QED
      BY <2>1, <2>2
  <1> HIDE DEF h, q, c, rest
  <1>5. Fills(q, (k + rest) + 2, k + rest)
    BY <1>1, <1>3
  <1>6. Fills(h \o q, k + 1, k + rest)
    BY <1>1, <1>2, <1>5, FillsBoth
  <1>7. Fills((h \o q) \o c, k + 1, k)
    BY <1>1, <1>4, <1>6, FillsBoth
  <1> QED
    BY <1>7, OrderParts DEF h, q, c

(* A request is one value. *)
LEMMA RequestFills ==
  ASSUME NEW a, IsParsed(a), NEW i \in 1..Len(RequestsOf(a)), NEW k \in Nat
  PROVE  Fills(RequestItems(a, i), k + 1, k)
  <1>1. a.type \in {"BULK_ORDER", "BULK_MODIFY", "BULK_CANCEL"}
    BY RequestBytes
  <1>2. CASE a.type = "BULK_ORDER"
    <2>1. a.body.orders[i] \in OrderRequests
      BY <1>2, RequestFields
    <2>2. RequestItems(a, i) = OrderItems(a.body.orders[i])
      BY <1>2 DEF RequestItems
    <2>3. Fills(OrderItems(a.body.orders[i]), k + 1, k)
      BY <2>1, OrderFills
    <2> QED
      BY <2>2, <2>3
  <1>3. CASE a.type = "BULK_MODIFY"
    <2> DEFINE modify == a.body.modifies[i]
               head == ModifyHead(modify)
               order == OrderItems(modify.order)
    <2>1. modify.order \in OrderRequests
      BY <1>3, RequestFields
    <2>2. RequestItems(a, i) = head \o order
      BY <1>3 DEF RequestItems, ModifyItems, ModifyHead
    <2>3. Fills(head, k + 1, k + 1)
      BY ModifyHeadFills
    <2>4. Fills(order, k + 1, k)
      BY <2>1, OrderFills
    <2> HIDE DEF head, order
    <2>5. Fills(head \o order, k + 1, k)
      <3>1. k + 1 \in Nat
        OBVIOUS
      <3> QED
        BY <2>3, <2>4, <3>1, FillsBoth
    <2> QED
      BY <2>2, <2>5
  <1>4. CASE a.type = "BULK_CANCEL"
    <2>1. RequestItems(a, i) = CancelItems(a.body.cancels[i])
      BY <1>4 DEF RequestItems
    <2>2. Fills(CancelItems(a.body.cancels[i]), k + 1, k)
      BY CancelFills
    <2> QED
      BY <2>1, <2>2
  <1> QED
    BY <1>1, <1>2, <1>3, <1>4

(* The header of a bulk action leaves the requests open, and what follows  *)
(* them in the map.                                                        *)
LEMMA BulkHeaderFills ==
  ASSUME NEW size \in {2, 3, 4}, NEW count \in Nat,
         NEW name, NEW width \in Nat, FixedItem(name, width),
         NEW list, NEW length \in Nat, FixedItem(list, length)
  PROVE  Fills(<<Map(size), Str("type"), Str(name), Str(list), Array(count)>>,
               1, count + (2 * size - 4))
  <1> DEFINE s == <<Map(size), Str("type"), Str(name), Str(list), Array(count)>>
             f == RunningSum(Needs(s))
  <1>1. HasLength(s, 5) /\ AreItems(s) /\ Len(s) = 5
    <2>1. size \in Nat
      OBVIOUS
    <2> QED
      BY <2>1, BulkHeaderItems
  <1>2. /\ s[1] = Map(size) /\ s[2] = Str("type") /\ s[3] = Str(name)
        /\ s[4] = Str(list) /\ s[5] = Array(count)
    OBVIOUS
  <1> HIDE DEF s
  <1>3. f[0] = 0 /\ \A i \in 1..5 : f[i] = f[i - 1] + (Announced(s[i]) - 1)
    <2>1. 5 \in Nat
      OBVIOUS
    <2> QED
      BY <1>1, <2>1, FewNeeds
  <1>4. Announced(s[1]) = 2 * size /\ Announced(s[5]) = count
    <2>1. size \in Nat /\ count \in Nat
      OBVIOUS
    <2>2. Announced(Map(size)) = 2 * size
      BY <2>1, MapItem
    <2>3. Announced(Array(count)) = count
      BY <2>1, ArrayItem
    <2> QED
      BY <1>2, <2>2, <2>3
  <1>5. Announced(s[2]) = 0 /\ Announced(s[3]) = 0 /\ Announced(s[4]) = 0
    BY <1>2, FixedItems DEF FixedItem
  <1> HIDE DEF f
  <1>6. /\ f[1] = 2 * size - 1 /\ f[2] = 2 * size - 2 /\ f[3] = 2 * size - 3
        /\ f[4] = 2 * size - 4 /\ f[5] = count + (2 * size - 5)
    BY <1>3, <1>4, <1>5
  <1>7. \A n \in 0..4 : 1 + f[n] > 0
    BY <1>3, <1>6
  <1>8. f[5] = (count + (2 * size - 4)) - 1
    BY <1>6
  <1> QED
    BY <1>1, <1>7, <1>8 DEF Fills, f, s

(* An update is one value. *)
LEMMA UpdateFills ==
  ASSUME NEW asset, NEW flag, NEW value,
         NEW name, NEW width \in Nat, FixedItem(name, width),
         NEW flagName, NEW flagWidth \in Nat, FixedItem(flagName, flagWidth),
         NEW valueName, NEW valueWidth \in Nat, FixedItem(valueName, valueWidth)
  PROVE  Fills(<<Map(4), Str("type"), Str(name), Str("asset"), Num(asset),
                 Str(flagName), Bool(flag), Str(valueName), Num(value)>>, 1, 0)
  <1> DEFINE s == <<Map(4), Str("type"), Str(name), Str("asset"), Num(asset),
                    Str(flagName), Bool(flag), Str(valueName), Num(value)>>
             f == RunningSum(Needs(s))
  <1>1. HasLength(s, 9) /\ AreItems(s) /\ Len(s) = 9
    BY UpdateItems
  <1>2. /\ s[1] = Map(4) /\ s[2] = Str("type") /\ s[3] = Str(name) /\ s[4] = Str("asset")
        /\ s[5] = Num(asset) /\ s[6] = Str(flagName) /\ s[7] = Bool(flag)
        /\ s[8] = Str(valueName) /\ s[9] = Num(value)
    OBVIOUS
  <1> HIDE DEF s
  <1>3. f[0] = 0 /\ \A i \in 1..9 : f[i] = f[i - 1] + (Announced(s[i]) - 1)
    BY <1>1, FewNeeds
  <1>4. /\ Announced(s[1]) = 8 /\ Announced(s[5]) = 0
        /\ Announced(s[7]) = 0 /\ Announced(s[9]) = 0
    BY <1>2, MapItem, NumItem, BoolItem
  <1>5. /\ Announced(s[2]) = 0 /\ Announced(s[3]) = 0 /\ Announced(s[4]) = 0
        /\ Announced(s[6]) = 0 /\ Announced(s[8]) = 0
    BY <1>2, FixedItems DEF FixedItem
  <1> HIDE DEF f
  <1>6. /\ f[1] = 7 /\ f[2] = 6 /\ f[3] = 5 /\ f[4] = 4 /\ f[5] = 3
        /\ f[6] = 2 /\ f[7] = 1 /\ f[8] = 0 /\ f[9] = -1
    BY <1>3, <1>4, <1>5
  <1>7. \A n \in 0..8 : 1 + f[n] > 0
    BY <1>3, <1>6
  <1> QED
    BY <1>1, <1>6, <1>7 DEF Fills, f, s

(* The items of the trailer that the header's map announces *)
TrailerCount(a) ==
    IF a.type # "BULK_ORDER" THEN 0 ELSE IF a.body.builder # Absent THEN 4 ELSE 2

(* The header leaves the requests and the trailer open (bulk_order.c:171,  *)
(* 185).                                                                   *)
LEMMA HeaderFills ==
  ASSUME NEW a, IsParsed(a), a.type \in SerializedTypes
  PROVE  Fills(HeaderItems(a), 1, Len(RequestsOf(a)) + TrailerCount(a))
  <1> DEFINE count == Len(RequestsOf(a))
             s == HeaderItems(a)
  <1>1. count \in Nat
    BY CountIsNat
  <1>2. CASE a.type = "BULK_ORDER"
    <2> DEFINE size == IF a.body.builder # Absent THEN 4 ELSE 3
    <2>1. size \in {2, 3, 4} /\ 2 * size - 4 = TrailerCount(a)
      BY <1>2 DEF TrailerCount
    <2>2. s = <<Map(size), Str("type"), Str("order"), Str("orders"), Array(count)>>
      BY <1>2 DEF HeaderItems
    <2> HIDE DEF size, s, count
    <2>3. FixedItem("order", 6) /\ FixedItem("orders", 7)
      BY FixedItems
    <2>4. Fills(s, 1, count + (2 * size - 4))
      BY <1>1, <2>1, <2>2, <2>3, BulkHeaderFills
    <2> QED
      BY <2>1, <2>4 DEF s, count
  <1>3. CASE a.type = "BULK_MODIFY"
    <2>1. s = <<Map(2), Str("type"), Str("batchModify"), Str("modifies"), Array(count)>>
      BY <1>3 DEF HeaderItems
    <2>2. TrailerCount(a) = 2 * 2 - 4
      BY <1>3 DEF TrailerCount
    <2> HIDE DEF s, count
    <2>3. FixedItem("batchModify", 12) /\ FixedItem("modifies", 9)
      BY FixedItems
    <2>4. Fills(s, 1, count + (2 * 2 - 4))
      BY <1>1, <2>1, <2>3, BulkHeaderFills
    <2> QED
      BY <2>2, <2>4 DEF s, count
  <1>4. CASE a.type = "BULK_CANCEL"
    <2>1. s = <<Map(2), Str("type"), Str("cancel"), Str("cancels"), Array(count)>>
      BY <1>4 DEF HeaderItems
    <2>2. TrailerCount(a) = 2 * 2 - 4
      BY <1>4 DEF TrailerCount
    <2> HIDE DEF s, count
    <2>3. FixedItem("cancel", 7) /\ FixedItem("cancels", 8)
      BY FixedItems
    <2>4. Fills(s, 1, count + (2 * 2 - 4))
      BY <1>1, <2>1, <2>3, BulkHeaderFills
    <2> QED
      BY <2>2, <2>4 DEF s, count
  <1>5. CASE a.type \in {"UPDATE_LEVERAGE", "UPDATE_ISOLATED_MARGIN"}
    <2>1. count = 0 /\ TrailerCount(a) = 0
      <3>1. RequestsOf(a) = <<>>
        BY <1>5 DEF RequestsOf
      <3> QED
        BY <1>5, <3>1 DEF TrailerCount
    <2>2. FixedItem("updateLeverage", 15) /\ FixedItem("isCross", 8) /\ FixedItem("leverage", 9)
          /\ FixedItem("updateIsolatedMargin", 21) /\ FixedItem("isBuy", 6)
          /\ FixedItem("ntli", 5)
      BY FixedItems
    <2>3. ASSUME a.type = "UPDATE_LEVERAGE" PROVE Fills(s, 1, 0)
      <3>1. s = <<Map(4), Str("type"), Str("updateLeverage"), Str("asset"), Num(a.body.asset),
                  Str("isCross"), Bool(a.body.is_cross), Str("leverage"), Num(a.body.leverage)>>
        BY <2>3 DEF HeaderItems
      <3> HIDE DEF s
      <3> QED
        BY <2>2, <3>1, UpdateFills
    <2>4. ASSUME a.type = "UPDATE_ISOLATED_MARGIN" PROVE Fills(s, 1, 0)
      <3>1. s = <<Map(4), Str("type"), Str("updateIsolatedMargin"), Str("asset"),
                  Num(a.body.asset), Str("isBuy"), Bool(a.body.is_buy),
                  Str("ntli"), Num(a.body.ntli)>>
        BY <2>4 DEF HeaderItems
      <3> HIDE DEF s
      <3> QED
        BY <2>2, <3>1, UpdateFills
    <2> HIDE DEF s, count
    <2>5. Fills(s, 1, 0)
      BY <1>5, <2>3, <2>4
    <2>6. count + TrailerCount(a) = 0
      BY <2>1
    <2> QED
      BY <2>5, <2>6 DEF s, count
  <1> QED
    BY <1>2, <1>3, <1>4, <1>5 DEF SerializedTypes

(* The trailer is what the map of the header still announces. *)
LEMMA TrailerFills ==
  ASSUME NEW a, IsParsed(a)
  PROVE  Fills(TrailerItems(a), TrailerCount(a), 0)
  <1>1. CASE a.type = "BULK_ORDER"
    <2>1. /\ a.body.grouping \in {"na", "normalTpsl", "positionTpsl"}
          /\ a.body.builder \in [builder : Addresses, fee : Nat] \cup {Absent}
      BY <1>1 DEF IsParsed, BulkOrders
    <2> DEFINE rest == IF a.body.builder # Absent THEN 2 ELSE 0
    <2>2. rest \in Nat /\ rest + 2 \in Nat /\ rest + 2 = TrailerCount(a)
      BY <1>1 DEF TrailerCount
    <2>3. IsItem(Str("grouping")) /\ Announced(Str("grouping")) = 0
      BY FixedItems DEF FixedItem
    <2>4. IsItem(Str(a.body.grouping)) /\ Announced(Str(a.body.grouping)) = 0
      BY <2>1, FixedItems DEF FixedItem
    <2>5. Fills(TrailerHead(a), rest + 2, rest)
      BY <2>2, <2>3, <2>4, PairFills DEF TrailerHead
    <2>6. Fills(BuilderTail(a), rest, 0)
      <3>1. CASE a.body.builder # Absent
        <4>1. a.body.builder \in [builder : Addresses, fee : Nat]
          BY <2>1, <3>1
        <4>2. Fills(BuilderItems(a.body.builder), 0 + 2, 0)
          BY <4>1, BuilderFills
        <4>3. BuilderTail(a) = BuilderItems(a.body.builder) /\ rest = 0 + 2
          BY <3>1 DEF BuilderTail
        <4> QED
          BY <4>2, <4>3
      <3>2. CASE a.body.builder = Absent
        <4>1. BuilderTail(a) = <<>> /\ rest = 0
          BY <3>2 DEF BuilderTail
        <4>2. Fills(<<>>, 0, 0)
          BY FillsNothing
        <4> QED
          BY <4>1, <4>2
      <3> QED
        BY <3>1, <3>2
    <2> HIDE DEF rest
    <2>7. Fills(TrailerHead(a) \o BuilderTail(a), rest + 2, 0)
      <3>1. 0 \in Nat
        OBVIOUS
      <3> QED
        BY <2>2, <2>5, <2>6, <3>1, FillsBoth
    <2>8. TrailerItems(a) = TrailerHead(a) \o BuilderTail(a)
      BY <1>1, TrailerBytes
    <2> QED
      BY <2>2, <2>7, <2>8
  <1>2. CASE a.type # "BULK_ORDER"
    <2>1. TrailerItems(a) = <<>> /\ TrailerCount(a) = 0
      BY <1>2 DEF TrailerItems, TrailerCount
    <2>2. Fills(<<>>, 0, 0)
      BY FillsNothing
    <2> QED
      BY <2>1, <2>2
  <1> QED
    BY <1>1, <1>2

(* After some requests, the others and the trailer are needed. *)
LEMMA ThroughFills ==
  ASSUME NEW a, IsParsed(a), a.type \in SerializedTypes
  PROVE  \A n \in 0..Len(RequestsOf(a)) :
             Fills(ItemsThrough(a, n), 1, (Len(RequestsOf(a)) - n) + TrailerCount(a))
  <1> DEFINE last == Len(RequestsOf(a))
             left(n) == (last - n) + TrailerCount(a)
             U == {n \in 0..last : Fills(ItemsThrough(a, n), 1, left(n))}
  <1>1. /\ last \in Nat
        /\ ItemsThrough(a, 0) = HeaderItems(a)
        /\ \A n \in 1..last : ItemsThrough(a, n) = ItemsThrough(a, n - 1) \o RequestItems(a, n)
    BY ThroughBytes
  <1>2. TrailerCount(a) \in Nat
    BY DEF TrailerCount
  <1>3. Fills(HeaderItems(a), 1, last + TrailerCount(a))
    BY HeaderFills
  <1>4. \A n \in 1..last : \A k \in Nat : Fills(RequestItems(a, n), k + 1, k)
    BY RequestFills
  <1> HIDE DEF last
  <1>5. \A n \in 0..last : left(n) \in Nat
    BY <1>1, <1>2
  <1>6. 0 \in U
    <2>1. left(0) = last + TrailerCount(a)
      BY <1>1, <1>2
    <2> QED
      BY <1>1, <1>3, <2>1
  <1>7. ASSUME NEW n \in 0..last, n \in U, n # last PROVE n + 1 \in U
    <2>1. n + 1 \in 1..last /\ n + 1 \in 0..last /\ (n + 1) - 1 = n
      BY <1>1, <1>7
    <2>2. left(n) = left(n + 1) + 1
      BY <1>1, <1>2, <2>1
    <2>3. left(n + 1) \in Nat /\ left(n + 1) + 1 \in Nat
      BY <1>5, <2>1
    <2>4. ItemsThrough(a, n + 1) = ItemsThrough(a, n) \o RequestItems(a, n + 1)
      BY <1>1, <2>1
    <2>5. Fills(ItemsThrough(a, n), 1, left(n))
      BY <1>7
    <2> HIDE DEF left
    <2>6. Fills(ItemsThrough(a, n), 1, left(n + 1) + 1)
      BY <2>2, <2>5
    <2>7. Fills(RequestItems(a, n + 1), left(n + 1) + 1, left(n + 1))
      BY <1>4, <2>1, <2>3
    <2>8. Fills(ItemsThrough(a, n) \o RequestItems(a, n + 1), 1, left(n + 1))
      <3>1. 1 \in Nat
        OBVIOUS
      <3> QED
        BY <2>3, <2>6, <2>7, <3>1, FillsBoth
    <2> QED
      BY <2>1, <2>4, <2>8
  <1> HIDE DEF U
  <1>8. \A n \in 0..last : n \in U
    BY <1>1, <1>6, <1>7, CountingUp
  <1> QED
    BY <1>8 DEF U, last

(* An action is one value. *)
LEMMA ActionFills ==
  ASSUME NEW a, IsParsed(a), a.type \in SerializedTypes
  PROVE  Fills(ActionItems(a), 1, 0)
  <1> DEFINE last == Len(RequestsOf(a))
  <1>1. last \in Nat
    BY CountIsNat
  <1>2. TrailerCount(a) \in Nat
    BY DEF TrailerCount
  <1>3. Fills(ItemsThrough(a, last), 1, TrailerCount(a))
    <2>1. last \in 0..last /\ (last - last) + TrailerCount(a) = TrailerCount(a)
      BY <1>1, <1>2
    <2>2. Fills(ItemsThrough(a, last), 1, (last - last) + TrailerCount(a))
      BY <2>1, ThroughFills
    <2> QED
      BY <2>1, <2>2
  <1>4. Fills(TrailerItems(a), TrailerCount(a), 0)
    BY TrailerFills
  <1> HIDE DEF last
  <1>5. Fills(ItemsThrough(a, last) \o TrailerItems(a), 1, 0)
    <2>1. 1 \in Nat /\ 0 \in Nat
      OBVIOUS
    <2> QED
      BY <1>2, <1>3, <1>4, <2>1, FillsBoth
  <1> QED
    BY <1>5 DEF ActionItems, last

(* While one value is being filled, more is needed. *)
LEMMA OneValueBegun ==
  ASSUME NEW after, Fills(out, 1, after)
  PROVE  \A n \in 0..(Len(out) - 1) : ItemsNeeded(out, n) > 0
  BY DEF Fills, ItemsNeeded

(* When one value is filled, nothing is needed. *)
LEMMA OneValueEnded ==
  ASSUME Fills(out, 1, 0)
  PROVE  ItemsNeeded(out, Len(out)) = 0
  BY DEF Fills, ItemsNeeded

(* The invariant of the buffer gives the value. *)
LEMMA WrittenIsOneValue == WrittenInv => OneValue
  <1> SUFFICES ASSUME WrittenInv PROVE OneValue
    OBVIOUS
  <1>1. IsParsed(approved) /\ (stage # "unused" => approved.type \in SerializedTypes)
    BY DEF WrittenInv
  <1>2. CASE out = <<>> /\ stage # "hash"
    <2>1. 0..(Len(out) - 1) = {}
      BY <1>2
    <2> QED
      BY <1>2, <2>1 DEF OneValue
  <1>3. CASE /\ stage \in {"requests", "refused"}
             /\ written \in 0..Len(RequestsOf(approved))
             /\ out = ItemsThrough(approved, written)
    <2>1. Fills(out, 1, (Len(RequestsOf(approved)) - written) + TrailerCount(approved))
      BY <1>1, <1>3, ThroughFills
    <2>2. \A n \in 0..(Len(out) - 1) : ItemsNeeded(out, n) > 0
      BY <2>1, OneValueBegun
    <2> QED
      BY <1>3, <2>2 DEF OneValue
  <1>4. CASE stage = "hash"
    <2>1. Fills(out, 1, 0)
      BY <1>1, <1>4, ActionFills DEF WrittenInv
    <2> QED
      BY <1>4, <2>1, OneValueBegun, OneValueEnded DEF OneValue
  <1>5. CASE stage = "done"
    BY <1>5 DEF OneValue
  <1> QED
    BY <1>2, <1>3, <1>4, <1>5 DEF WrittenInv

(* The buffer that is hashed holds one MessagePack value and nothing more: *)
(* every map and array announces as many items as follow                   *)
(* (order_request.c:335, bulk_order.c:171, 185).                           *)
THEOREM OneValueAlways == Spec => []OneValue
  BY WrittenAlways, WrittenIsOneValue, PTL
=============================================================================
