------------------------- MODULE ScreenTextsProofs -------------------------
(***************************************************************************)
(* Proofs about ScreenTexts: for every batch a session can gather, the     *)
(* pairs fit their array, no two of them share a buffer, and every text    *)
(* fits the buffer it is written to.                                       *)
(***************************************************************************)
EXTENDS ScreenTexts, HlReviewProofs

-----------------------------------------------------------------------------
(* The actions of a reviewable batch *)

LEMMA ReviewableAction ==
    ASSUME NEW b, IsReviewable(b), NEW type, CtxHasAction(b.actions, type)
    PROVE  LET action == CtxGetAction(b.actions, type)
           IN  /\ action.type = type
               /\ ParseBody(action, b.metadata)
               /\ HasTexts(action)
<1> DEFINE list  == b.actions
           found == {i \in DOMAIN list : list[i].type = type}
<1>1. /\ Len(list) \in Nat /\ DOMAIN list = 1..Len(list)
      /\ \A i \in 1..Len(list) : list[i] \in Range(list)
      /\ \A i, j \in 1..Len(list) : list[i].type = list[j].type => i = j
      /\ \A action \in Range(list) : ParseBody(action, b.metadata) /\ HasTexts(action)
  BY ListProperties DEF IsReviewable
<1> HIDE DEF list
<1>2. PICK i \in 1..Len(list) : list[i].type = type
  BY <1>1 DEF CtxHasAction, list
<1>3. found = {i}
  BY <1>1, <1>2
<1>4. (CHOOSE k \in found : \A j \in found : k <= j) = i
  BY <1>2, <1>3
<1>5. CtxGetAction(list, type) = list[i]
  BY <1>4 DEF CtxGetAction
<1> QED
  BY <1>1, <1>2, <1>5 DEF list

(* The orders of a cancellation are at most those a bulk may hold (op_cancel.c:20-30). *)
LEMMA ReviewableCancels ==
    ASSUME NEW b, IsReviewable(b), UiCancelAccepts(b.metadata, b.actions)
    PROVE  /\ IsList(CancelsOf(b.actions))
           /\ Len(CancelsOf(b.actions)) = CancelCount(b.metadata.op_type)
           /\ CancelCount(b.metadata.op_type) \in 1..BulkMaxSize
           /\ \A i \in 1..Len(CancelsOf(b.actions)) : IsUint64(CancelsOf(b.actions)[i].oid)
<1> DEFINE action == CtxGetAction(b.actions, "BULK_CANCEL")
<1>1. /\ CtxHasAction(b.actions, "BULK_CANCEL")
      /\ Len(action.body.cancels) = CancelCount(b.metadata.op_type)
  BY DEF UiCancelAccepts, CancelsOf
<1>2. action.type = "BULK_CANCEL" /\ ParseBody(action, b.metadata) /\ HasTexts(action)
  BY <1>1, ReviewableAction
<1> HIDE DEF action
<1>3. /\ IsList(action.body.cancels)
      /\ \A cancel \in Range(action.body.cancels) : IsUint64(cancel.oid)
      /\ Len(action.body.cancels) \in 1..BulkMaxSize
  BY <1>2 DEF HasTexts, ParseBody, ParseBulkCancel, BulkSizeFits
<1>4. \A i \in 1..Len(action.body.cancels) : IsUint64(action.body.cancels[i].oid)
  BY <1>3, ListProperties
<1> QED
  BY <1>1, <1>3, <1>4 DEF CancelsOf, action

-----------------------------------------------------------------------------
(* How many pairs there are *)

TextItems == {"Operation", "Active Position", "Position to close", "Margin", "New Margin",
              "Limit Price", "Leverage", "Take Profit", "Stop Loss", "TP Order ID",
              "SL Order ID", "Size", "Order ID"}

AllItems == TextItems \cup {"Protocol", "Network"}

(* The most pairs of each flow that have one of some items: each pair is   *)
(* there at most once, but for the orders of a cancellation.               *)
MostOfOrder(items) ==
    One("Operation", items) + One("Limit Price", items) + One("Margin", items)
    + One("Leverage", items) + One("Take Profit", items) + One("Stop Loss", items)
    + One("Size", items)

MostOfModify(items) ==
    One("Active Position", items) + One("Margin", items) + One("Leverage", items)
    + One("Size", items) + One("Take Profit", items) + One("TP Order ID", items)
    + One("Stop Loss", items) + One("SL Order ID", items)

MostOfClose(items) ==
    One("Position to close", items) + One("Margin", items) + One("Leverage", items)
    + One("Size", items)

MostOfUpdateMargin(items) ==
    One("Active Position", items) + One("New Margin", items) + One("Leverage", items)

MostOfCancel(op_type, items) ==
    One("Operation", items) + One("Margin", items) + One("Leverage", items)
    + (IF "Order ID" \in items THEN CancelCount(op_type) ELSE 0)

Most(op_type, items) ==
    One("Protocol", items) + One("Network", items)
    + (CASE op_type = "ORDER"         -> MostOfOrder(items)
         [] op_type = "MODIFY"        -> MostOfModify(items)
         [] op_type = "CLOSE"         -> MostOfClose(items)
         [] op_type = "UPDATE_MARGIN" -> MostOfUpdateMargin(items)
         [] OTHER                     -> MostOfCancel(op_type, items))

(* A pair counts once or not at all. *)
LEMMA OneIs == ASSUME NEW item, NEW items PROVE One(item, items) \in {0, 1}
BY DEF One

(* ui_order shows each pair at most once (op_order.c:8-135). *)
LEMMA OrderCount ==
    ASSUME NEW metadata, NEW actions, NEW items
    PROVE  /\ IsList(UiOrder(metadata, actions).pairs)
           /\ MostOfOrder(items) \in Nat
           /\ Count(UiOrder(metadata, actions).pairs, items) <= MostOfOrder(items)
<1> DEFINE n == Count(UiOrder(metadata, actions).pairs, items)
           c2 == ~(LET orders == OrdersOf(actions)
                   IN  FirstOf(orders, LimitsIn(orders)).limit.tif = "IOC")
           c3 == metadata.has_margin
           c4 == CtxHasAction(actions, "UPDATE_LEVERAGE")
           c5 == TpsIn(OrdersOf(actions)) # {}
           c6 == SlsIn(OrdersOf(actions)) # {}
           m1 == One("Operation", items)
           m2 == One("Limit Price", items)
           m3 == One("Margin", items)
           m4 == One("Leverage", items)
           m5 == One("Take Profit", items)
           m6 == One("Stop Loss", items)
           m7 == One("Size", items)
           n2 == IF c2 THEN m2 ELSE 0
           n3 == IF c3 THEN m3 ELSE 0
           n4 == IF c4 THEN m4 ELSE 0
           n5 == IF c5 THEN m5 ELSE 0
           n6 == IF c6 THEN m6 ELSE 0
<1>1. IsList(UiOrder(metadata, actions).pairs)
  BY OrderPairs
<1>2. n = m1 + n2 + n3 + n4 + n5 + n6 + m7
  <2>1. n = OrderTally(metadata, actions, items)
    BY OrderPairs
  <2> QED
    BY <2>1, Zenon DEF OrderTally
<1>3. /\ m1 \in {0, 1}
      /\ m2 \in {0, 1}
      /\ m3 \in {0, 1}
      /\ m4 \in {0, 1}
      /\ m5 \in {0, 1}
      /\ m6 \in {0, 1}
      /\ m7 \in {0, 1}
  BY OneIs
<1> HIDE DEF n, c2, c3, c4, c5, c6, m1, m2, m3, m4, m5, m6, m7
<1>4. /\ n2 \in {0, 1} /\ n2 <= m2
      /\ n3 \in {0, 1} /\ n3 <= m3
      /\ n4 \in {0, 1} /\ n4 <= m4
      /\ n5 \in {0, 1} /\ n5 <= m5
      /\ n6 \in {0, 1} /\ n6 <= m6
  BY <1>3
<1> HIDE DEF n2, n3, n4, n5, n6
<1>5. /\ m1 + m2 + m3 + m4 + m5 + m6 + m7 \in Nat
      /\ n <= m1 + m2 + m3 + m4 + m5 + m6 + m7
  BY <1>2, <1>3, <1>4
<1>6. MostOfOrder(items) = m1 + m2 + m3 + m4 + m5 + m6 + m7
  BY DEF MostOfOrder, m1, m2, m3, m4, m5, m6, m7
<1> QED
  BY <1>1, <1>5, <1>6 DEF n

(* ui_modify shows each pair at most once (op_modify.c:129-237). *)
LEMMA ModifyCount ==
    ASSUME NEW metadata, NEW actions, NEW items
    PROVE  /\ IsList(UiModify(metadata, actions).pairs)
           /\ MostOfModify(items) \in Nat
           /\ Count(UiModify(metadata, actions).pairs, items) <= MostOfModify(items)
<1> DEFINE n == Count(UiModify(metadata, actions).pairs, items)
           c2 == metadata.has_margin
           c3 == metadata.has_leverage
           c5 == TpsIn(OrdersIn(ModifyRequests(actions))) # {}
           c6 == /\ TpsIn(OrdersIn(ModifyRequests(actions))) # {}
                 /\ CtxHasAction(actions, "BULK_MODIFY")
           c7 == SlsIn(OrdersIn(ModifyRequests(actions))) # {}
           c8 == /\ SlsIn(OrdersIn(ModifyRequests(actions))) # {}
                 /\ CtxHasAction(actions, "BULK_MODIFY")
           m1 == One("Active Position", items)
           m2 == One("Margin", items)
           m3 == One("Leverage", items)
           m4 == One("Size", items)
           m5 == One("Take Profit", items)
           m6 == One("TP Order ID", items)
           m7 == One("Stop Loss", items)
           m8 == One("SL Order ID", items)
           n2 == IF c2 THEN m2 ELSE 0
           n3 == IF c3 THEN m3 ELSE 0
           n5 == IF c5 THEN m5 ELSE 0
           n6 == IF c6 THEN m6 ELSE 0
           n7 == IF c7 THEN m7 ELSE 0
           n8 == IF c8 THEN m8 ELSE 0
<1>1. IsList(UiModify(metadata, actions).pairs)
  BY ModifyPairs
<1>2. n = m1 + n2 + n3 + m4 + n5 + n6 + n7 + n8
  <2>1. n = ModifyTally(metadata, actions, items)
    BY ModifyPairs
  <2> QED
    BY <2>1, Zenon DEF ModifyTally
<1>3. /\ m1 \in {0, 1}
      /\ m2 \in {0, 1}
      /\ m3 \in {0, 1}
      /\ m4 \in {0, 1}
      /\ m5 \in {0, 1}
      /\ m6 \in {0, 1}
      /\ m7 \in {0, 1}
      /\ m8 \in {0, 1}
  BY OneIs
<1> HIDE DEF n, c2, c3, c5, c6, c7, c8, m1, m2, m3, m4, m5, m6, m7, m8
<1>4. /\ n2 \in {0, 1} /\ n2 <= m2
      /\ n3 \in {0, 1} /\ n3 <= m3
      /\ n5 \in {0, 1} /\ n5 <= m5
      /\ n6 \in {0, 1} /\ n6 <= m6
      /\ n7 \in {0, 1} /\ n7 <= m7
      /\ n8 \in {0, 1} /\ n8 <= m8
  BY <1>3
<1> HIDE DEF n2, n3, n5, n6, n7, n8
<1>5. /\ m1 + m2 + m3 + m4 + m5 + m6 + m7 + m8 \in Nat
      /\ n <= m1 + m2 + m3 + m4 + m5 + m6 + m7 + m8
  BY <1>2, <1>3, <1>4
<1>6. MostOfModify(items) = m1 + m2 + m3 + m4 + m5 + m6 + m7 + m8
  BY DEF MostOfModify, m1, m2, m3, m4, m5, m6, m7, m8
<1> QED
  BY <1>1, <1>5, <1>6 DEF n

(* ui_close shows each pair at most once (op_close.c:29-66). *)
LEMMA CloseCount ==
    ASSUME NEW metadata, NEW actions, NEW items
    PROVE  /\ IsList(UiClose(metadata, actions).pairs)
           /\ MostOfClose(items) \in Nat
           /\ Count(UiClose(metadata, actions).pairs, items) <= MostOfClose(items)
<1> DEFINE n == Count(UiClose(metadata, actions).pairs, items)
           c2 == metadata.has_margin
           c3 == metadata.has_leverage
           m1 == One("Position to close", items)
           m2 == One("Margin", items)
           m3 == One("Leverage", items)
           m4 == One("Size", items)
           n2 == IF c2 THEN m2 ELSE 0
           n3 == IF c3 THEN m3 ELSE 0
<1>1. IsList(UiClose(metadata, actions).pairs)
  BY ClosePairs
<1>2. n = m1 + n2 + n3 + m4
  BY ClosePairs
<1>3. /\ m1 \in {0, 1}
      /\ m2 \in {0, 1}
      /\ m3 \in {0, 1}
      /\ m4 \in {0, 1}
  BY OneIs
<1> HIDE DEF n, c2, c3, m1, m2, m3, m4
<1>4. /\ n2 \in {0, 1} /\ n2 <= m2
      /\ n3 \in {0, 1} /\ n3 <= m3
  BY <1>3
<1> HIDE DEF n2, n3
<1>5. /\ m1 + m2 + m3 + m4 \in Nat
      /\ n <= m1 + m2 + m3 + m4
  BY <1>2, <1>3, <1>4
<1>6. MostOfClose(items) = m1 + m2 + m3 + m4
  BY DEF MostOfClose, m1, m2, m3, m4
<1> QED
  BY <1>1, <1>5, <1>6 DEF n

(* ui_update_margin shows each pair at most once (op_update_margin.c:18-66). *)
LEMMA UpdateMarginCount ==
    ASSUME NEW metadata, NEW actions, NEW items
    PROVE  /\ IsList(UiUpdateMargin(metadata, actions).pairs)
           /\ MostOfUpdateMargin(items) \in Nat
           /\ Count(UiUpdateMargin(metadata, actions).pairs, items) <= MostOfUpdateMargin(items)
<1> DEFINE n == Count(UiUpdateMargin(metadata, actions).pairs, items)
           c3 == metadata.has_leverage
           m1 == One("Active Position", items)
           m2 == One("New Margin", items)
           m3 == One("Leverage", items)
           n3 == IF c3 THEN m3 ELSE 0
<1>1. IsList(UiUpdateMargin(metadata, actions).pairs)
  BY UpdateMarginPairs
<1>2. n = m1 + m2 + n3
  BY UpdateMarginPairs
<1>3. /\ m1 \in {0, 1}
      /\ m2 \in {0, 1}
      /\ m3 \in {0, 1}
  BY OneIs
<1> HIDE DEF n, c3, m1, m2, m3
<1>4. /\ n3 \in {0, 1} /\ n3 <= m3
  BY <1>3
<1> HIDE DEF n3
<1>5. /\ m1 + m2 + m3 \in Nat
      /\ n <= m1 + m2 + m3
  BY <1>2, <1>3, <1>4
<1>6. MostOfUpdateMargin(items) = m1 + m2 + m3
  BY DEF MostOfUpdateMargin, m1, m2, m3
<1> QED
  BY <1>1, <1>5, <1>6 DEF n

(* A cancellation has one more pair for each of its orders (op_cancel.c:9-134). *)
LEMMA CancelCounted ==
    ASSUME NEW metadata, NEW actions, NEW items,
           IsList(CancelsOf(actions)),
           Len(CancelsOf(actions)) = CancelCount(metadata.op_type)
    PROVE  /\ IsList(UiCancel(metadata, actions).pairs)
           /\ MostOfCancel(metadata.op_type, items) \in Nat
           /\ Count(UiCancel(metadata, actions).pairs, items)
                  <= MostOfCancel(metadata.op_type, items)
<1> DEFINE n == Count(UiCancel(metadata, actions).pairs, items)
           head == Headed(metadata, <<"Operation", metadata.op_type, metadata.ticker>>)
           oids == ShowCancelOids(actions)
           count == CancelCount(metadata.op_type)
           c2 == metadata.has_margin
           c3 == metadata.has_leverage
           m1 == One("Operation", items)
           m2 == One("Margin", items)
           m3 == One("Leverage", items)
           m4 == IF "Order ID" \in items THEN count ELSE 0
           n2 == IF c2 THEN m2 ELSE 0
           n3 == IF c3 THEN m3 ELSE 0
<1>1. /\ UiCancel(metadata, actions).pairs = head \o oids
      /\ IsList(head \o oids)
      /\ Count(head \o oids, items) = Count(head, items) + Count(oids, items)
  BY CancelPairs
<1>2. Count(oids, items) = m4
  BY CancelOids
<1>3. Count(head, items) = m1 + n2 + n3
  <2>1. <<"Operation", metadata.op_type, metadata.ticker>>[1] = "Operation"
    OBVIOUS
  <2> QED
    BY <2>1, HeadedPairs
<1>4. /\ m1 \in {0, 1} /\ m2 \in {0, 1} /\ m3 \in {0, 1}
  BY OneIs
<1>5. m4 \in Nat
  BY DEF CancelCount
<1>6. n = Count(head, items) + Count(oids, items)
  BY <1>1
<1> HIDE DEF n, head, oids, c2, c3, m1, m2, m3, m4
<1>7. n2 \in {0, 1} /\ n2 <= m2 /\ n3 \in {0, 1} /\ n3 <= m3
  BY <1>4
<1> HIDE DEF n2, n3
<1>8. m1 + m2 + m3 + m4 \in Nat /\ n <= m1 + m2 + m3 + m4
  BY <1>2, <1>3, <1>4, <1>5, <1>6, <1>7
<1>9. MostOfCancel(metadata.op_type, items) = m1 + m2 + m3 + m4
  BY DEF MostOfCancel, m1, m2, m3, m4
<1> QED
  BY <1>1, <1>8, <1>9 DEF n

(* Any screen, with the pairs of handle_ui (operation.c:54-92). *)
LEMMA ScreenCount ==
    ASSUME NEW b, IsReviewable(b), UiAccepts(b.metadata, b.actions), NEW items
    PROVE  LET list == Screen(b.metadata, b.actions).pairs
           IN  /\ IsList(list)
               /\ Count(list, items) <= Most(b.metadata.op_type, items)
<1> DEFINE op   == b.metadata.op_type
           list == Screen(b.metadata, b.actions).pairs
           flow == Flow(b.metadata, b.actions).pairs
           top  == Top(b.metadata)
           p1   == One("Protocol", items)
           p2   == One("Network", items)
           most == CASE op = "ORDER"         -> MostOfOrder(items)
                     [] op = "MODIFY"        -> MostOfModify(items)
                     [] op = "CLOSE"         -> MostOfClose(items)
                     [] op = "UPDATE_MARGIN" -> MostOfUpdateMargin(items)
                     [] OTHER                -> MostOfCancel(op, items)
<1>1. IsList(flow) /\ most \in Nat /\ Count(flow, items) <= most
  <2>1. CASE op = "ORDER"
    BY <2>1, OrderCount DEF Flow
  <2>2. CASE op = "MODIFY"
    BY <2>2, ModifyCount DEF Flow
  <2>3. CASE op = "CLOSE"
    BY <2>3, CloseCount DEF Flow
  <2>4. CASE op = "UPDATE_MARGIN"
    BY <2>4, UpdateMarginCount DEF Flow
  <2>5. CASE op \notin {"ORDER", "MODIFY", "CLOSE", "UPDATE_MARGIN"}
    <3>1. /\ Flow(b.metadata, b.actions) = UiCancel(b.metadata, b.actions)
          /\ most = MostOfCancel(op, items)
          /\ UiCancelAccepts(b.metadata, b.actions)
      BY <2>5 DEF Flow, UiAccepts
    <3>2. IsList(CancelsOf(b.actions)) /\ Len(CancelsOf(b.actions)) = CancelCount(op)
      BY <3>1, ReviewableCancels
    <3> HIDE DEF most
    <3> QED
      BY <3>1, <3>2, CancelCounted
  <2> QED
    BY <2>1, <2>2, <2>3, <2>4, <2>5
<1>2. Most(op, items) = p1 + p2 + most
  BY DEF Most
<1>3. p1 \in {0, 1} /\ p2 \in {0, 1}
  BY OneIs
<1>4. Count(top, items) \in {p1, p1 + p2}
  <2>1. Count(top, items) = p1 + (IF b.metadata.network = "TESTNET" THEN p2 ELSE 0)
    BY TopPairs
  <2> QED
    BY <1>3, <2>1
<1>5. IsList(list) /\ Count(list, items) = Count(top, items) + Count(flow, items)
  BY <1>1, ScreenPairs
<1>6. Count(flow, items) \in Nat
  BY <1>1, UnderFinite
<1> HIDE DEF op, list, flow, top, p1, p2, most
<1>7. Count(list, items) <= Most(op, items)
  BY <1>1, <1>2, <1>3, <1>4, <1>5, <1>6
<1> QED
  BY <1>5, <1>7 DEF list, op

-----------------------------------------------------------------------------
(* Each text fits its buffer *)

Reviewed == IsReviewable(batch) /\ UiAccepts(batch.metadata, batch.actions)

(* What the buffer of an item can hold *)
Room(item) == BufferSize(batch.metadata.op_type, BufferOf(item, 1)) - 1

(* A pair has a buffer, and its text has room in it. *)
Fits(pair) ==
    /\ pair[1] \in TextItems
    /\ PairLength(pair) \in Nat
    /\ PairLength(pair) <= Room(pair[1])

(* The buffer of each item, and its size *)
LEMMA Buffers ==
    ASSUME NEW position
    PROVE  /\ BufferOf("Operation", position) = <<"operation">>
           /\ BufferOf("Active Position", position) = <<"operation">>
           /\ BufferOf("Position to close", position) = <<"operation">>
           /\ BufferOf("Margin", position) = <<"margin">>
           /\ BufferOf("New Margin", position) = <<"margin">>
           /\ BufferOf("Limit Price", position) = <<"limit_price">>
           /\ BufferOf("Leverage", position) = <<"leverage">>
           /\ BufferOf("Take Profit", position) = <<"tp_price">>
           /\ BufferOf("Stop Loss", position) = <<"sl_price">>
           /\ BufferOf("TP Order ID", position) = <<"tp_oid">>
           /\ BufferOf("SL Order ID", position) = <<"sl_oid">>
           /\ BufferOf("Size", position) = <<"size">>
           /\ BufferOf("Order ID", position) = <<"oid", position>>
BY DEF BufferOf

(* The arrays of ui_context.h, without the byte that ends a text. *)
LEMMA Rooms ==
    /\ Room("Margin") = 70
    /\ Room("New Margin") = 70
    /\ Room("Limit Price") = 70
    /\ Room("Leverage") = 11
    /\ Room("Take Profit") = 70
    /\ Room("Stop Loss") = 70
    /\ Room("TP Order ID") = 20
    /\ Room("SL Order ID") = 20
    /\ Room("Size") = 70
    /\ Room("Order ID") = 20
BY DEF Room, BufferOf, BufferSize, PRICE_STRING_LENGTH, NUMERIC_STRING_LENGTH, ASSET_TICKER_LENGTH,
       UINT32_STRING_LENGTH

(* The room of the operation depends on the flow. *)
LEMMA OperationRooms ==
    /\ batch.metadata.op_type = "ORDER" => Room("Operation") = 63
    /\ batch.metadata.op_type = "MODIFY" => Room("Active Position") = 63
    /\ batch.metadata.op_type = "CLOSE" => Room("Position to close") = 56
    /\ batch.metadata.op_type = "UPDATE_MARGIN" => Room("Active Position") = 56
    /\ batch.metadata.op_type \notin {"ORDER", "MODIFY", "CLOSE", "UPDATE_MARGIN"}
           => Room("Operation") = 89
<1> DEFINE op     == batch.metadata.op_type
           size   == OperationSize(op)
           first  == Room("Operation")
           active == Room("Active Position")
           closed == Room("Position to close")
<1>1. first = size - 1 /\ active = size - 1 /\ closed = size - 1
  BY DEF Room, BufferOf, BufferSize
<1>2. /\ op \in {"ORDER", "MODIFY"} => size = 64
      /\ op \in {"CLOSE", "UPDATE_MARGIN"} => size = 57
      /\ op \notin {"ORDER", "MODIFY", "CLOSE", "UPDATE_MARGIN"} => size = 90
  BY DEF OperationSize, ASSET_TICKER_LENGTH
<1> HIDE DEF op, size, first, active, closed
<1>3. /\ size = 64 => first = 63 /\ active = 63
      /\ size = 57 => active = 56 /\ closed = 56
      /\ size = 90 => first = 89
  BY <1>1
<1> QED
  BY <1>2, <1>3 DEF op, first, active, closed

(* The buffers of the intent and of the two messages *)
LEMMA MessageSizes ==
    ASSUME NEW op
    PROVE  /\ BufferSize(op, <<"intent">>) = 101
           /\ BufferSize(op, <<"review_msg">>) = 129 /\ BufferSize(op, <<"sign_msg">>) = 129
BY DEF BufferSize

(* A pair whose item has a buffer with enough room *)
LEMMA FitsIn ==
    ASSUME NEW pair, NEW item, pair[1] = item, item \in TextItems,
           NEW length \in Nat, PairLength(pair) = length, length <= Room(item)
    PROVE  Fits(pair)
BY DEF Fits

(* A price and the counter value ticker *)
LEMMA PricedFits ==
    ASSUME NEW px, IsNumericText(px), NEW edits
    PROVE  /\ Fits(<<"Limit Price", px>>)
           /\ Fits(<<"Take Profit", px>>) /\ Fits(<<"Stop Loss", px>>)
           /\ Fits(<<"Take Profit", edits, px>>) /\ Fits(<<"Stop Loss", edits, px>>)
<1> DEFINE length == Priced(TextLength(px))
<1>1. length \in Nat /\ length <= 70
  <2>1. TextLength(px) \in Nat /\ TextLength(px) <= 21
    BY DEF IsNumericText, NUMERIC_STRING_LENGTH
  <2>2. length = TextLength(px) + 1 + 4
    BY WordingAssumption DEF Priced
  <2> QED
    BY <2>1, <2>2
<1>2. /\ PairLength(<<"Limit Price", px>>) = length
      /\ PairLength(<<"Take Profit", px>>) = length
      /\ PairLength(<<"Stop Loss", px>>) = length
      /\ PairLength(<<"Take Profit", edits, px>>) = length
      /\ PairLength(<<"Stop Loss", edits, px>>) = length
  BY DEF PairLength, BufferOf
<1>3. Room("Limit Price") = 70 /\ Room("Take Profit") = 70 /\ Room("Stop Loss") = 70
  BY Rooms
<1>4. "Limit Price" \in TextItems /\ "Take Profit" \in TextItems /\ "Stop Loss" \in TextItems
  BY DEF TextItems
<1> HIDE DEF length
<1>5. /\ length <= Room("Limit Price") /\ length <= Room("Take Profit")
      /\ length <= Room("Stop Loss")
  BY <1>1, <1>3
<1>6. Fits(<<"Limit Price", px>>)
  BY <1>1, <1>2, <1>4, <1>5, FitsIn
<1>7. Fits(<<"Take Profit", px>>)
  BY <1>1, <1>2, <1>4, <1>5, FitsIn
<1>8. Fits(<<"Stop Loss", px>>)
  BY <1>1, <1>2, <1>4, <1>5, FitsIn
<1>9. Fits(<<"Take Profit", edits, px>>)
  BY <1>1, <1>2, <1>4, <1>5, FitsIn
<1>10. Fits(<<"Stop Loss", edits, px>>)
  BY <1>1, <1>2, <1>4, <1>5, FitsIn
<1> QED
  BY <1>6, <1>7, <1>8, <1>9, <1>10

(* A margin, with its point and the counter value ticker *)
LEMMA MarginFits ==
    ASSUME NEW margin, IsUint64(margin)
    PROVE  Fits(<<"Margin", margin>>) /\ Fits(<<"New Margin", margin>>)
<1> DEFINE length == Priced(MarginLength(margin))
<1>1. MarginLength(margin) \in Nat /\ MarginLength(margin) <= 21
  BY DEF MarginLength, IsUint64
<1>2. length = MarginLength(margin) + 1 + 4
  BY WordingAssumption DEF Priced
<1>3. /\ PairLength(<<"Margin", margin>>) = length
      /\ PairLength(<<"New Margin", margin>>) = length
  BY DEF PairLength, BufferOf
<1>4. Room("Margin") = 70 /\ Room("New Margin") = 70
  BY Rooms
<1>5. "Margin" \in TextItems /\ "New Margin" \in TextItems
  BY DEF TextItems
<1> HIDE DEF length
<1>6. length \in Nat /\ length <= 70
  BY <1>1, <1>2
<1>7. length <= Room("Margin") /\ length <= Room("New Margin")
  BY <1>4, <1>6
<1>8. Fits(<<"Margin", margin>>)
  BY <1>3, <1>5, <1>6, <1>7, FitsIn
<1>9. Fits(<<"New Margin", margin>>)
  BY <1>3, <1>5, <1>6, <1>7, FitsIn
<1> QED
  BY <1>8, <1>9

(* A leverage and its "x" *)
LEMMA LeverageFits ==
    ASSUME NEW leverage, IsUint32(leverage)
    PROVE  Fits(<<"Leverage", leverage>>)
<1> DEFINE length == Digits(leverage) + 1
<1>1. PairLength(<<"Leverage", leverage>>) = length
  BY DEF PairLength, BufferOf
<1>2. Room("Leverage") = 11
  BY Rooms
<1>3. length \in Nat /\ length <= 11
  BY DEF IsUint32, UINT32_STRING_LENGTH
<1> HIDE DEF length
<1> QED
  BY <1>1, <1>2, <1>3 DEF Fits, TextItems

(* A size and the ticker *)
LEMMA SizeFits ==
    ASSUME NEW sz, IsNumericText(sz), NEW ticker,
           TextLength(ticker) \in 1..ASSET_TICKER_LENGTH
    PROVE  Fits(<<"Size", sz, ticker>>)
<1> DEFINE length == TextLength(sz) + 1 + TextLength(ticker)
<1>1. PairLength(<<"Size", sz, ticker>>) = length
  BY DEF PairLength, BufferOf
<1>2. Room("Size") = 70
  BY Rooms
<1>3. length \in Nat /\ length <= 70
  BY DEF IsNumericText, NUMERIC_STRING_LENGTH, ASSET_TICKER_LENGTH
<1> HIDE DEF length
<1> QED
  BY <1>1, <1>2, <1>3 DEF Fits, TextItems

(* An order id of 64 bits *)
LEMMA OidFits ==
    ASSUME NEW oid, IsUint64(oid)
    PROVE  /\ Fits(<<"Order ID", oid>>)
           /\ Fits(<<"TP Order ID", oid>>)
           /\ Fits(<<"SL Order ID", oid>>)
<1> DEFINE length == Digits(oid)
<1>1. /\ PairLength(<<"Order ID", oid>>) = length
      /\ PairLength(<<"TP Order ID", oid>>) = length
      /\ PairLength(<<"SL Order ID", oid>>) = length
  BY DEF PairLength, BufferOf
<1>2. /\ Room("Order ID") = 20 /\ Room("TP Order ID") = 20 /\ Room("SL Order ID") = 20
      /\ "Order ID" \in TextItems /\ "TP Order ID" \in TextItems /\ "SL Order ID" \in TextItems
  BY Rooms DEF TextItems
<1>3. length \in Nat /\ length <= 20
  BY DEF IsUint64
<1> HIDE DEF length
<1>4. /\ length <= Room("Order ID") /\ length <= Room("TP Order ID")
      /\ length <= Room("SL Order ID")
  BY <1>2, <1>3
<1>5. Fits(<<"Order ID", oid>>)
  BY <1>1, <1>2, <1>3, <1>4, FitsIn
<1>6. Fits(<<"TP Order ID", oid>>)
  BY <1>1, <1>2, <1>3, <1>4, FitsIn
<1>7. Fits(<<"SL Order ID", oid>>)
  BY <1>1, <1>2, <1>3, <1>4, FitsIn
<1> QED
  BY <1>5, <1>6, <1>7

IsSide(side) == TextLength(side) \in Nat /\ TextLength(side) <= 5

(* A side is a short word. *)
LEMMA SideLength == ASSUME NEW order PROVE IsSide(ShortLong(order))
<1>1. ShortLong(order) = "short" \/ ShortLong(order) = "long"
  BY DEF ShortLong
<1>2. TextLength("short") = 5 /\ TextLength("long") = 4
  BY WordingAssumption
<1>3. TextLength(ShortLong(order)) = 5 \/ TextLength(ShortLong(order)) = 4
  BY <1>1, <1>2
<1> QED
  BY <1>3 DEF IsSide

(* What is edited or cancelled, in full or abbreviated *)
LEMMA TargetLength ==
    ASSUME NEW tp, NEW sl
    PROVE  TextLength(Target(tp, sl)) \in Nat /\ TextLength(Target(tp, sl)) <= 25
<1>1. \/ Target(tp, sl) = "Take Profit and Stop Loss"
      \/ Target(tp, sl) = "Take Profit" \/ Target(tp, sl) = "Stop Loss"
      \/ Target(tp, sl) = "TP/SL" \/ Target(tp, sl) = "TP" \/ Target(tp, sl) = "SL"
  BY DEF Target
<1>2. /\ TextLength("Take Profit and Stop Loss") = 25
      /\ TextLength("Take Profit") = 11 /\ TextLength("Stop Loss") = 9
      /\ TextLength("TP/SL") = 5 /\ TextLength("TP") = 2 /\ TextLength("SL") = 2
  BY WordingAssumption
<1>3. TextLength(Target(tp, sl)) \in {25, 11, 9, 5, 2}
  BY <1>1, <1>2
<1> QED
  BY <1>3

HasTicker == TextLength(batch.metadata.ticker) \in 1..ASSET_TICKER_LENGTH

(* A ticker has at most 48 characters. *)
LEMMA TickerLength ==
    ASSUME HasTicker
    PROVE  /\ TextLength(batch.metadata.ticker) \in Nat
           /\ TextLength(batch.metadata.ticker) <= 48
BY DEF HasTicker, ASSET_TICKER_LENGTH

(* The operation of an order names its kind, its side and the ticker. *)
LEMMA OrderOperationFits ==
    ASSUME HasTicker, batch.metadata.op_type = "ORDER", NEW order, NEW kind,
           kind = "Market" \/ kind = "Limit"
    PROVE  Fits(<<"Operation", kind, ShortLong(order), batch.metadata.ticker>>)
<1> DEFINE side   == ShortLong(order)
           pair   == <<"Operation", kind, side, batch.metadata.ticker>>
           ofKind == TextLength(kind)
           ofSide == TextLength(side)
           rest   == TextLength(batch.metadata.ticker)
           length == ofKind + 1 + ofSide + 3 + rest
<1>1. PairLength(pair) = length
  BY DEF PairLength, BufferOf, OperationLength
<1>2. ofKind = 6 \/ ofKind = 5
  BY WordingAssumption
<1>3. ofSide \in Nat /\ ofSide <= 5 /\ rest \in Nat /\ rest <= 48
  BY SideLength, TickerLength DEF IsSide
<1>4. Room("Operation") = 63
  BY OperationRooms
<1> HIDE DEF ofKind, ofSide, rest
<1>5. length \in Nat /\ length <= 63
  BY <1>2, <1>3
<1> HIDE DEF length
<1>6. pair[1] = "Operation" /\ "Operation" \in TextItems
  BY DEF TextItems
<1> HIDE DEF pair
<1>7. PairLength(pair) \in Nat /\ PairLength(pair) <= 63
  BY <1>1, <1>5
<1> QED
  BY <1>4, <1>6, <1>7 DEF Fits, pair, side

(* The other operations on a position name its side and the ticker. *)
LEMMA PositionFits ==
    ASSUME HasTicker, NEW side, IsSide(side)
    PROVE  /\ batch.metadata.op_type \in {"MODIFY", "UPDATE_MARGIN"}
                  => Fits(<<"Active Position", side, batch.metadata.ticker>>)
           /\ batch.metadata.op_type = "CLOSE"
                  => Fits(<<"Position to close", side, batch.metadata.ticker>>)
<1> DEFINE ofSide == TextLength(side)
           rest   == TextLength(batch.metadata.ticker)
           active == <<"Active Position", side, batch.metadata.ticker>>
           closed == <<"Position to close", side, batch.metadata.ticker>>
           short  == ofSide + 3 + rest
           long   == 6 + 1 + ofSide + 3 + rest
<1>1. rest \in Nat /\ rest <= 48
  BY TickerLength
<1>2. ofSide \in Nat /\ ofSide <= 5
  BY DEF IsSide
<1>3. /\ active[1] = "Active Position" /\ "Active Position" \in TextItems
      /\ closed[1] = "Position to close" /\ "Position to close" \in TextItems
  BY DEF TextItems
<1>4. /\ PairLength(active) = OperationLength(batch.metadata.op_type, active)
      /\ PairLength(closed) = OperationLength(batch.metadata.op_type, closed)
  BY DEF PairLength, BufferOf
<1>a. Len(active) = 3 /\ active[2] = side
  OBVIOUS
<1>b. Len(closed) = 3 /\ closed[2] = side
  OBVIOUS
<1> HIDE DEF active, closed
<1>5. active[Len(active) - 1] = side /\ closed[Len(closed) - 1] = side
  BY <1>a, <1>b
<1> HIDE DEF ofSide, rest
<1>6. short \in Nat /\ short <= 56 /\ long \in Nat /\ long <= 63
  BY <1>1, <1>2
<1> HIDE DEF short, long
<1>7. CASE batch.metadata.op_type = "MODIFY"
  <2>1. Room("Active Position") = 63
    BY <1>7, OperationRooms
  <2>2. PairLength(active) \in Nat /\ PairLength(active) <= 63
    <3>1. OperationLength("MODIFY", active) = long
      BY <1>5, WordingAssumption DEF OperationLength, long, ofSide, rest
    <3> QED
      BY <1>4, <1>6, <1>7, <3>1
  <2>3. Fits(active)
    BY <1>3, <2>1, <2>2 DEF Fits
  <2> QED
    BY <1>7, <2>3 DEF active
<1>8. CASE batch.metadata.op_type = "UPDATE_MARGIN"
  <2>1. Room("Active Position") = 56
    BY <1>8, OperationRooms
  <2>2. PairLength(active) \in Nat /\ PairLength(active) <= 56
    <3>1. OperationLength("UPDATE_MARGIN", active) = short
      BY <1>5 DEF OperationLength, short, ofSide, rest
    <3> QED
      BY <1>4, <1>6, <1>8, <3>1
  <2>3. Fits(active)
    BY <1>3, <2>1, <2>2 DEF Fits
  <2> QED
    BY <1>8, <2>3 DEF active
<1>9. CASE batch.metadata.op_type = "CLOSE"
  <2>1. Room("Position to close") = 56
    BY <1>9, OperationRooms
  <2>2. PairLength(closed) \in Nat /\ PairLength(closed) <= 56
    <3>1. OperationLength("CLOSE", closed) = short
      BY <1>5 DEF OperationLength, short, ofSide, rest
    <3> QED
      BY <1>4, <1>6, <1>9, <3>1
  <2>3. Fits(closed)
    BY <1>3, <2>1, <2>2 DEF Fits
  <2> QED
    BY <1>9, <2>3 DEF closed
<1> QED
  BY <1>7, <1>8, <1>9

(* The operation of a cancellation names its target and the ticker. *)
LEMMA CancelOperationFits ==
    ASSUME HasTicker,
           batch.metadata.op_type \notin {"ORDER", "MODIFY", "CLOSE", "UPDATE_MARGIN"}
    PROVE  Fits(<<"Operation", batch.metadata.op_type, batch.metadata.ticker>>)
<1> DEFINE op       == batch.metadata.op_type
           pair     == <<"Operation", op, batch.metadata.ticker>>
           ofTarget == TextLength(CancelTarget(op))
           rest     == TextLength(batch.metadata.ticker)
           one      == 15 + rest
           some     == 15 + rest + 1 + ofTarget
<1>1. PairLength(pair) = one \/ PairLength(pair) = some
  BY WordingAssumption DEF PairLength, BufferOf, OperationLength
<1>2. rest \in Nat /\ rest <= 48 /\ ofTarget \in Nat /\ ofTarget <= 25
  BY TargetLength, TickerLength DEF CancelTarget
<1>3. Room("Operation") = 89
  BY OperationRooms
<1>4. pair[1] = "Operation" /\ "Operation" \in TextItems
  BY DEF TextItems
<1> HIDE DEF rest, ofTarget, pair
<1>5. one \in Nat /\ one <= 89 /\ some \in Nat /\ some <= 89
  BY <1>2
<1> HIDE DEF one, some
<1>6. PairLength(pair) \in Nat /\ PairLength(pair) <= 89
  BY <1>1, <1>5
<1> QED
  BY <1>3, <1>4, <1>6 DEF Fits, pair

-----------------------------------------------------------------------------
(* The texts of the screen of each flow *)

LEMMA OnlyOne ==
    ASSUME NEW list, NEW S, IsFiniteSet(S), S \subseteq 1..Len(list),
           Cardinality(S) <= 1, S # {}
    PROVE  \E i \in S : i \in 1..Len(list) /\ FirstOf(list, S) = list[i]
<1>1. PICK i : S = {i}
  BY AtMostOne
<1>2. i \in S /\ i \in 1..Len(list) /\ i \in Int
  BY <1>1
<1> QED
  BY <1>1, <1>2, FirstOfOne

(* What a reviewed batch has been checked for *)
LEMMA ReviewedMetadata ==
    ASSUME Reviewed
    PROVE  /\ HasTicker
           /\ batch.metadata.has_margin => IsUint64(batch.metadata.margin)
           /\ batch.metadata.has_leverage => IsUint32(batch.metadata.leverage)
BY DEF Reviewed, IsReviewable, HasTicker

LEMMA ReviewedAction ==
    ASSUME Reviewed, NEW type, CtxHasAction(batch.actions, type)
    PROVE  HasTexts(CtxGetAction(batch.actions, type))
           /\ CtxGetAction(batch.actions, type).type = type
BY ReviewableAction DEF Reviewed

LEMMA ReviewedOrders ==
    ASSUME Reviewed, CtxHasAction(batch.actions, "BULK_ORDER")
    PROVE  /\ IsList(OrdersOf(batch.actions))
           /\ \A i \in 1..Len(OrdersOf(batch.actions)) :
                  HasNumericTexts(OrdersOf(batch.actions)[i])
<1> DEFINE action == CtxGetAction(batch.actions, "BULK_ORDER")
<1>1. HasTexts(action) /\ action.type = "BULK_ORDER"
  BY ReviewedAction
<1> HIDE DEF action
<1>2. /\ IsList(action.body.orders)
      /\ \A order \in Range(action.body.orders) : HasNumericTexts(order)
  BY <1>1 DEF HasTexts
<1>3. \A i \in 1..Len(action.body.orders) : HasNumericTexts(action.body.orders[i])
  BY <1>2, ListProperties
<1> QED
  BY <1>2, <1>3 DEF OrdersOf, action

(* ui_order (op_order.c:8-135) *)
LEMMA OrderFits ==
    ASSUME Reviewed, batch.metadata.op_type = "ORDER"
    PROVE  \A pair \in Range(UiOrder(batch.metadata, batch.actions).pairs) : Fits(pair)
<1> DEFINE metadata == batch.metadata
           actions  == batch.actions
           orders   == OrdersOf(actions)
           limit    == FirstOf(orders, LimitsIn(orders))
           tps      == TpsIn(orders)
           sls      == SlsIn(orders)
           tp       == FirstOf(orders, tps)
           sl       == FirstOf(orders, sls)
           levers   == CtxHasAction(actions, "UPDATE_LEVERAGE")
           kind     == IF limit.limit.tif = "IOC" THEN "Market" ELSE "Limit"
<1>1. /\ CtxHasAction(actions, "BULK_ORDER")
      /\ Cardinality(LimitsIn(orders)) = 1
      /\ Cardinality(tps) <= 1 /\ Cardinality(sls) <= 1
  BY DEF Reviewed, UiAccepts, UiOrderAccepts
<1>2. IsList(orders) /\ \A i \in 1..Len(orders) : HasNumericTexts(orders[i])
  BY <1>1, ReviewedOrders
<1>3. IsNumericText(limit.limit_px) /\ IsNumericText(limit.sz)
  <2>1. LimitsIn(orders) # {}
    BY <1>1, FS_EmptySet
  <2>2. PICK i \in LimitsIn(orders) : i \in 1..Len(orders) /\ limit = orders[i]
    BY <1>1, <1>2, <2>1, KindsFinite, OnlyOne
  <2> QED
    BY <1>2, <2>2 DEF HasNumericTexts
<1>4. tps # {} => IsNumericText(tp.trigger.trigger_px)
  <2> SUFFICES ASSUME tps # {} PROVE IsNumericText(tp.trigger.trigger_px)
    OBVIOUS
  <2>1. PICK i \in tps : i \in 1..Len(orders) /\ tp = orders[i]
    BY <1>1, <1>2, KindsFinite, OnlyOne
  <2>2. IsTp(orders[i])
    BY <2>1 DEF TpsIn
  <2> QED
    BY <1>2, <2>1, <2>2 DEF HasNumericTexts, IsTp
<1>5. sls # {} => IsNumericText(sl.trigger.trigger_px)
  <2> SUFFICES ASSUME sls # {} PROVE IsNumericText(sl.trigger.trigger_px)
    OBVIOUS
  <2>1. PICK i \in sls : i \in 1..Len(orders) /\ sl = orders[i]
    BY <1>1, <1>2, KindsFinite, OnlyOne
  <2>2. IsSl(orders[i])
    BY <2>1 DEF SlsIn
  <2> QED
    BY <1>2, <2>1, <2>2 DEF HasNumericTexts, IsSl
<1>6. levers => IsUint32(LeverageOf(actions).leverage)
  BY ReviewedAction DEF HasTexts, LeverageOf
<1>7. HasTicker /\ (metadata.has_margin => IsUint64(metadata.margin))
  BY ReviewedMetadata
<1>8. kind = "Market" \/ kind = "Limit"
  OBVIOUS
<1> DEFINE list == UiOrder(metadata, actions).pairs
           p1 == <<"Operation", kind, ShortLong(limit), metadata.ticker>>
           p2 == <<"Limit Price", limit.limit_px>>
           p3 == <<"Margin", metadata.margin>>
           p4 == <<"Leverage", LeverageOf(actions).leverage>>
           p5 == <<"Take Profit", tp.trigger.trigger_px>>
           p6 == <<"Stop Loss", sl.trigger.trigger_px>>
           p7 == <<"Size", limit.sz, metadata.ticker>>
<1>9. Range(list) = {p1} \cup (IF ~(limit.limit.tif = "IOC") THEN {p2} ELSE {})
                         \cup (IF metadata.has_margin THEN {p3} ELSE {})
                         \cup (IF levers THEN {p4} ELSE {})
                         \cup (IF tps # {} THEN {p5} ELSE {})
                         \cup (IF sls # {} THEN {p6} ELSE {})
                         \cup {p7}
  <2>1. Range(list) = OrderPairSet(metadata, actions)
    BY OrderPairs
  <2> QED
    BY <2>1, Zenon DEF OrderPairSet
<1> HIDE DEF kind
<1>10. Fits(p1)
  BY <1>7, <1>8, OrderOperationFits
<1>11. Fits(p2)
  BY <1>3, PricedFits
<1>12. metadata.has_margin => Fits(p3)
  BY <1>7, MarginFits
<1>13. levers => Fits(p4)
  BY <1>6, LeverageFits
<1>14. tps # {} => Fits(p5)
  BY <1>4, PricedFits
<1>15. sls # {} => Fits(p6)
  BY <1>5, PricedFits
<1>16. Fits(p7)
  BY <1>3, <1>7, SizeFits DEF HasTicker
<1> HIDE DEF list, p1, p2, p3, p4, p5, p6, p7, tps, sls, levers
<1>17. \A pair \in Range(list) : Fits(pair)
  BY <1>9, <1>10, <1>11, <1>12, <1>13, <1>14, <1>15, <1>16
<1> QED
  BY <1>17 DEF list

(* The requests of a modification, with the order ids when it edits them *)
LEMMA ReviewedRequests ==
    ASSUME Reviewed, UiModifyAccepts(batch.actions)
    PROVE  LET requests == ModifyRequests(batch.actions)
           IN  /\ IsList(OrdersIn(requests))
               /\ Len(OrdersIn(requests)) = Len(requests)
               /\ \A i \in 1..Len(requests) :
                      /\ OrdersIn(requests)[i] = requests[i].order
                      /\ HasNumericTexts(requests[i].order)
                      /\ CtxHasAction(batch.actions, "BULK_MODIFY") => IsUint64(requests[i].oid)
<1> DEFINE actions  == batch.actions
           requests == ModifyRequests(actions)
           edits    == CtxHasAction(actions, "BULK_MODIFY")
<1>1. /\ IsList(requests)
      /\ \A i \in 1..Len(requests) :
             /\ HasNumericTexts(requests[i].order)
             /\ edits => IsUint64(requests[i].oid)
  <2>1. CASE edits
    <3> DEFINE action == CtxGetAction(actions, "BULK_MODIFY")
    <3>1. HasTexts(action) /\ action.type = "BULK_MODIFY"
      BY <2>1, ReviewedAction
    <3>2. requests = action.body.modifies
      BY <2>1 DEF ModifyRequests
    <3> HIDE DEF action, requests
    <3>3. /\ IsList(requests)
          /\ \A modify \in Range(requests) :
                 HasNumericTexts(modify.order) /\ IsUint64(modify.oid)
      BY <3>1, <3>2 DEF HasTexts
    <3> QED
      BY <3>3, ListProperties
  <2>2. CASE ~edits
    <3> DEFINE orders == OrdersOf(actions)
    <3>1. CtxHasAction(actions, "BULK_ORDER")
      BY <2>2 DEF UiModifyAccepts
    <3>2. IsList(orders) /\ \A i \in 1..Len(orders) : HasNumericTexts(orders[i])
      BY <3>1, ReviewedOrders
    <3>3. requests = [i \in DOMAIN orders |-> [oid |-> 0, order |-> orders[i]]]
      BY <2>2 DEF ModifyRequests
    <3> HIDE DEF orders, requests
    <3>4. requests = [i \in DOMAIN orders |-> requests[i]]
      BY <3>3
    <3>5. IsList(requests) /\ Len(requests) = Len(orders) /\ DOMAIN orders = 1..Len(orders)
      BY <3>2, <3>4, Mapped, ListProperties
    <3>6. \A i \in 1..Len(orders) : requests[i].order = orders[i]
      BY <3>3, <3>5
    <3> QED
      BY <2>2, <3>2, <3>5, <3>6
  <2> QED
    BY <2>1, <2>2
<1> HIDE DEF requests
<1>2. OrdersIn(requests) = [i \in DOMAIN requests |-> OrdersIn(requests)[i]]
  BY DEF OrdersIn
<1>3. /\ IsList(OrdersIn(requests))
      /\ Len(OrdersIn(requests)) = Len(requests)
      /\ DOMAIN requests = 1..Len(requests)
  BY <1>1, <1>2, Mapped, ListProperties
<1>4. \A i \in 1..Len(requests) : OrdersIn(requests)[i] = requests[i].order
  BY <1>3 DEF OrdersIn
<1> QED
  BY <1>1, <1>3, <1>4 DEF requests

(* ui_modify (op_modify.c:129-202) *)
LEMMA ModifyFits ==
    ASSUME Reviewed, batch.metadata.op_type = "MODIFY"
    PROVE  \A pair \in Range(UiModify(batch.metadata, batch.actions).pairs) : Fits(pair)
<1> DEFINE metadata == batch.metadata
           actions  == batch.actions
           edits    == CtxHasAction(actions, "BULK_MODIFY")
           requests == ModifyRequests(actions)
           tps      == TpsIn(OrdersIn(requests))
           sls      == SlsIn(OrdersIn(requests))
           tp       == FirstOf(requests, tps)
           sl       == FirstOf(requests, sls)
           any      == IF tps # {} THEN tp.order ELSE sl.order
<1>1. /\ UiModifyAccepts(actions)
      /\ Cardinality(tps) <= 1 /\ Cardinality(sls) <= 1
      /\ tps \cup sls # {}
  BY DEF Reviewed, UiAccepts, UiModifyAccepts
<1>2. /\ IsList(OrdersIn(requests))
      /\ Len(OrdersIn(requests)) = Len(requests)
      /\ \A i \in 1..Len(requests) :
             /\ OrdersIn(requests)[i] = requests[i].order
             /\ HasNumericTexts(requests[i].order)
             /\ edits => IsUint64(requests[i].oid)
  BY <1>1, ReviewedRequests
<1>3. tps # {} => /\ IsNumericText(tp.order.sz)
                  /\ IsNumericText(tp.order.trigger.trigger_px)
                  /\ edits => IsUint64(tp.oid)
  <2> SUFFICES ASSUME tps # {}
               PROVE  /\ IsNumericText(tp.order.sz)
                      /\ IsNumericText(tp.order.trigger.trigger_px)
                      /\ edits => IsUint64(tp.oid)
    OBVIOUS
  <2>1. PICK i \in tps : i \in 1..Len(requests) /\ tp = requests[i]
    BY <1>1, <1>2, KindsFinite, OnlyOne
  <2>2. IsTp(OrdersIn(requests)[i])
    BY <2>1 DEF TpsIn
  <2> QED
    BY <1>2, <2>1, <2>2 DEF HasNumericTexts, IsTp
<1>4. sls # {} => /\ IsNumericText(sl.order.sz)
                  /\ IsNumericText(sl.order.trigger.trigger_px)
                  /\ edits => IsUint64(sl.oid)
  <2> SUFFICES ASSUME sls # {}
               PROVE  /\ IsNumericText(sl.order.sz)
                      /\ IsNumericText(sl.order.trigger.trigger_px)
                      /\ edits => IsUint64(sl.oid)
    OBVIOUS
  <2>1. PICK i \in sls : i \in 1..Len(requests) /\ sl = requests[i]
    BY <1>1, <1>2, KindsFinite, OnlyOne
  <2>2. IsSl(OrdersIn(requests)[i])
    BY <2>1 DEF SlsIn
  <2> QED
    BY <1>2, <2>1, <2>2 DEF HasNumericTexts, IsSl
<1>5. IsNumericText(any.sz)
  BY <1>1, <1>3, <1>4
<1>6. /\ HasTicker
      /\ metadata.has_margin => IsUint64(metadata.margin)
      /\ metadata.has_leverage => IsUint32(metadata.leverage)
  BY ReviewedMetadata
<1> DEFINE list == UiModify(metadata, actions).pairs
           c6 == tps # {} /\ edits
           c8 == sls # {} /\ edits
           p1 == <<"Active Position", ShortLong(any), metadata.ticker>>
           p2 == <<"Margin", metadata.margin>>
           p3 == <<"Leverage", metadata.leverage>>
           p4 == <<"Size", any.sz, metadata.ticker>>
           p5 == <<"Take Profit", edits, tp.order.trigger.trigger_px>>
           p6 == <<"TP Order ID", tp.oid>>
           p7 == <<"Stop Loss", edits, sl.order.trigger.trigger_px>>
           p8 == <<"SL Order ID", sl.oid>>
<1>7. Range(list) = {p1} \cup (IF metadata.has_margin THEN {p2} ELSE {})
                         \cup (IF metadata.has_leverage THEN {p3} ELSE {})
                         \cup {p4}
                         \cup (IF tps # {} THEN {p5} ELSE {})
                         \cup (IF tps # {} /\ edits THEN {p6} ELSE {})
                         \cup (IF sls # {} THEN {p7} ELSE {})
                         \cup (IF sls # {} /\ edits THEN {p8} ELSE {})
  <2>1. Range(list) = ModifyPairSet(metadata, actions)
    BY ModifyPairs
  <2> QED
    BY <2>1, Zenon DEF ModifyPairSet
<1>8. Fits(p1)
  BY <1>6, SideLength, PositionFits
<1>9. metadata.has_margin => Fits(p2)
  BY <1>6, MarginFits
<1>10. metadata.has_leverage => Fits(p3)
  BY <1>6, LeverageFits
<1>11. Fits(p4)
  BY <1>5, <1>6, SizeFits DEF HasTicker
<1>12. tps # {} => Fits(p5)
  BY <1>3, PricedFits
<1>13. c6 => Fits(p6)
  BY <1>3, OidFits
<1>14. sls # {} => Fits(p7)
  BY <1>4, PricedFits
<1>15. c8 => Fits(p8)
  BY <1>4, OidFits
<1> HIDE DEF list, p1, p2, p3, p4, p5, p6, p7, p8, tps, sls, edits
<1>16. \A pair \in Range(list) : Fits(pair)
  BY <1>7, <1>8, <1>9, <1>10, <1>11, <1>12, <1>13, <1>14, <1>15
<1> QED
  BY <1>16 DEF list

(* ui_close (op_close.c:29-66) *)
LEMMA CloseFits ==
    ASSUME Reviewed, batch.metadata.op_type = "CLOSE"
    PROVE  \A pair \in Range(UiClose(batch.metadata, batch.actions).pairs) : Fits(pair)
<1> DEFINE metadata == batch.metadata
           limit    == OrdersOf(batch.actions)[1]
<1>1. CtxHasAction(batch.actions, "BULK_ORDER") /\ Len(OrdersOf(batch.actions)) = 1
  BY DEF Reviewed, UiAccepts, UiCloseAccepts
<1>2. HasNumericTexts(limit)
  BY <1>1, ReviewedOrders
<1>3. IsNumericText(limit.sz)
  BY <1>2 DEF HasNumericTexts
<1>4. /\ HasTicker
      /\ metadata.has_margin => IsUint64(metadata.margin)
      /\ metadata.has_leverage => IsUint32(metadata.leverage)
  BY ReviewedMetadata
<1> DEFINE list == UiClose(metadata, batch.actions).pairs
           p1 == <<"Position to close", ShortLong(limit), metadata.ticker>>
           p2 == <<"Margin", metadata.margin>>
           p3 == <<"Leverage", metadata.leverage>>
           p4 == <<"Size", limit.sz, metadata.ticker>>
<1>5. Range(list) = {p1} \cup (IF metadata.has_margin THEN {p2} ELSE {})
                         \cup (IF metadata.has_leverage THEN {p3} ELSE {})
                         \cup {p4}
  BY ZenonT(60), ClosePairs
<1>6. Fits(p1)
  BY <1>4, SideLength, PositionFits
<1>7. metadata.has_margin => Fits(p2)
  BY <1>4, MarginFits
<1>8. metadata.has_leverage => Fits(p3)
  BY <1>4, LeverageFits
<1>9. Fits(p4)
  BY <1>3, <1>4, SizeFits DEF HasTicker
<1> HIDE DEF list, p1, p2, p3, p4
<1>10. \A pair \in Range(list) : Fits(pair)
  BY <1>5, <1>6, <1>7, <1>8, <1>9
<1> QED
  BY <1>10 DEF list

(* ui_update_margin (op_update_margin.c:18-66) *)
LEMMA UpdateMarginFits ==
    ASSUME Reviewed, batch.metadata.op_type = "UPDATE_MARGIN"
    PROVE  \A pair \in Range(UiUpdateMargin(batch.metadata, batch.actions).pairs) : Fits(pair)
<1> DEFINE metadata  == batch.metadata
           actions   == batch.actions
           action    == CtxGetAction(actions, "UPDATE_ISOLATED_MARGIN")
           update    == MarginOf(actions)
           magnitude == IF update.ntli < 0 THEN -update.ntli ELSE update.ntli
           side      == IF update.is_buy THEN "Long" ELSE "Short"
<1>1. CtxHasAction(actions, "UPDATE_ISOLATED_MARGIN")
  BY DEF Reviewed, UiAccepts
<1>2. IsUint64(magnitude)
  <2>1. HasTexts(action) /\ action.type = "UPDATE_ISOLATED_MARGIN"
    BY <1>1, ReviewedAction
  <2> QED
    BY <2>1 DEF HasTexts, MarginOf
<1>3. IsSide(side)
  <2>1. side = "Long" \/ side = "Short"
    OBVIOUS
  <2>2. TextLength("Long") = 4 /\ TextLength("Short") = 5
    BY WordingAssumption
  <2> HIDE DEF side
  <2>3. TextLength(side) = 4 \/ TextLength(side) = 5
    BY <2>1, <2>2
  <2> QED
    BY <2>3 DEF IsSide
<1>4. /\ HasTicker
      /\ metadata.has_leverage => IsUint32(metadata.leverage)
  BY ReviewedMetadata
<1> DEFINE list == UiUpdateMargin(metadata, actions).pairs
           p1 == <<"Active Position", side, metadata.ticker>>
           p2 == <<"New Margin", magnitude>>
           p3 == <<"Leverage", metadata.leverage>>
<1>5. Range(list) = {p1} \cup {p2} \cup (IF metadata.has_leverage THEN {p3} ELSE {})
  BY ZenonT(60), UpdateMarginPairs
<1> HIDE DEF side, magnitude
<1>6. Fits(p1)
  BY <1>3, <1>4, PositionFits
<1>7. Fits(p2)
  BY <1>2, MarginFits
<1>8. metadata.has_leverage => Fits(p3)
  BY <1>4, LeverageFits
<1> HIDE DEF list, p1, p2, p3
<1>9. \A pair \in Range(list) : Fits(pair)
  BY <1>5, <1>6, <1>7, <1>8
<1> QED
  BY <1>9 DEF list

(* ui_cancel, ui_cancel_tp_sl (op_cancel.c:20-134) *)
LEMMA CancelFits ==
    ASSUME Reviewed,
           batch.metadata.op_type \notin {"ORDER", "MODIFY", "CLOSE", "UPDATE_MARGIN"}
    PROVE  \A pair \in Range(UiCancel(batch.metadata, batch.actions).pairs) : Fits(pair)
<1> DEFINE metadata == batch.metadata
           actions  == batch.actions
           cancels  == CancelsOf(actions)
           p1   == <<"Operation", metadata.op_type, metadata.ticker>>
           p2   == <<"Margin", metadata.margin>>
           p3   == <<"Leverage", metadata.leverage>>
           head == Headed(metadata, p1)
           oids == ShowCancelOids(actions)
<1>1. UiCancelAccepts(metadata, actions)
  BY DEF Reviewed, UiAccepts
<1>2. IsList(cancels) /\ \A i \in 1..Len(cancels) : IsUint64(cancels[i].oid)
  BY <1>1, ReviewableCancels DEF Reviewed
<1>3. /\ HasTicker
      /\ metadata.has_margin => IsUint64(metadata.margin)
      /\ metadata.has_leverage => IsUint32(metadata.leverage)
  BY ReviewedMetadata
<1>4. Range(head) = {p1} \cup (IF metadata.has_margin THEN {p2} ELSE {})
                         \cup (IF metadata.has_leverage THEN {p3} ELSE {})
  BY ZenonT(60), HeadedPairs
<1>5. Fits(p1)
  BY <1>3, CancelOperationFits
<1>6. metadata.has_margin => Fits(p2)
  BY <1>3, MarginFits
<1>7. metadata.has_leverage => Fits(p3)
  BY <1>3, LeverageFits
<1>8. \A pair \in Range(oids) : Fits(pair)
  <2>1. /\ IsList(oids) /\ Len(oids) = Len(cancels)
        /\ \A i \in 1..Len(cancels) : oids[i] = <<"Order ID", cancels[i].oid>>
    BY <1>2, CancelOids
  <2>2. DOMAIN oids = 1..Len(cancels)
    BY <2>1, ListProperties
  <2> HIDE DEF oids, cancels
  <2>3. ASSUME NEW i \in 1..Len(cancels) PROVE Fits(oids[i])
    <3>1. Fits(<<"Order ID", cancels[i].oid>>)
      BY <1>2, OidFits
    <3> QED
      BY <2>1, <3>1
  <2> QED
    BY <2>2, <2>3 DEF Range
<1>9. /\ UiCancel(metadata, actions).pairs = head \o oids
      /\ Range(head \o oids) = Range(head) \cup Range(oids)
  BY <1>2, CancelPairs
<1> HIDE DEF head, oids, p1, p2, p3
<1>10. \A pair \in Range(head) : Fits(pair)
  BY <1>4, <1>5, <1>6, <1>7
<1> QED
  BY <1>8, <1>9, <1>10

(* Every pair of the screen is a constant text, or has a buffer it fits. *)
LEMMA ScreenFits ==
    ASSUME Reviewed
    PROVE  /\ IsList(PairsToShow)
           /\ \A pair \in Range(PairsToShow) : IsConstantText(pair) \/ Fits(pair)
<1> DEFINE metadata == batch.metadata
           actions  == batch.actions
           op       == metadata.op_type
           flow     == Flow(metadata, actions).pairs
<1>1. IsList(flow) /\ \A pair \in Range(flow) : Fits(pair)
  <2>1. CASE op = "ORDER"
    BY <2>1, OrderPairs, OrderFits DEF Flow
  <2>2. CASE op = "MODIFY"
    BY <2>2, ModifyPairs, ModifyFits DEF Flow
  <2>3. CASE op = "CLOSE"
    BY <2>3, ClosePairs, CloseFits DEF Flow
  <2>4. CASE op = "UPDATE_MARGIN"
    BY <2>4, UpdateMarginPairs, UpdateMarginFits DEF Flow
  <2>5. CASE op \notin {"ORDER", "MODIFY", "CLOSE", "UPDATE_MARGIN"}
    <3>1. Flow(metadata, actions) = UiCancel(metadata, actions)
      BY <2>5 DEF Flow
    <3>2. UiCancelAccepts(metadata, actions)
      BY <2>5 DEF Reviewed, UiAccepts
    <3>3. IsList(CancelsOf(actions))
      BY <3>2, ReviewableCancels DEF Reviewed
    <3>4. IsList(UiCancel(metadata, actions).pairs)
      BY <3>3, CancelPairs
    <3> QED
      BY <2>5, <3>1, <3>4, CancelFits
  <2> QED
    BY <2>1, <2>2, <2>3, <2>4, <2>5
<1>2. /\ IsList(PairsToShow)
      /\ Range(PairsToShow) = Range(Top(metadata)) \cup Range(flow)
  BY <1>1, ScreenPairs DEF PairsToShow
<1>3. Range(Top(metadata)) \subseteq {<<"Protocol">>, <<"Network", "Testnet">>}
  BY TopPairs
<1>4. IsConstantText(<<"Protocol">>) /\ IsConstantText(<<"Network", "Testnet">>)
  BY DEF IsConstantText
<1> HIDE DEF flow, IsConstantText
<1> QED
  BY <1>1, <1>2, <1>3, <1>4

-----------------------------------------------------------------------------
(* How many pairs there are, and which may share a buffer *)

LEMMA MostPairs ==
    ASSUME NEW op, NEW items
    PROVE  Most(op, items) \in Nat /\ Most(op, items) <= MAX_UI_PAIRS
<1> DEFINE n1 == One("Protocol", items)
           n2 == One("Network", items)
           n3 == One("Operation", items)
           n4 == One("Active Position", items)
           n5 == One("Position to close", items)
           n6 == One("Margin", items)
           n7 == One("New Margin", items)
           n8 == One("Limit Price", items)
           n9 == One("Leverage", items)
           n10 == One("Take Profit", items)
           n11 == One("Stop Loss", items)
           n12 == One("TP Order ID", items)
           n13 == One("SL Order ID", items)
           n14 == One("Size", items)
           n15 == IF "Order ID" \in items THEN CancelCount(op) ELSE 0
<1>1. /\ n1 \in {0, 1} /\ n2 \in {0, 1} /\ n3 \in {0, 1} /\ n4 \in {0, 1} /\ n5 \in {0, 1}
      /\ n6 \in {0, 1} /\ n7 \in {0, 1} /\ n8 \in {0, 1} /\ n9 \in {0, 1} /\ n10 \in {0, 1}
      /\ n11 \in {0, 1} /\ n12 \in {0, 1} /\ n13 \in {0, 1} /\ n14 \in {0, 1}
  BY OneIs
<1>2. n15 \in {0, 1, 2}
  BY DEF CancelCount
<1>3. /\ MostOfOrder(items) = n3 + n8 + n6 + n9 + n10 + n11 + n14
      /\ MostOfModify(items) = n4 + n6 + n9 + n14 + n10 + n12 + n11 + n13
      /\ MostOfClose(items) = n5 + n6 + n9 + n14
      /\ MostOfUpdateMargin(items) = n4 + n7 + n9
      /\ MostOfCancel(op, items) = n3 + n6 + n9 + n15
  BY DEF MostOfOrder, MostOfModify, MostOfClose, MostOfUpdateMargin, MostOfCancel
<1> HIDE DEF n1, n2, n3, n4, n5, n6, n7, n8, n9, n10, n11, n12, n13, n14, n15
<1>4. MostOfOrder(items) \in 0..8
  BY <1>1, <1>2, <1>3
<1>5. MostOfModify(items) \in 0..8
  BY <1>1, <1>2, <1>3
<1>6. MostOfClose(items) \in 0..8
  BY <1>1, <1>2, <1>3
<1>7. MostOfUpdateMargin(items) \in 0..8
  BY <1>1, <1>2, <1>3
<1>8. MostOfCancel(op, items) \in 0..8
  BY <1>1, <1>2, <1>3
<1> DEFINE most == CASE op = "ORDER"         -> MostOfOrder(items)
                     [] op = "MODIFY"        -> MostOfModify(items)
                     [] op = "CLOSE"         -> MostOfClose(items)
                     [] op = "UPDATE_MARGIN" -> MostOfUpdateMargin(items)
                     [] OTHER                -> MostOfCancel(op, items)
<1>9. most \in 0..8
  BY <1>4, <1>5, <1>6, <1>7, <1>8
<1>10. Most(op, items) = n1 + n2 + most
  BY DEF Most, n1, n2
<1> HIDE DEF most
<1> QED
  BY <1>1, <1>9, <1>10 DEF MAX_UI_PAIRS

(* No screen has more than MAX_UI_PAIRS pairs. *)
LEMMA ScreenLength ==
    ASSUME Reviewed
    PROVE  Len(PairsToShow) \in Nat /\ Len(PairsToShow) <= MAX_UI_PAIRS
<1> DEFINE list  == PairsToShow
           items == {list[i][1] : i \in DOMAIN list}
           op    == batch.metadata.op_type
<1>1. IsList(list) /\ Count(list, items) <= Most(op, items)
  BY ScreenCount DEF Reviewed, PairsToShow
<1>2. Len(list) \in Nat /\ DOMAIN list = 1..Len(list)
  BY <1>1, ListProperties
<1>3. Under(list, items) = 1..Len(list)
  <2>1. \A i \in DOMAIN list : list[i][1] \in items
    OBVIOUS
  <2> HIDE DEF list, items
  <2>2. Under(list, items) = DOMAIN list
    BY <2>1 DEF Under
  <2> QED
    BY <1>2, <2>2
<1>4. Count(list, items) = Len(list)
  <2> HIDE DEF list
  <2>1. Len(list) \in Nat
    BY <1>2
  <2>2. Cardinality(1..Len(list)) = Len(list)
    <3>1. 1 \in Int /\ Len(list) \in Int
      BY <2>1
    <3>2. Cardinality(1..Len(list)) = IF 1 > Len(list) THEN 0 ELSE Len(list) - 1 + 1
      BY <3>1, FS_Interval
    <3> QED
      BY <2>1, <3>2
  <2> QED
    BY <1>3, <2>2 DEF Count
<1>5. Most(op, items) \in Nat /\ Most(op, items) <= MAX_UI_PAIRS
  BY MostPairs
<1> HIDE DEF list, items
<1>6. Len(list) <= Most(op, items)
  BY <1>1, <1>4
<1>7. Len(list) \in Nat
  BY <1>2
<1>8. MAX_UI_PAIRS \in Nat
  BY DEF MAX_UI_PAIRS
<1>9. Len(list) <= MAX_UI_PAIRS
  BY <1>5, <1>6, <1>7, <1>8
<1> QED
  BY <1>7, <1>9 DEF list

(* The items that are written to one buffer, the order ids apart *)
Groups == {{"Operation", "Active Position", "Position to close"}, {"Margin", "New Margin"},
           {"Limit Price"}, {"Leverage"}, {"Take Profit"}, {"Stop Loss"},
           {"TP Order ID"}, {"SL Order ID"}, {"Size"}}

(* Order ids have an array of their own. *)
LEMMA NoOrderIds == ASSUME NEW group \in Groups PROVE "Order ID" \notin group
<1>1. "Order ID" \notin {"Operation", "Active Position", "Position to close"}
  OBVIOUS
<1>2. "Order ID" \notin {"Margin", "New Margin"}
  OBVIOUS
<1>3. "Order ID" \notin {"Limit Price"}
  OBVIOUS
<1>4. "Order ID" \notin {"Leverage"}
  OBVIOUS
<1>5. "Order ID" \notin {"Take Profit"}
  OBVIOUS
<1>6. "Order ID" \notin {"Stop Loss"}
  OBVIOUS
<1>7. "Order ID" \notin {"TP Order ID"}
  OBVIOUS
<1>8. "Order ID" \notin {"SL Order ID"}
  OBVIOUS
<1>9. "Order ID" \notin {"Size"}
  OBVIOUS
<1> QED
  BY <1>1, <1>2, <1>3, <1>4, <1>5, <1>6, <1>7, <1>8, <1>9 DEF Groups

(* At most one pair per flow is at most one pair. *)
LEMMA FewPairs ==
    ASSUME NEW op, NEW group,
           One("Protocol", group) = 0, One("Network", group) = 0,
           MostOfOrder(group) \in {0, 1}, MostOfModify(group) \in {0, 1},
           MostOfClose(group) \in {0, 1}, MostOfUpdateMargin(group) \in {0, 1},
           MostOfCancel(op, group) \in {0, 1}
    PROVE  Most(op, group) \in Nat /\ Most(op, group) <= 1
<1> DEFINE most == CASE op = "ORDER"         -> MostOfOrder(group)
                     [] op = "MODIFY"        -> MostOfModify(group)
                     [] op = "CLOSE"         -> MostOfClose(group)
                     [] op = "UPDATE_MARGIN" -> MostOfUpdateMargin(group)
                     [] OTHER                -> MostOfCancel(op, group)
           n1 == One("Protocol", group)
           n2 == One("Network", group)
<1>1. most \in {0, 1}
  OBVIOUS
<1>2. Most(op, group) = n1 + n2 + most
  BY DEF Most
<1>3. n1 = 0 /\ n2 = 0
  OBVIOUS
<1> HIDE DEF most, n1, n2
<1> QED
  BY <1>1, <1>2, <1>3

(* No flow has two items for one buffer. *)
LEMMA OneOfEachGroup ==
    ASSUME NEW op, NEW group \in Groups
    PROVE  Most(op, group) \in Nat /\ Most(op, group) <= 1
<1> DEFINE n1 == One("Protocol", group)
           n2 == One("Network", group)
           n3 == One("Operation", group)
           n4 == One("Active Position", group)
           n5 == One("Position to close", group)
           n6 == One("Margin", group)
           n7 == One("New Margin", group)
           n8 == One("Limit Price", group)
           n9 == One("Leverage", group)
           n10 == One("Take Profit", group)
           n11 == One("Stop Loss", group)
           n12 == One("TP Order ID", group)
           n13 == One("SL Order ID", group)
           n14 == One("Size", group)
           Few == /\ n1 = 0 /\ n2 = 0
                  /\ n3 + n8 + n6 + n9 + n10 + n11 + n14 \in {0, 1}
                  /\ n4 + n6 + n9 + n14 + n10 + n12 + n11 + n13 \in {0, 1}
                  /\ n5 + n6 + n9 + n14 \in {0, 1}
                  /\ n4 + n7 + n9 \in {0, 1}
                  /\ n3 + n6 + n9 \in {0, 1}
<1>1. "Order ID" \notin group
  BY NoOrderIds
<1>2. /\ MostOfOrder(group) = n3 + n8 + n6 + n9 + n10 + n11 + n14
      /\ MostOfModify(group) = n4 + n6 + n9 + n14 + n10 + n12 + n11 + n13
      /\ MostOfClose(group) = n5 + n6 + n9 + n14
      /\ MostOfUpdateMargin(group) = n4 + n7 + n9
      /\ MostOfCancel(op, group) = n3 + n6 + n9 + 0
  BY <1>1 DEF MostOfOrder, MostOfModify, MostOfClose, MostOfUpdateMargin, MostOfCancel
<1> HIDE DEF n1, n2, n3, n4, n5, n6, n7, n8, n9, n10, n11, n12, n13, n14
<1>3. ASSUME group = {"Operation", "Active Position", "Position to close"} PROVE Few
  <2>1. /\ n1 = 0 /\ n2 = 0 /\ n3 = 1 /\ n4 = 1 /\ n5 = 1 /\ n6 = 0 /\ n7 = 0
        /\ n8 = 0 /\ n9 = 0 /\ n10 = 0 /\ n11 = 0 /\ n12 = 0 /\ n13 = 0 /\ n14 = 0
    BY <1>3 DEF One, n1, n2, n3, n4, n5, n6, n7, n8, n9, n10, n11, n12, n13, n14
  <2> QED
    BY <2>1
<1>4. ASSUME group = {"Margin", "New Margin"} PROVE Few
  <2>1. /\ n1 = 0 /\ n2 = 0 /\ n3 = 0 /\ n4 = 0 /\ n5 = 0 /\ n6 = 1 /\ n7 = 1
        /\ n8 = 0 /\ n9 = 0 /\ n10 = 0 /\ n11 = 0 /\ n12 = 0 /\ n13 = 0 /\ n14 = 0
    BY <1>4 DEF One, n1, n2, n3, n4, n5, n6, n7, n8, n9, n10, n11, n12, n13, n14
  <2> QED
    BY <2>1
<1>5. ASSUME group = {"Limit Price"} PROVE Few
  <2>1. /\ n1 = 0 /\ n2 = 0 /\ n3 = 0 /\ n4 = 0 /\ n5 = 0 /\ n6 = 0 /\ n7 = 0
        /\ n8 = 1 /\ n9 = 0 /\ n10 = 0 /\ n11 = 0 /\ n12 = 0 /\ n13 = 0 /\ n14 = 0
    BY <1>5 DEF One, n1, n2, n3, n4, n5, n6, n7, n8, n9, n10, n11, n12, n13, n14
  <2> QED
    BY <2>1
<1>6. ASSUME group = {"Leverage"} PROVE Few
  <2>1. /\ n1 = 0 /\ n2 = 0 /\ n3 = 0 /\ n4 = 0 /\ n5 = 0 /\ n6 = 0 /\ n7 = 0
        /\ n8 = 0 /\ n9 = 1 /\ n10 = 0 /\ n11 = 0 /\ n12 = 0 /\ n13 = 0 /\ n14 = 0
    BY <1>6 DEF One, n1, n2, n3, n4, n5, n6, n7, n8, n9, n10, n11, n12, n13, n14
  <2> QED
    BY <2>1
<1>7. ASSUME group = {"Take Profit"} PROVE Few
  <2>1. /\ n1 = 0 /\ n2 = 0 /\ n3 = 0 /\ n4 = 0 /\ n5 = 0 /\ n6 = 0 /\ n7 = 0
        /\ n8 = 0 /\ n9 = 0 /\ n10 = 1 /\ n11 = 0 /\ n12 = 0 /\ n13 = 0 /\ n14 = 0
    BY <1>7 DEF One, n1, n2, n3, n4, n5, n6, n7, n8, n9, n10, n11, n12, n13, n14
  <2> QED
    BY <2>1
<1>8. ASSUME group = {"Stop Loss"} PROVE Few
  <2>1. /\ n1 = 0 /\ n2 = 0 /\ n3 = 0 /\ n4 = 0 /\ n5 = 0 /\ n6 = 0 /\ n7 = 0
        /\ n8 = 0 /\ n9 = 0 /\ n10 = 0 /\ n11 = 1 /\ n12 = 0 /\ n13 = 0 /\ n14 = 0
    BY <1>8 DEF One, n1, n2, n3, n4, n5, n6, n7, n8, n9, n10, n11, n12, n13, n14
  <2> QED
    BY <2>1
<1>9. ASSUME group = {"TP Order ID"} PROVE Few
  <2>1. /\ n1 = 0 /\ n2 = 0 /\ n3 = 0 /\ n4 = 0 /\ n5 = 0 /\ n6 = 0 /\ n7 = 0
        /\ n8 = 0 /\ n9 = 0 /\ n10 = 0 /\ n11 = 0 /\ n12 = 1 /\ n13 = 0 /\ n14 = 0
    BY <1>9 DEF One, n1, n2, n3, n4, n5, n6, n7, n8, n9, n10, n11, n12, n13, n14
  <2> QED
    BY <2>1
<1>10. ASSUME group = {"SL Order ID"} PROVE Few
  <2>1. /\ n1 = 0 /\ n2 = 0 /\ n3 = 0 /\ n4 = 0 /\ n5 = 0 /\ n6 = 0 /\ n7 = 0
        /\ n8 = 0 /\ n9 = 0 /\ n10 = 0 /\ n11 = 0 /\ n12 = 0 /\ n13 = 1 /\ n14 = 0
    BY <1>10 DEF One, n1, n2, n3, n4, n5, n6, n7, n8, n9, n10, n11, n12, n13, n14
  <2> QED
    BY <2>1
<1>11. ASSUME group = {"Size"} PROVE Few
  <2>1. /\ n1 = 0 /\ n2 = 0 /\ n3 = 0 /\ n4 = 0 /\ n5 = 0 /\ n6 = 0 /\ n7 = 0
        /\ n8 = 0 /\ n9 = 0 /\ n10 = 0 /\ n11 = 0 /\ n12 = 0 /\ n13 = 0 /\ n14 = 1
    BY <1>11 DEF One, n1, n2, n3, n4, n5, n6, n7, n8, n9, n10, n11, n12, n13, n14
  <2> QED
    BY <2>1
<1>12. Few
  BY <1>3, <1>4, <1>5, <1>6, <1>7, <1>8, <1>9, <1>10, <1>11 DEF Groups
<1>13. n1 = 0 /\ n2 = 0
  BY <1>12
<1>14. /\ MostOfOrder(group) \in {0, 1} /\ MostOfModify(group) \in {0, 1}
       /\ MostOfClose(group) \in {0, 1} /\ MostOfUpdateMargin(group) \in {0, 1}
  BY <1>2, <1>12
<1>15. MostOfCancel(op, group) \in {0, 1}
  BY <1>2, <1>12
<1> QED
  BY <1>13, <1>14, <1>15, FewPairs DEF n1, n2

(* So no screen has two pairs for one buffer. *)
LEMMA OneInEachGroup ==
    ASSUME Reviewed, NEW group \in Groups,
           NEW i \in 1..Len(PairsToShow), NEW j \in 1..Len(PairsToShow),
           PairsToShow[i][1] \in group, PairsToShow[j][1] \in group
    PROVE  i = j
<1> DEFINE list == PairsToShow
           op   == batch.metadata.op_type
           S    == Under(list, group)
<1>1. IsList(list) /\ Count(list, group) <= Most(op, group)
  BY ScreenCount DEF Reviewed, PairsToShow
<1>2. IsFiniteSet(S) /\ Count(list, group) \in Nat /\ DOMAIN list = 1..Len(list)
  BY <1>1, UnderFinite, ListProperties
<1>3. i \in S /\ j \in S
  BY <1>2 DEF Under
<1>4. Most(op, group) \in Nat /\ Most(op, group) <= 1
  BY OneOfEachGroup
<1>5. Cardinality(S) <= 1
  BY <1>1, <1>2, <1>4 DEF Count
<1> HIDE DEF S
<1>6. \E k : S = {k}
  BY <1>2, <1>3, <1>5, AtMostOne
<1> QED
  BY <1>3, <1>6

(* The order ids come one after another: each has a place of its own in    *)
(* the array, and there are no more than the array holds (op_cancel.c:     *)
(* 9-18, 88-99).                                                           *)
LEMMA OidsAreUpTo ==
    ASSUME NEW i
    PROVE  OidsUpTo(i) = UpTo(PairsToShow, {"Order ID"}, i)
<1> QED
  BY DEF OidsUpTo, UpTo

(* Each order id has its own number. *)
LEMMA MoreOids ==
    ASSUME Reviewed, NEW i \in 1..Len(PairsToShow), NEW j \in 1..Len(PairsToShow),
           PairsToShow[j][1] = "Order ID", i < j
    PROVE  Cardinality(OidsUpTo(i)) # Cardinality(OidsUpTo(j))
<1>1. PairsToShow[j][1] \in {"Order ID"}
  OBVIOUS
<1>2. IsList(PairsToShow)
  BY ScreenFits
<1> QED
  BY <1>1, <1>2, UpToGrows, OidsAreUpTo

(* A number below a bound that is below another *)
LEMMA Within ==
    ASSUME NEW count \in Nat, NEW most \in Nat, NEW bound \in Nat,
           NEW n \in 1..count, count <= most, most <= bound
    PROVE  n \in 1..bound
OBVIOUS

(* There are at most as many order ids as a bulk has requests. *)
LEMMA MostOids ==
    ASSUME Reviewed
    PROVE  /\ Most(batch.metadata.op_type, {"Order ID"}) \in Nat
           /\ Most(batch.metadata.op_type, {"Order ID"}) <= BulkMaxSize
           /\ BulkMaxSize \in Nat
<1> DEFINE op   == batch.metadata.op_type
           most == Most(op, {"Order ID"})
           c    == CancelCount(op)
           n1 == One("Protocol", {"Order ID"})
           n2 == One("Network", {"Order ID"})
           n3 == MostOfOrder({"Order ID"})
           n4 == MostOfModify({"Order ID"})
           n5 == MostOfClose({"Order ID"})
           n6 == MostOfUpdateMargin({"Order ID"})
           n7 == MostOfCancel(op, {"Order ID"})
<1>1. n1 = 0 /\ n2 = 0 /\ n3 = 0 /\ n4 = 0 /\ n5 = 0 /\ n6 = 0
  BY DEF One, MostOfOrder, MostOfModify, MostOfClose, MostOfUpdateMargin
<1>2. n7 = c
  BY DEF One, MostOfCancel, CancelCount
<1>3. \/ most = n1 + n2 + n3
      \/ most = n1 + n2 + n4
      \/ most = n1 + n2 + n5
      \/ most = n1 + n2 + n6
      \/ most = n1 + n2 + n7 /\ UiCancelAccepts(batch.metadata, batch.actions)
  BY DEF Most, Reviewed, UiAccepts
<1>4. UiCancelAccepts(batch.metadata, batch.actions) => c \in 1..BulkMaxSize
  BY ReviewableCancels DEF Reviewed
<1>5. BulkMaxSize \in Nat
  BY BulkMaxSizeAssumption
<1> HIDE DEF most, c, n1, n2, n3, n4, n5, n6, n7
<1>6. most = 0 \/ most \in 1..BulkMaxSize
  BY <1>1, <1>2, <1>3, <1>4, <1>5
<1>7. most \in Nat /\ most <= BulkMaxSize
  BY <1>5, <1>6
<1> QED
  BY <1>5, <1>7 DEF most

(* The number of an order id is an index of the array. *)
LEMMA OidsFit ==
    ASSUME Reviewed, NEW i \in 1..Len(PairsToShow), PairsToShow[i][1] = "Order ID"
    PROVE  Cardinality(OidsUpTo(i)) \in 1..BulkMaxSize
<1> DEFINE op == batch.metadata.op_type
           most == Most(op, {"Order ID"})
           count == Count(PairsToShow, {"Order ID"})
           n == Cardinality(OidsUpTo(i))
<1>1. IsList(PairsToShow) /\ count <= most
  BY ScreenCount DEF Reviewed, PairsToShow
<1>2. PairsToShow[i][1] \in {"Order ID"}
  OBVIOUS
<1>3. n \in 1..count /\ count \in Nat
  <2> QED
    BY <1>1, <1>2, UpToCount, OidsAreUpTo
<1>4. most \in Nat /\ most <= BulkMaxSize /\ BulkMaxSize \in Nat
  BY MostOids
<1> HIDE DEF n, count, most
<1>5. n \in 1..BulkMaxSize
  BY <1>1, <1>3, <1>4, Within, Zenon
<1> QED
  BY <1>5 DEF n

-----------------------------------------------------------------------------
(* No two pairs share a buffer. *)

ItemsOf(field) ==
    CASE field = "operation"   -> {"Operation", "Active Position", "Position to close"}
      [] field = "margin"      -> {"Margin", "New Margin"}
      [] field = "limit_price" -> {"Limit Price"}
      [] field = "leverage"    -> {"Leverage"}
      [] field = "tp_price"    -> {"Take Profit"}
      [] field = "sl_price"    -> {"Stop Loss"}
      [] field = "tp_oid"      -> {"TP Order ID"}
      [] field = "sl_oid"      -> {"SL Order ID"}
      [] field = "size"        -> {"Size"}
      [] field = "oid"         -> {"Order ID"}

(* The name of a buffer tells which items are written to it. *)
LEMMA NamesOfItems ==
    ASSUME NEW x \in TextItems, NEW k
    PROVE  LET name == BufferOf(x, k)
           IN  /\ x \in ItemsOf(name[1])
               /\ \/ ItemsOf(name[1]) \in Groups
                  \/ ItemsOf(name[1]) = {"Order ID"} /\ name[2] = k
<1>1. CASE x = "Operation"
  BY <1>1 DEF BufferOf, ItemsOf, Groups
<1>2. CASE x = "Active Position"
  BY <1>2 DEF BufferOf, ItemsOf, Groups
<1>3. CASE x = "Position to close"
  BY <1>3 DEF BufferOf, ItemsOf, Groups
<1>4. CASE x = "Margin"
  BY <1>4 DEF BufferOf, ItemsOf, Groups
<1>5. CASE x = "New Margin"
  BY <1>5 DEF BufferOf, ItemsOf, Groups
<1>6. CASE x = "Limit Price"
  BY <1>6 DEF BufferOf, ItemsOf, Groups
<1>7. CASE x = "Leverage"
  BY <1>7 DEF BufferOf, ItemsOf, Groups
<1>8. CASE x = "Take Profit"
  BY <1>8 DEF BufferOf, ItemsOf, Groups
<1>9. CASE x = "Stop Loss"
  BY <1>9 DEF BufferOf, ItemsOf, Groups
<1>10. CASE x = "TP Order ID"
  BY <1>10 DEF BufferOf, ItemsOf, Groups
<1>11. CASE x = "SL Order ID"
  BY <1>11 DEF BufferOf, ItemsOf, Groups
<1>12. CASE x = "Size"
  BY <1>12 DEF BufferOf, ItemsOf, Groups
<1>13. CASE x = "Order ID"
  BY <1>13 DEF BufferOf, ItemsOf, Groups
<1> QED
  BY <1>1, <1>2, <1>3, <1>4, <1>5, <1>6, <1>7, <1>8, <1>9, <1>10, <1>11, <1>12, <1>13 DEF TextItems

(* Two items with one name are of one group, or the same order id. *)
LEMMA SameBuffer ==
    ASSUME NEW x \in TextItems, NEW y \in TextItems, NEW k, NEW l,
           BufferOf(x, k) = BufferOf(y, l)
    PROVE  \/ x = "Order ID" /\ y = "Order ID" /\ k = l
           \/ \E group \in Groups : x \in group /\ y \in group
<1> DEFINE name == BufferOf(x, k)
           items == ItemsOf(name[1])
<1>1. /\ x \in items
      /\ items \in Groups \/ (items = {"Order ID"} /\ name[2] = k)
  BY NamesOfItems
<1>2. /\ y \in items
      /\ items \in Groups \/ (items = {"Order ID"} /\ name[2] = l)
  BY NamesOfItems
<1> HIDE DEF items, name
<1> QED
  BY <1>1, <1>2, Zenon

(* Two pairs of a screen with one name are the same pair. *)
LEMMA NamesDiffer ==
    ASSUME Reviewed, NEW i \in 1..Len(PairsToShow), NEW j \in 1..Len(PairsToShow),
           ~IsConstantText(PairsToShow[i]), ~IsConstantText(PairsToShow[j]),
           NameOf(i) = NameOf(j)
    PROVE  i = j
<1> DEFINE x == PairsToShow[i][1]
           y == PairsToShow[j][1]
<1>1. PairsToShow[i] \in Range(PairsToShow) /\ PairsToShow[j] \in Range(PairsToShow)
  BY ScreenFits, ListProperties
<1>2. x \in TextItems /\ y \in TextItems
  BY <1>1, ScreenFits DEF Fits
<1>3. \/ /\ x = "Order ID" /\ y = "Order ID"
         /\ Cardinality(OidsUpTo(i)) = Cardinality(OidsUpTo(j))
      \/ \E group \in Groups : x \in group /\ y \in group
  BY <1>2, SameBuffer DEF NameOf
<1>4. CASE \E group \in Groups : x \in group /\ y \in group
  BY <1>4, OneInEachGroup
<1>5. CASE /\ x = "Order ID" /\ y = "Order ID"
           /\ Cardinality(OidsUpTo(i)) = Cardinality(OidsUpTo(j))
  <2>1. ~(i < j) /\ ~(j < i)
    BY <1>5, MoreOids
  <2>2. i \in Int /\ j \in Int
    BY ScreenFits, ListProperties
  <2> QED
    BY <2>1, <2>2
<1> QED
  BY <1>3, <1>4, <1>5

(* The name of a pair's text is none of the names of the messages, and the *)
(* buffer has the room of its item.                                        *)
OfAPair(name) == name \notin {<<"constant">>, <<"intent">>, <<"review_msg">>, <<"sign_msg">>}

LEMMA NameFacts ==
    ASSUME NEW x \in TextItems, NEW k
    PROVE  LET name == BufferOf(x, k)
           IN  /\ OfAPair(name)
               /\ name[1] = "oid" => x = "Order ID" /\ name[2] = k
               /\ BufferSize(batch.metadata.op_type, name) - 1 = Room(x)
<1>1. CASE x = "Operation"
  BY <1>1 DEF BufferOf, BufferSize, Room, OfAPair
<1>2. CASE x = "Active Position"
  BY <1>2 DEF BufferOf, BufferSize, Room, OfAPair
<1>3. CASE x = "Position to close"
  BY <1>3 DEF BufferOf, BufferSize, Room, OfAPair
<1>4. CASE x = "Margin"
  BY <1>4 DEF BufferOf, BufferSize, Room, OfAPair
<1>5. CASE x = "New Margin"
  BY <1>5 DEF BufferOf, BufferSize, Room, OfAPair
<1>6. CASE x = "Limit Price"
  BY <1>6 DEF BufferOf, BufferSize, Room, OfAPair
<1>7. CASE x = "Leverage"
  BY <1>7 DEF BufferOf, BufferSize, Room, OfAPair
<1>8. CASE x = "Take Profit"
  BY <1>8 DEF BufferOf, BufferSize, Room, OfAPair
<1>9. CASE x = "Stop Loss"
  BY <1>9 DEF BufferOf, BufferSize, Room, OfAPair
<1>10. CASE x = "TP Order ID"
  BY <1>10 DEF BufferOf, BufferSize, Room, OfAPair
<1>11. CASE x = "SL Order ID"
  BY <1>11 DEF BufferOf, BufferSize, Room, OfAPair
<1>12. CASE x = "Size"
  BY <1>12 DEF BufferOf, BufferSize, Room, OfAPair
<1>13. CASE x = "Order ID"
  BY <1>13 DEF BufferOf, BufferSize, Room, OfAPair
<1> QED
  BY <1>1, <1>2, <1>3, <1>4, <1>5, <1>6, <1>7, <1>8, <1>9, <1>10, <1>11, <1>12, <1>13 DEF TextItems

(* The buffer of a pair holds its text, and is within its array. *)
LEMMA NameOfFacts ==
    ASSUME Reviewed, NEW i \in 1..Len(PairsToShow), ~IsConstantText(PairsToShow[i])
    PROVE  /\ OfAPair(NameOf(i))
           /\ NameOf(i)[1] = "oid" => NameOf(i)[2] \in 1..BulkMaxSize
           /\ PairLength(PairsToShow[i]) \in Nat
           /\ PairLength(PairsToShow[i])
                  <= BufferSize(batch.metadata.op_type, NameOf(i)) - 1
<1> DEFINE x == PairsToShow[i][1]
           k == Cardinality(OidsUpTo(i))
<1>1. Fits(PairsToShow[i])
  BY ScreenFits, ListProperties
<1>2. x \in TextItems
  BY <1>1 DEF Fits
<1>3. /\ OfAPair(NameOf(i))
      /\ NameOf(i)[1] = "oid" => x = "Order ID" /\ NameOf(i)[2] = k
      /\ BufferSize(batch.metadata.op_type, NameOf(i)) - 1 = Room(x)
  BY <1>2, NameFacts DEF NameOf
<1>4. x = "Order ID" => k \in 1..BulkMaxSize
  BY OidsFit
<1> QED
  BY <1>1, <1>3, <1>4 DEF Fits

-----------------------------------------------------------------------------
(* The intents fit, and so do the messages made from them. *)

LEMMA ModifyIntent ==
    ASSUME batch.metadata.op_type = "MODIFY"
    PROVE  \/ Screen(batch.metadata, batch.actions).intent[1] = "Edit"
           \/ Screen(batch.metadata, batch.actions).intent[1] = "Set"
<1> DEFINE flow == UiModify(batch.metadata, batch.actions)
<1>1. flow.intent[1] = "Edit" \/ flow.intent[1] = "Set"
  BY DEF UiModify
<1> HIDE DEF flow
<1>2. Screen(batch.metadata, batch.actions).intent = flow.intent
  BY DEF Screen, flow
<1> QED
  BY <1>1, <1>2

(* No intent has more than 100 characters (op_*.c, ui_context.h:10-29). *)
LEMMA IntentFits ==
    ASSUME Reviewed
    PROVE  IntentLength \in Nat /\ IntentLength <= 100
<1> DEFINE op      == batch.metadata.op_type
           intent  == Screen(batch.metadata, batch.actions).intent
           rest    == TextLength(batch.metadata.ticker)
           edited  == TextLength(Target(intent[3], intent[4]))
           removed == TextLength(CancelTarget(op))
           length  == IntentLength
<1>1. rest \in Nat /\ rest <= 48
  BY ReviewedMetadata, TickerLength
<1>2. /\ edited \in Nat /\ edited <= 25
      /\ removed \in Nat /\ removed <= 25
  BY TargetLength DEF CancelTarget
<1>3. op = "MODIFY" => intent[1] = "Edit" \/ intent[1] = "Set"
  BY ModifyIntent
<1> HIDE DEF intent
<1>4. op = "ORDER" => length \in {4 + 1 + rest + 6, 4 + 6, 4 + 1 + rest + 12, 4 + 12}
  BY WordingAssumption DEF IntentLength, intent
<1>5. op = "MODIFY" => length \in {4 + 1 + rest + 1 + edited, 4 + 1 + edited,
                                   3 + 1 + rest + 1 + edited, 3 + 1 + edited}
  BY <1>3, WordingAssumption DEF IntentLength, intent
<1>6. op = "CLOSE" => length \in {5 + 1 + rest + 15, 5 + 15}
  BY WordingAssumption DEF IntentLength
<1>7. op = "UPDATE_MARGIN" => length \in {13 + 1 + rest + 6, 13 + 6, 18 + 1 + rest + 6, 18 + 6}
  BY WordingAssumption DEF IntentLength
<1>8. op = "CANCEL" => length \in {6 + 1 + rest + 6, 6 + 6}
  BY WordingAssumption DEF IntentLength
<1>9. op \notin {"ORDER", "MODIFY", "CLOSE", "UPDATE_MARGIN", "CANCEL"}
          => length \in {6 + 1 + rest + 1 + removed, 6 + 1 + removed}
  BY WordingAssumption DEF IntentLength
<1> HIDE DEF rest, edited, removed, length
<1>10. length \in Nat /\ length <= 100
  BY <1>1, <1>2, <1>4, <1>5, <1>6, <1>7, <1>8, <1>9
<1> QED
  BY <1>10 DEF length

(* Sizes are numbers. *)
LEMMA BufferSizes == ASSUME NEW op, NEW name PROVE BufferSize(op, name) \in Nat
BY DEF BufferSize, OperationSize, ASSET_TICKER_LENGTH, UINT32_STRING_LENGTH,
       NUMERIC_STRING_LENGTH, PRICE_STRING_LENGTH

(* What snprintf does with a text that fits *)
LEMMA Written ==
    ASSUME NEW name, NEW for, NEW length \in Nat,
           length <= BufferSize(batch.metadata.op_type, name) - 1,
           Snprintf(name, for, length)
    PROVE  /\ DOMAIN buffers' = DOMAIN buffers \cup {name}
           /\ buffers'[name] = [for |-> for, wanted |-> length, stored |-> length]
           /\ \A n \in DOMAIN buffers : n # name => buffers'[n] = buffers[n]
BY BufferSizes DEF Snprintf

(* A list with one more item *)
LEMMA Appended ==
    ASSUME NEW list, IsList(list), NEW item
    PROVE  /\ IsList(Append(list, item))
           /\ Len(Append(list, item)) = Len(list) + 1
           /\ \A i \in 1..Len(list) : Append(list, item)[i] = list[i]
           /\ Append(list, item)[Len(list) + 1] = item
<1> DEFINE S == Range(list) \cup {item}
<1>1. list \in Seq(S) /\ item \in S
  BY SeqMonotonic DEF IsList
<1> HIDE DEF S
<1>2. Append(list, item) \in Seq(S)
  BY <1>1, AppendProperties
<1>3. IsList(Append(list, item))
  BY <1>2, IsListOf
<1> QED
  BY <1>1, <1>3, AppendProperties

-----------------------------------------------------------------------------
(* The inductive invariant: the pairs laid out so far are the first of the *)
(* screen, each points at the text of the program or at its own buffer,    *)
(* and every text so far is whole (operation.c:46-65, op_*.c).             *)

IsLaid(i) ==
    /\ pairs[i].value = IF IsConstantText(PairsToShow[i]) THEN <<"constant">> ELSE NameOf(i)
    /\ ~IsConstantText(PairsToShow[i]) =>
           NameOf(i) \in DOMAIN buffers /\ buffers[NameOf(i)].for = i

PairsLaid ==
    /\ IsList(pairs)
    /\ Len(pairs) <= Len(PairsToShow)
    /\ \A i \in 1..Len(pairs) : IsLaid(i)

HasRoom(length) == length \in Nat /\ length <= 100

ShortIntent == <<"intent">> \in DOMAIN buffers => HasRoom(buffers[<<"intent">>].stored)

IntentComesFirst == <<"review_msg">> \in DOMAIN buffers => <<"intent">> \in DOMAIN buffers

LayoutInv == Reviewed /\ PairsLaid /\ NothingIsCut /\ ShortIntent /\ IntentComesFirst

(* A pair is read from its buffer, where no other pair is written. *)
LEMMA InitLayout == Init => LayoutInv
<1> SUFFICES ASSUME Init PROVE LayoutInv
  OBVIOUS
<1>1. Reviewed
  BY BatchesAssumption DEF Init, Reviewed
<1>2. IsList(<<>>) /\ Len(<<>>) = 0
  BY DEF IsList
<1>3. Len(PairsToShow) \in Nat
  BY <1>1, ScreenFits, ListProperties
<1>4. PairsLaid
  <2>1. pairs = <<>>
    BY DEF Init
  <2>2. IsList(pairs) /\ Len(pairs) = 0
    BY <1>2, <2>1
  <2> QED
    BY <1>3, <2>2 DEF PairsLaid
<1>5. NothingIsCut /\ ShortIntent /\ IntentComesFirst
  BY DEF Init, NothingIsCut, ShortIntent, IntentComesFirst
<1> QED
  BY <1>1, <1>4, <1>5 DEF LayoutInv

(* What a step leaves alone *)
LEMMA SameBatch ==
    ASSUME batch' = batch
    PROVE  /\ Reviewed' = Reviewed
           /\ PairsToShow' = PairsToShow
           /\ \A i : NameOf(i)' = NameOf(i)
<1>1. PairsToShow' = PairsToShow
  BY DEF PairsToShow
<1>2. ASSUME NEW i PROVE NameOf(i)' = NameOf(i)
  <2>1. OidsUpTo(i)' = OidsUpTo(i)
    BY <1>1 DEF OidsUpTo
  <2> QED
    BY <1>1, <2>1 DEF NameOf
<1>3. Reviewed' = Reviewed
  BY DEF Reviewed, IsReviewable
<1> QED
  BY <1>1, <1>2, <1>3

(* Writing a text that fits keeps every text whole. *)
LEMMA WrittenIsWhole ==
    ASSUME NothingIsCut, NEW name, NEW length,
           DOMAIN buffers' = DOMAIN buffers \cup {name},
           buffers'[name].wanted = length, buffers'[name].stored = length,
           \A n \in DOMAIN buffers : n # name => buffers'[n] = buffers[n]
    PROVE  NothingIsCut'
BY DEF NothingIsCut

(* Writing another text leaves the pairs where they are. *)
LEMMA StillLaid ==
    ASSUME Reviewed, PairsLaid, batch' = batch, NEW name,
           \A n \in DOMAIN buffers :
               n \in DOMAIN buffers' /\ (n # name => buffers'[n] = buffers[n]),
           NEW i \in 1..Len(pairs), pairs'[i] = pairs[i],
           ~IsConstantText(PairsToShow[i]) => NameOf(i) # name
    PROVE  IsLaid(i)'
<1>1. IsLaid(i)
  BY DEF PairsLaid
<1>2. PairsToShow' = PairsToShow /\ NameOf(i)' = NameOf(i)
  BY SameBatch
<1>3. IsConstantText(PairsToShow[i])' <=> IsConstantText(PairsToShow[i])
  BY <1>2
<1> QED
  BY <1>1, <1>2, <1>3 DEF IsLaid

(* A pair is added at the end. *)
LEMMA AddedPair ==
    ASSUME Reviewed, PairsLaid, batch' = batch, Len(pairs) < Len(PairsToShow),
           NEW next, next = Len(pairs) + 1,
           NEW item, pairs' = Append(pairs, item),
           \A i \in 1..Len(pairs) : pairs'[i] = pairs[i] => IsLaid(i)',
           pairs'[next] = item => IsLaid(next)'
    PROVE  PairsLaid'
<1>1. PairsToShow' = PairsToShow
  BY SameBatch
<1>2. IsList(pairs) /\ Len(pairs) \in Nat
  BY ListProperties DEF PairsLaid
<1>3. /\ IsList(pairs') /\ Len(pairs') = next
      /\ \A i \in 1..Len(pairs) : pairs'[i] = pairs[i]
      /\ pairs'[next] = item
  BY <1>2, Appended
<1>4. Len(PairsToShow) \in Nat
  BY ScreenFits, ListProperties
<1>5. Len(pairs') <= Len(PairsToShow)'
  BY <1>1, <1>2, <1>3, <1>4
<1>6. \A i \in 1..Len(pairs)' : i \in 1..Len(pairs) \/ i = next
  BY <1>2, <1>3
<1>7. \A i \in 1..Len(pairs)' : IsLaid(i)'
  BY <1>3, <1>6
<1> QED
  BY <1>3, <1>5, <1>7 DEF PairsLaid

(* One lemma per action *)
LEMMA AddConstantPairLayout ==
    ASSUME LayoutInv, AddConstantPair
    PROVE  LayoutInv'
<1>1. PICK next : next = Len(pairs) + 1
  OBVIOUS
<1> DEFINE pair == PairsToShow[next]
           item == [item |-> pair[1], value |-> <<"constant">>]
<1>2. Reviewed /\ PairsLaid /\ NothingIsCut /\ ShortIntent /\ IntentComesFirst
  BY DEF LayoutInv
<1>3. /\ Len(pairs) < Len(PairsToShow) /\ IsConstantText(pair)
      /\ pairs' = Append(pairs, item)
      /\ batch' = batch /\ buffers' = buffers
  BY <1>1 DEF AddConstantPair
<1>4. Reviewed' /\ PairsToShow' = PairsToShow
  BY <1>2, <1>3, SameBatch
<1>5. NothingIsCut' /\ ShortIntent' /\ IntentComesFirst'
  BY <1>2, <1>3 DEF NothingIsCut, ShortIntent, IntentComesFirst
<1>6. ASSUME NEW i \in 1..Len(pairs), pairs'[i] = pairs[i] PROVE IsLaid(i)'
  <2>1. IsLaid(i)
    BY <1>2 DEF PairsLaid
  <2>2. NameOf(i)' = NameOf(i)
    BY <1>3, SameBatch
  <2> QED
    BY <1>3, <1>4, <1>6, <2>1, <2>2 DEF IsLaid, IsConstantText
<1>7. ASSUME pairs'[next] = item PROVE IsLaid(next)'
  <2>1. IsConstantText(PairsToShow[next])'
    BY <1>3, <1>4 DEF IsConstantText
  <2>2. pairs'[next].value = <<"constant">>
    BY <1>7
  <2> QED
    BY <2>1, <2>2 DEF IsLaid
<1> HIDE DEF item
<1>8. PairsLaid'
  BY <1>1, <1>2, <1>3, <1>6, <1>7, AddedPair
<1> QED
  BY <1>4, <1>5, <1>8 DEF LayoutInv

LEMMA AddPairLayout ==
    ASSUME LayoutInv, AddPair
    PROVE  LayoutInv'
<1>1. PICK next : next = Len(pairs) + 1
  OBVIOUS
<1> DEFINE pair == PairsToShow[next]
           size == BufferSize(batch.metadata.op_type, NameOf(next))
           length == PairLength(pair)
<1>2. Reviewed /\ PairsLaid /\ NothingIsCut /\ ShortIntent /\ IntentComesFirst
  BY DEF LayoutInv
<1>3. PICK name : name = NameOf(next)
  OBVIOUS
<1> DEFINE item == [item |-> pair[1], value |-> name]
<1>4. /\ Len(pairs) < Len(PairsToShow) /\ ~IsConstantText(pair)
      /\ Snprintf(name, next, length)
      /\ pairs' = Append(pairs, item)
      /\ batch' = batch
  BY <1>1, <1>3 DEF AddPair
<1>5. Reviewed' /\ PairsToShow' = PairsToShow /\ \A i : NameOf(i)' = NameOf(i)
  BY <1>2, <1>4, SameBatch
<1>6. IsList(pairs) /\ Len(pairs) \in Nat /\ Len(PairsToShow) \in Nat
  BY <1>2, ScreenFits, ListProperties DEF PairsLaid
<1>7. next \in 1..Len(PairsToShow) /\ \A i \in 1..Len(pairs) : i \in 1..Len(PairsToShow) /\ i # next
  BY <1>1, <1>4, <1>6
<1>8. OfAPair(name) /\ length \in Nat /\ length <= size - 1
  BY <1>2, <1>3, <1>4, <1>7, NameOfFacts
<1>9. /\ DOMAIN buffers' = DOMAIN buffers \cup {name}
      /\ buffers'[name] = [for |-> next, wanted |-> length, stored |-> length]
      /\ \A n \in DOMAIN buffers : n # name => buffers'[n] = buffers[n]
  BY <1>3, <1>4, <1>8, Written
<1>10. /\ buffers'[name].for = next
       /\ buffers'[name].wanted = length /\ buffers'[name].stored = length
  BY <1>9
<1>11. NothingIsCut'
  BY <1>2, <1>9, <1>10, WrittenIsWhole
<1>12. ShortIntent' /\ IntentComesFirst'
  <2>1. <<"intent">> # name /\ <<"review_msg">> # name
    BY <1>8 DEF OfAPair
  <2> QED
    BY <1>2, <1>9, <2>1 DEF ShortIntent, IntentComesFirst
<1>13. ASSUME NEW i \in 1..Len(pairs), pairs'[i] = pairs[i] PROVE IsLaid(i)'
  <2>1. ~IsConstantText(PairsToShow[i]) => NameOf(i) # name
    BY <1>2, <1>3, <1>4, <1>7, NamesDiffer
  <2>2. \A n \in DOMAIN buffers :
            n \in DOMAIN buffers' /\ (n # name => buffers'[n] = buffers[n])
    BY <1>9
  <2> QED
    BY <1>2, <1>4, <1>13, <2>1, <2>2, StillLaid
<1>14. ASSUME pairs'[next] = item PROVE IsLaid(next)'
  <2>1. ~IsConstantText(PairsToShow[next])'
    BY <1>4, <1>5 DEF IsConstantText
  <2>2. pairs'[next].value = name
    BY <1>14
  <2>3. NameOf(next)' = name
    BY <1>3, <1>5
  <2> QED
    BY <1>9, <1>10, <2>1, <2>2, <2>3 DEF IsLaid
<1> HIDE DEF item
<1>15. PairsLaid'
  BY <1>1, <1>2, <1>4, <1>13, <1>14, AddedPair
<1> QED
  BY <1>5, <1>11, <1>12, <1>15 DEF LayoutInv

(* The messages leave the pairs alone, and fit with the longest intent. *)
LEMMA MessageLayout ==
    ASSUME LayoutInv, NEW name, ~OfAPair(name), NEW length \in Nat,
           length <= BufferSize(batch.metadata.op_type, name) - 1,
           Snprintf(name, 0, length), batch' = batch, pairs' = pairs,
           name = <<"intent">> => HasRoom(length),
           name # <<"intent">> => <<"intent">> \in DOMAIN buffers
    PROVE  LayoutInv'
<1>1. Reviewed /\ PairsLaid /\ NothingIsCut /\ ShortIntent /\ IntentComesFirst
  BY DEF LayoutInv
<1>2. /\ DOMAIN buffers' = DOMAIN buffers \cup {name}
      /\ buffers'[name] = [for |-> 0, wanted |-> length, stored |-> length]
      /\ \A n \in DOMAIN buffers : n # name => buffers'[n] = buffers[n]
  BY Written
<1>3. buffers'[name].wanted = length /\ buffers'[name].stored = length
  BY <1>2
<1>4. NothingIsCut'
  BY <1>1, <1>2, <1>3, WrittenIsWhole
<1>5. ShortIntent' /\ IntentComesFirst'
  BY <1>1, <1>2, <1>3 DEF ShortIntent, IntentComesFirst
<1>6. Reviewed' /\ PairsToShow' = PairsToShow
  BY <1>1, SameBatch
<1>7. \A i \in 1..Len(pairs) : i \in 1..Len(PairsToShow)
  BY <1>1, ScreenFits, ListProperties DEF PairsLaid
<1>8. ASSUME NEW i \in 1..Len(pairs) PROVE IsLaid(i)'
  <2>1. ~IsConstantText(PairsToShow[i]) => NameOf(i) # name
    BY <1>1, <1>7, NameOfFacts
  <2>2. \A n \in DOMAIN buffers :
            n \in DOMAIN buffers' /\ (n # name => buffers'[n] = buffers[n])
    BY <1>2
  <2> QED
    BY <1>1, <2>1, <2>2, StillLaid
<1>9. PairsLaid'
  BY <1>1, <1>6, <1>8 DEF PairsLaid
<1> QED
  BY <1>4, <1>5, <1>6, <1>9 DEF LayoutInv

LEMMA WriteIntentLayout ==
    ASSUME LayoutInv, WriteIntent
    PROVE  LayoutInv'
<1> DEFINE length == IntentLength
<1>1. length \in Nat /\ length <= 100
  BY IntentFits DEF LayoutInv
<1>2. Snprintf(<<"intent">>, 0, length) /\ batch' = batch /\ pairs' = pairs
  BY DEF WriteIntent
<1>3. BufferSize(batch.metadata.op_type, <<"intent">>) = 101
  BY MessageSizes
<1> HIDE DEF length
<1>4. length <= BufferSize(batch.metadata.op_type, <<"intent">>) - 1
  BY <1>1, <1>3
<1>5. ~OfAPair(<<"intent">>)
  BY DEF OfAPair
<1> QED
  BY <1>1, <1>2, <1>4, <1>5, MessageLayout DEF HasRoom

LEMMA WriteReviewMessageLayout ==
    ASSUME LayoutInv, WriteReviewMessage
    PROVE  LayoutInv'
<1> DEFINE before == TextLength("Review message to ")
           stored == buffers[<<"intent">>].stored
           length == before + stored
           size   == BufferSize(batch.metadata.op_type, <<"review_msg">>)
<1>1. <<"intent">> \in DOMAIN buffers /\ stored \in Nat /\ stored <= 100
  BY DEF LayoutInv, ShortIntent, HasRoom, WriteReviewMessage
<1>2. Snprintf(<<"review_msg">>, 0, length) /\ batch' = batch /\ pairs' = pairs
  BY DEF WriteReviewMessage
<1>3. size = 129
  BY MessageSizes
<1>4. before = 18
  BY WordingAssumption
<1>5. ~OfAPair(<<"review_msg">>) /\ <<"review_msg">> # <<"intent">>
  BY DEF OfAPair
<1> HIDE DEF before, stored, size
<1>6. length \in Nat /\ length <= size - 1
  BY <1>1, <1>3, <1>4
<1> HIDE DEF length
<1> QED
  BY <1>1, <1>2, <1>5, <1>6, MessageLayout DEF size

LEMMA WriteSignMessageLayout ==
    ASSUME LayoutInv, WriteSignMessage
    PROVE  LayoutInv'
<1> DEFINE before == TextLength("Sign message to ")
           after  == TextLength("?")
           stored == buffers[<<"intent">>].stored
           length == before + stored + after
           size   == BufferSize(batch.metadata.op_type, <<"sign_msg">>)
<1>1. <<"intent">> \in DOMAIN buffers /\ stored \in Nat /\ stored <= 100
  BY DEF LayoutInv, ShortIntent, IntentComesFirst, HasRoom, WriteSignMessage
<1>2. Snprintf(<<"sign_msg">>, 0, length) /\ batch' = batch /\ pairs' = pairs
  BY DEF WriteSignMessage
<1>3. size = 129
  BY MessageSizes
<1>4. before = 16 /\ after = 1
  BY WordingAssumption
<1>5. ~OfAPair(<<"sign_msg">>) /\ <<"sign_msg">> # <<"intent">>
  BY DEF OfAPair
<1> HIDE DEF before, after, stored, size
<1>6. length \in Nat /\ length <= size - 1
  BY <1>1, <1>3, <1>4
<1> HIDE DEF length
<1> QED
  BY <1>1, <1>2, <1>5, <1>6, MessageLayout DEF size

(* What is laid out is always laid out right. *)
LEMMA LayoutInvariant == Spec => []LayoutInv
<1>1. Init => LayoutInv
  BY InitLayout
<1>2. LayoutInv /\ [Next]_vars => LayoutInv'
  <2> SUFFICES ASSUME LayoutInv, [Next]_vars PROVE LayoutInv'
    OBVIOUS
  <2>1. CASE AddConstantPair
    BY <2>1, AddConstantPairLayout
  <2>2. CASE AddPair
    BY <2>2, AddPairLayout
  <2>3. CASE WriteIntent
    BY <2>3, WriteIntentLayout
  <2>4. CASE WriteReviewMessage
    BY <2>4, WriteReviewMessageLayout
  <2>5. CASE WriteSignMessage
    BY <2>5, WriteSignMessageLayout
  <2>6. CASE UNCHANGED vars
    <3>1. batch' = batch /\ pairs' = pairs /\ buffers' = buffers
      BY <2>6 DEF vars
    <3>2. Reviewed' /\ PairsToShow' = PairsToShow /\ \A i : NameOf(i)' = NameOf(i)
      BY <3>1, SameBatch DEF LayoutInv
    <3>3. PairsLaid'
      BY <3>1, <3>2 DEF LayoutInv, PairsLaid, IsLaid, IsConstantText
    <3> QED
      BY <3>1, <3>2, <3>3
         DEF LayoutInv, NothingIsCut, ShortIntent, IntentComesFirst
  <2> QED
    BY <2>1, <2>2, <2>3, <2>4, <2>5, <2>6 DEF Next
<1> QED
  BY <1>1, <1>2, PTL DEF Spec

(* No ticker, price, size, order id, intent or message is cut, whatever    *)
(* the batch, on either kind of device: each buffer has room for the       *)
(* longest text the parsers and the C types let through                    *)
(* (op_modify.c:129-225, operation.c:46-52).                               *)
THEOREM NoTextIsCut == Spec => []NothingIsCut
<1>1. LayoutInv => NothingIsCut
  BY DEF LayoutInv
<1> QED
  BY <1>1, LayoutInvariant, PTL

(* No pair is overwritten: two pairs of a screen never have the same       *)
(* buffer, or the same order id slot (op_modify.c:131-197).                *)
THEOREM NoTextIsOverwritten == Spec => []PairsKeepTheirTexts
<1>1. LayoutInv => PairsKeepTheirTexts
  <2> SUFFICES ASSUME LayoutInv, NEW i \in DOMAIN pairs, pairs[i].value # <<"constant">>
               PROVE  buffers[pairs[i].value].for = i
    BY DEF PairsKeepTheirTexts
  <2>1. i \in 1..Len(pairs)
    BY ListProperties DEF LayoutInv, PairsLaid
  <2>2. IsLaid(i)
    BY <2>1 DEF LayoutInv, PairsLaid
  <2> QED
    BY <2>2 DEF IsLaid
<1> QED
  BY <1>1, LayoutInvariant, PTL

(* The arrays hold every screen: handle_ui accepts no batch with more than *)
(* MAX_UI_PAIRS pairs or more order ids than the array has                 *)
(* (ui_context.h:12-15, op_cancel.c:9-18).                                 *)
THEOREM ArraysHoldEveryScreen == Spec => []PairsFit
<1>1. LayoutInv => PairsFit
  <2> SUFFICES ASSUME LayoutInv PROVE PairsFit
    OBVIOUS
  <2>1. Reviewed /\ PairsLaid
    BY DEF LayoutInv
  <2>2. Len(pairs) \in Nat /\ DOMAIN pairs = 1..Len(pairs)
    BY <2>1, ListProperties DEF PairsLaid
  <2>3. Len(PairsToShow) \in Nat /\ Len(PairsToShow) <= MAX_UI_PAIRS
    BY <2>1, ScreenLength
  <2>4. Len(pairs) <= Len(PairsToShow)
    BY <2>1 DEF PairsLaid
  <2>5. Len(pairs) <= MAX_UI_PAIRS
    BY <2>2, <2>3, <2>4 DEF MAX_UI_PAIRS
  <2>6. ASSUME NEW i \in DOMAIN pairs, pairs[i].value[1] = "oid"
        PROVE  pairs[i].value[2] \in 1..BulkMaxSize
    <3>1. i \in 1..Len(pairs) /\ i \in 1..Len(PairsToShow)
      BY <2>2, <2>3, <2>4
    <3>2. IsLaid(i)
      BY <2>1, <3>1 DEF PairsLaid
    <3>3. CASE IsConstantText(PairsToShow[i])
      BY <2>6, <3>2, <3>3 DEF IsLaid
    <3>4. CASE ~IsConstantText(PairsToShow[i])
      BY <2>1, <2>6, <3>1, <3>2, <3>4, NameOfFacts DEF IsLaid
    <3> QED
      BY <3>3, <3>4
  <2> QED
    BY <2>5, <2>6 DEF PairsFit
<1> QED
  BY <1>1, LayoutInvariant, PTL
=============================================================================
