------------------------ MODULE ReviewBatchesProofs ------------------------
(***************************************************************************)
(* Proofs about ReviewBatches: for every metadata and every set of actions *)
(* the parsers let through, the screen leaves no request out and says what *)
(* the batch does.                                                         *)
(***************************************************************************)
EXTENDS ReviewBatches, HlReviewProofs

-----------------------------------------------------------------------------
(* The batches of a session *)

(* Every action fits the operation, no type occurs twice and a MODIFY has  *)
(* one action.                                                             *)
IsBatch(batch) ==
    /\ batch \in Seq(Actions)
    /\ \A i \in 1..Len(batch) : batch[i].type \in TypesOf(metadata.op_type)
    /\ \A i, j \in 1..Len(batch) : batch[i].type = batch[j].type => i = j
    /\ metadata.op_type = "MODIFY" => Len(batch) <= 1

Inv == metadata \in Metadata /\ IsBatch(actions)

LEMMA InvInit == Init => Inv
BY DEF Init, Inv, IsBatch

LEMMA InvStep == Inv /\ [Next]_vars => Inv'
<1> SUFFICES ASSUME Inv, [Next]_vars
             PROVE  Inv'
  OBVIOUS
<1>1. CASE UNCHANGED vars
  BY <1>1 DEF Inv, IsBatch, vars
<1>2. CASE Next
  <2>1. PICK action \in Actions : QueueAction(action)
    BY <1>2 DEF Next
  <2>2. /\ actions' = Append(actions, action)
        /\ metadata' = metadata
        /\ action.type \in TypesOf(metadata.op_type)
        /\ ~CtxHasAction(actions, action.type)
        /\ metadata.op_type = "MODIFY" => /\ ~CtxHasAction(actions, "BULK_MODIFY")
                                          /\ ~CtxHasAction(actions, "BULK_ORDER")
    BY <2>1 DEF QueueAction, CtxPushAction, AcceptsAction, IsActionCompatible, CtxCanPush
  <2>3. actions \in Seq(Actions) /\ Len(actions) \in Nat /\ DOMAIN actions = 1..Len(actions)
    BY LenProperties DEF Inv, IsBatch
  <2>4. /\ actions' \in Seq(Actions)
        /\ Len(actions') = Len(actions) + 1
        /\ \A i \in 1..Len(actions) : actions'[i] = actions[i]
        /\ actions'[Len(actions) + 1] = action
    BY <2>2, <2>3, AppendProperties
  <2>5. ASSUME NEW i \in 1..Len(actions') PROVE i \in 1..Len(actions) \/ i = Len(actions) + 1
    BY <2>3, <2>4
  <2>6. \A i \in 1..Len(actions') : actions'[i].type \in TypesOf(metadata.op_type)
    BY <2>2, <2>4, <2>5 DEF Inv, IsBatch
  <2>7. \A i \in 1..Len(actions) : actions[i].type # action.type
    BY <2>2, <2>3 DEF CtxHasAction
  <2>8. \A i, j \in 1..Len(actions') : actions'[i].type = actions'[j].type => i = j
    BY <2>4, <2>5, <2>7 DEF Inv, IsBatch
  <2>9. ASSUME metadata.op_type = "MODIFY" PROVE Len(actions') <= 1
    <3>1. TypesOf(metadata.op_type) = {"BULK_MODIFY", "BULK_ORDER"}
      BY <2>9 DEF TypesOf
    <3>2. \A i \in 1..Len(actions) : FALSE
      BY <2>2, <2>3, <2>9, <3>1 DEF Inv, IsBatch, CtxHasAction
    <3>3. Len(actions) = 0
      BY <2>3, <3>2
    <3> QED
      BY <2>4, <3>3
  <2> QED
    BY <2>2, <2>4, <2>6, <2>8, <2>9 DEF Inv, IsBatch
<1> QED
  BY <1>1, <1>2

(* A batch is always one of accepted actions. *)
LEMMA InvAlways == Spec => []Inv
BY InvInit, InvStep, PTL DEF Spec

(* ctx_get_action finds the one action of its type. *)
LEMMA GetAction ==
    ASSUME NEW batch, IsBatch(batch), NEW i \in 1..Len(batch)
    PROVE  CtxGetAction(batch, batch[i].type) = batch[i]
<1> DEFINE found == {j \in DOMAIN batch : batch[j].type = batch[i].type}
<1>1. Len(batch) \in Nat /\ DOMAIN batch = 1..Len(batch)
  BY LenProperties DEF IsBatch
<1>2. found = {i}
  BY <1>1 DEF IsBatch
<1>3. (CHOOSE k \in found : \A j \in found : k <= j) = i
  BY <1>1, <1>2
<1> QED
  BY <1>3 DEF CtxGetAction

(* What a batch has of a type is one of the actions the host may send. *)
LEMMA HasAction ==
    ASSUME NEW batch, IsBatch(batch), NEW type, CtxHasAction(batch, type)
    PROVE  \E i \in 1..Len(batch) :
               /\ batch[i].type = type
               /\ batch[i] \in Actions
               /\ CtxGetAction(batch, type) = batch[i]
<1>1. Len(batch) \in Nat /\ DOMAIN batch = 1..Len(batch) /\ batch \in Seq(Actions)
  BY LenProperties DEF IsBatch
<1>2. PICK i \in 1..Len(batch) : batch[i].type = type
  BY <1>1 DEF CtxHasAction
<1>3. batch[i] \in Actions
  BY <1>1
<1> QED
  BY <1>2, <1>3, GetAction

-----------------------------------------------------------------------------
(* Every request of the head action is shown. *)

LEMMA OrderRequests ==
    ASSUME NEW batch, IsBatch(batch), metadata.op_type = "ORDER", UiOrderAccepts(batch)
    PROVE  LET pairs == UiOrder(metadata, batch).pairs
           IN  /\ IsList(pairs)
               /\ Count(pairs, {"Size", "Take Profit", "Stop Loss"}) = Len(OrdersOf(batch))
<1> DEFINE orders == OrdersOf(batch)
           tps    == TpsIn(orders)
           sls    == SlsIn(orders)
           items  == {"Size", "Take Profit", "Stop Loss"}
           pairs  == UiOrder(metadata, batch).pairs
<1>1. IsList(orders)
  BY HasAction, ActionsAssumption DEF UiOrderAccepts, OrdersOf
<1>2. /\ Cardinality(tps) <= 1 /\ Cardinality(sls) <= 1
      /\ Len(orders) = 1 + Cardinality(tps) + Cardinality(sls)
  BY DEF UiOrderAccepts
<1>3. /\ Cardinality(tps) = (IF tps # {} THEN 1 ELSE 0)
      /\ Cardinality(sls) = (IF sls # {} THEN 1 ELSE 0)
  BY <1>1, <1>2, KindsFinite, AtMostOne
<1>4. /\ One("Operation", items) = 0 /\ One("Limit Price", items) = 0
      /\ One("Margin", items) = 0 /\ One("Leverage", items) = 0
      /\ One("Take Profit", items) = 1 /\ One("Stop Loss", items) = 1
      /\ One("Size", items) = 1
  BY DEF One
<1> DEFINE market == FirstOf(orders, LimitsIn(orders)).limit.tif = "IOC"
           levers == CtxHasAction(batch, "UPDATE_LEVERAGE")
<1> HIDE DEF items
<1>5. /\ IsList(pairs)
      /\ Count(pairs, items) =
             One("Operation", items)
             + (IF ~market THEN One("Limit Price", items) ELSE 0)
             + (IF metadata.has_margin THEN One("Margin", items) ELSE 0)
             + (IF levers THEN One("Leverage", items) ELSE 0)
             + (IF tps # {} THEN One("Take Profit", items) ELSE 0)
             + (IF sls # {} THEN One("Stop Loss", items) ELSE 0)
             + One("Size", items)
  <2>1. IsList(pairs) /\ Count(pairs, items) = OrderTally(metadata, batch, items)
    BY OrderPairs
  <2> QED
    BY <2>1, Zenon DEF OrderTally
<1> HIDE DEF orders, tps, sls, pairs, market, levers
<1>a. /\ (IF ~market THEN One("Limit Price", items) ELSE 0) = 0
      /\ (IF metadata.has_margin THEN One("Margin", items) ELSE 0) = 0
      /\ (IF levers THEN One("Leverage", items) ELSE 0) = 0
  BY <1>4
<1>b. /\ (IF tps # {} THEN One("Take Profit", items) ELSE 0) = Cardinality(tps)
      /\ (IF sls # {} THEN One("Stop Loss", items) ELSE 0) = Cardinality(sls)
  BY <1>3, <1>4
<1>6. Count(pairs, items) = 0 + 0 + 0 + 0 + Cardinality(tps) + Cardinality(sls) + 1
  BY <1>4, <1>5, <1>a, <1>b
<1>7. Count(pairs, items) = Len(orders)
  BY <1>2, <1>3, <1>6
<1> QED
  BY <1>5, <1>7 DEF items, pairs, orders

(* The requests of an edit, whichever of the two actions they come from *)
LEMMA EditRequests ==
    ASSUME NEW batch, IsBatch(batch), UiModifyAccepts(batch)
    PROVE  LET requests == ModifyRequests(batch)
               orders   == OrdersIn(requests)
           IN  /\ IsList(requests)
               /\ IsList(orders)
               /\ Len(orders) = Len(requests)
               /\ \A i \in 1..Len(requests) : orders[i] = requests[i].order
               /\ \A i \in 1..Len(requests) : IsOrder(orders[i])
               /\ ~CtxHasAction(batch, "BULK_MODIFY") =>
                      /\ Len(OrdersOf(batch)) = Len(requests)
                      /\ \A i \in 1..Len(requests) : requests[i].oid = 0
<1> DEFINE requests == ModifyRequests(batch)
           orders   == OrdersIn(requests)
<1>1. ASSUME CtxHasAction(batch, "BULK_MODIFY")
      PROVE  IsList(requests) /\ \A i \in 1..Len(requests) : IsOrder(requests[i].order)
  <2>1. PICK k \in 1..Len(batch) :
            /\ batch[k].type = "BULK_MODIFY"
            /\ batch[k] \in Actions
            /\ CtxGetAction(batch, "BULK_MODIFY") = batch[k]
    BY <1>1, HasAction
  <2>2. requests = batch[k].body.modifies
    BY <1>1, <2>1 DEF ModifyRequests
  <2>3. IsList(requests) /\ \A modify \in Range(requests) : IsOrder(modify.order)
    BY <2>1, <2>2, ActionsAssumption
  <2> HIDE DEF requests
  <2> QED
    BY <2>3, ListProperties
<1>2. ASSUME ~CtxHasAction(batch, "BULK_MODIFY")
      PROVE  /\ IsList(requests)
             /\ Len(OrdersOf(batch)) = Len(requests)
             /\ \A i \in 1..Len(requests) : IsOrder(requests[i].order) /\ requests[i].oid = 0
  <2> DEFINE given == OrdersOf(batch)
  <2>1. PICK k \in 1..Len(batch) :
            /\ batch[k].type = "BULK_ORDER"
            /\ batch[k] \in Actions
            /\ CtxGetAction(batch, "BULK_ORDER") = batch[k]
    BY <1>2, HasAction DEF UiModifyAccepts
  <2>2. IsList(given) /\ \A order \in Range(given) : IsOrder(order)
    BY <2>1, ActionsAssumption DEF OrdersOf
  <2>3. requests = [i \in DOMAIN given |-> [oid |-> 0, order |-> given[i]]]
    BY <1>2 DEF ModifyRequests
  <2> HIDE DEF given, requests
  <2>4. IsList(requests) /\ Len(requests) = Len(given)
    <3>1. requests = [i \in DOMAIN given |-> requests[i]]
      BY <2>3
    <3> QED
      BY <2>2, <3>1, Mapped
  <2>5. ASSUME NEW i \in 1..Len(requests)
        PROVE  IsOrder(requests[i].order) /\ requests[i].oid = 0
    <3>1. i \in DOMAIN given /\ given[i] \in Range(given)
      BY <2>2, <2>4, ListProperties
    <3> QED
      BY <2>2, <2>3, <3>1
  <2> QED
    BY <2>4, <2>5 DEF given
<1> HIDE DEF requests
<1>3. IsList(requests)
  BY <1>1, <1>2
<1>4. orders = [i \in DOMAIN requests |-> orders[i]]
  BY DEF OrdersIn
<1>5. IsList(orders) /\ Len(orders) = Len(requests)
  BY <1>3, <1>4, Mapped
<1>6. \A i \in 1..Len(requests) : orders[i] = requests[i].order
  BY <1>3, ListProperties DEF OrdersIn
<1> HIDE DEF orders
<1> QED
  BY <1>1, <1>2, <1>3, <1>5, <1>6 DEF orders, requests

(* Every trigger of a modification (op_modify.c:74-128) *)
LEMMA ModifyRequestsShown ==
    ASSUME NEW batch, IsBatch(batch), UiModifyAccepts(batch)
    PROVE  LET pairs == UiModify(metadata, batch).pairs
           IN  /\ IsList(pairs)
               /\ Count(pairs, {"Take Profit", "Stop Loss"}) = Len(ModifyRequests(batch))
<1> DEFINE edits    == CtxHasAction(batch, "BULK_MODIFY")
           requests == ModifyRequests(batch)
           orders   == OrdersIn(requests)
           tps      == TpsIn(orders)
           sls      == SlsIn(orders)
           items    == {"Take Profit", "Stop Loss"}
           pairs    == UiModify(metadata, batch).pairs
<1>1. IsList(orders) /\ Len(orders) = Len(requests)
  BY EditRequests
<1>2. /\ Cardinality(tps) <= 1 /\ Cardinality(sls) <= 1
      /\ Len(orders) = Cardinality(tps) + Cardinality(sls)
  BY DEF UiModifyAccepts
<1>3. /\ Cardinality(tps) = (IF tps # {} THEN 1 ELSE 0)
      /\ Cardinality(sls) = (IF sls # {} THEN 1 ELSE 0)
  BY <1>1, <1>2, KindsFinite, AtMostOne
<1>4. /\ One("Active Position", items) = 0 /\ One("Margin", items) = 0
      /\ One("Leverage", items) = 0 /\ One("Size", items) = 0
      /\ One("TP Order ID", items) = 0 /\ One("SL Order ID", items) = 0
      /\ One("Take Profit", items) = 1 /\ One("Stop Loss", items) = 1
  BY DEF One
<1> HIDE DEF items
<1>l. IsList(pairs)
  BY ModifyPairs
<1>5. Count(pairs, items) =
             One("Active Position", items)
             + (IF metadata.has_margin THEN One("Margin", items) ELSE 0)
             + (IF metadata.has_leverage THEN One("Leverage", items) ELSE 0)
             + One("Size", items)
             + (IF tps # {} THEN One("Take Profit", items) ELSE 0)
             + (IF tps # {} /\ edits THEN One("TP Order ID", items) ELSE 0)
             + (IF sls # {} THEN One("Stop Loss", items) ELSE 0)
             + (IF sls # {} /\ edits THEN One("SL Order ID", items) ELSE 0)
  <2>1. Count(pairs, items) = ModifyTally(metadata, batch, items)
    BY ModifyPairs
  <2> QED
    BY <2>1, Zenon DEF ModifyTally
<1> HIDE DEF edits, requests, orders, tps, sls, pairs
<1>6. /\ (IF metadata.has_margin THEN One("Margin", items) ELSE 0) = 0
      /\ (IF metadata.has_leverage THEN One("Leverage", items) ELSE 0) = 0
      /\ (IF tps # {} /\ edits THEN One("TP Order ID", items) ELSE 0) = 0
      /\ (IF sls # {} /\ edits THEN One("SL Order ID", items) ELSE 0) = 0
  BY <1>4
<1>7. /\ (IF tps # {} THEN One("Take Profit", items) ELSE 0) = Cardinality(tps)
      /\ (IF sls # {} THEN One("Stop Loss", items) ELSE 0) = Cardinality(sls)
  BY <1>3, <1>4
<1>8. Cardinality(tps) \in Nat /\ Cardinality(sls) \in Nat
  BY <1>3
<1>9. Count(pairs, items) = 0 + 0 + 0 + 0 + Cardinality(tps) + 0 + Cardinality(sls) + 0
  BY <1>4, <1>5, <1>6, <1>7
<1>10. Count(pairs, items) = Len(requests)
  BY <1>1, <1>2, <1>8, <1>9
<1> QED
  BY <1>l, <1>10 DEF items, pairs, requests

(* The order of a closing (op_close.c:16-28) *)
LEMMA CloseRequestsShown ==
    ASSUME NEW batch
    PROVE  LET pairs == UiClose(metadata, batch).pairs
           IN  /\ IsList(pairs)
               /\ Count(pairs, {"Size", "Take Profit", "Stop Loss"}) = 1
<1> DEFINE items == {"Size", "Take Profit", "Stop Loss"}
           pairs == UiClose(metadata, batch).pairs
<1>1. /\ One("Position to close", items) = 0 /\ One("Margin", items) = 0
      /\ One("Leverage", items) = 0 /\ One("Size", items) = 1
  BY DEF One
<1> HIDE DEF items
<1>2. IsList(pairs)
  BY ClosePairs
<1>3. Count(pairs, items) =
          One("Position to close", items)
          + (IF metadata.has_margin THEN One("Margin", items) ELSE 0)
          + (IF metadata.has_leverage THEN One("Leverage", items) ELSE 0)
          + One("Size", items)
  BY ClosePairs
<1> HIDE DEF pairs
<1>4. /\ (IF metadata.has_margin THEN One("Margin", items) ELSE 0) = 0
      /\ (IF metadata.has_leverage THEN One("Leverage", items) ELSE 0) = 0
  BY <1>1
<1>5. Count(pairs, items) = 0 + 0 + 0 + 1
  BY <1>1, <1>3, <1>4
<1>6. Count(pairs, items) = 1
  BY <1>5
<1> QED
  BY <1>2, <1>6 DEF items, pairs

(* The amount of a margin update (op_update_margin.c:15-66) *)
LEMMA UpdateMarginRequestsShown ==
    ASSUME NEW batch
    PROVE  LET pairs == UiUpdateMargin(metadata, batch).pairs
           IN  IsList(pairs) /\ Count(pairs, {"New Margin"}) = 1
<1> DEFINE items == {"New Margin"}
           pairs == UiUpdateMargin(metadata, batch).pairs
<1>1. /\ One("Active Position", items) = 0 /\ One("New Margin", items) = 1
      /\ One("Leverage", items) = 0
  BY DEF One
<1> HIDE DEF items
<1>2. IsList(pairs)
  BY UpdateMarginPairs
<1>3. Count(pairs, items) =
          One("Active Position", items)
          + One("New Margin", items)
          + (IF metadata.has_leverage THEN One("Leverage", items) ELSE 0)
  BY UpdateMarginPairs
<1> HIDE DEF pairs
<1>4. (IF metadata.has_leverage THEN One("Leverage", items) ELSE 0) = 0
  BY <1>1
<1>5. Count(pairs, items) = 0 + 1 + 0
  BY <1>1, <1>3, <1>4
<1>6. Count(pairs, items) = 1
  BY <1>5
<1> QED
  BY <1>2, <1>6 DEF items, pairs

(* Every order of a cancellation (op_cancel.c:20-134) *)
LEMMA CancelRequestsShown ==
    ASSUME NEW batch, IsBatch(batch), CtxHasAction(batch, "BULK_CANCEL")
    PROVE  LET pairs == UiCancel(metadata, batch).pairs
           IN  /\ IsList(CancelsOf(batch))
               /\ IsList(pairs)
               /\ Count(pairs, {"Order ID"}) = Len(CancelsOf(batch))
<1> DEFINE items == {"Order ID"}
           pairs == UiCancel(metadata, batch).pairs
           first == <<"Operation", metadata.op_type, metadata.ticker>>
           head  == Headed(metadata, first)
           oids  == ShowCancelOids(batch)
           n     == Len(CancelsOf(batch))
<1>1. /\ One("Operation", items) = 0 /\ One("Margin", items) = 0
      /\ One("Leverage", items) = 0 /\ "Order ID" \in items
  BY DEF One
<1>2. first[1] = "Operation"
  OBVIOUS
<1>3. IsList(CancelsOf(batch))
  BY HasAction, ActionsAssumption DEF CancelsOf
<1>4. n \in Nat
  BY <1>3, ListProperties
<1> HIDE DEF items
<1>5. pairs = head \o oids /\ IsList(head \o oids)
  BY <1>3, CancelPairs
<1>6. Count(head \o oids, items) = Count(head, items) + Count(oids, items)
  BY <1>3, CancelPairs
<1> HIDE DEF first
<1>7. Count(head, items) =
          One(first[1], items)
          + (IF metadata.has_margin THEN One("Margin", items) ELSE 0)
          + (IF metadata.has_leverage THEN One("Leverage", items) ELSE 0)
  BY HeadedPairs
<1>8. Count(oids, items) = n
  BY <1>1, <1>3, CancelOids
<1> HIDE DEF pairs, head, oids, n
<1>9. /\ (IF metadata.has_margin THEN One("Margin", items) ELSE 0) = 0
      /\ (IF metadata.has_leverage THEN One("Leverage", items) ELSE 0) = 0
  BY <1>1
<1>10. Count(head, items) = 0 + 0 + 0
  BY <1>1, <1>2, <1>7, <1>9
<1>11. Count(pairs, items) = n
  BY <1>4, <1>5, <1>6, <1>8, <1>10
<1> QED
  BY <1>3, <1>5, <1>11 DEF items, pairs, n

(* The protocol and network pairs show no request. *)
LEMMA TopShowsNoRequest ==
    Count(Top(metadata), RequestItems) = 0
<1>1. "Protocol" \notin RequestItems /\ "Network" \notin RequestItems
  BY DEF RequestItems
<1>2. One("Protocol", RequestItems) = 0 /\ One("Network", RequestItems) = 0
  BY <1>1 DEF One
<1>3. Count(Top(metadata), RequestItems) =
          One("Protocol", RequestItems)
          + (IF metadata.network = "TESTNET" THEN One("Network", RequestItems) ELSE 0)
  BY TopPairs
<1>4. (IF metadata.network = "TESTNET" THEN One("Network", RequestItems) ELSE 0) = 0
  BY <1>2
<1> QED
  BY <1>2, <1>3, <1>4

(* Every request of any flow *)
LEMMA FlowShowsRequests ==
    ASSUME Inv, Accepted
    PROVE  /\ IsList(Flow(metadata, actions).pairs)
           /\ Count(Flow(metadata, actions).pairs, RequestItems) = RequestCount
<1>1. /\ IsBatch(actions)
      /\ metadata.op_type \in OpTypes
      /\ UiAccepts(metadata, actions)
  BY MetadataAssumption DEF Inv, Accepted
<1>2. Len(actions) \in Nat /\ DOMAIN actions = 1..Len(actions)
  BY <1>1, LenProperties DEF IsBatch
<1>3. CASE metadata.op_type = "ORDER"
  <2>1. UiOrderAccepts(actions) /\ CtxHasAction(actions, "BULK_ORDER")
    BY <1>1, <1>3 DEF UiAccepts, UiOrderAccepts
  <2>2. Flow(metadata, actions) = UiOrder(metadata, actions)
    BY <1>3 DEF Flow
  <2>3. RequestItems = {"Size", "Take Profit", "Stop Loss"}
    BY <1>3 DEF RequestItems
  <2>4. ~CtxHasAction(actions, "BULK_MODIFY") /\ ~CtxHasAction(actions, "BULK_CANCEL")
    BY <1>1, <1>2, <1>3 DEF IsBatch, TypesOf, CtxHasAction
  <2>5. RequestCount = Len(OrdersOf(actions))
    BY <2>1, <2>4 DEF RequestCount
  <2> QED
    BY <1>1, <1>3, <2>1, <2>2, <2>3, <2>5, OrderRequests
<1>4. CASE metadata.op_type = "MODIFY"
  <2>1. UiModifyAccepts(actions)
    BY <1>1, <1>4 DEF UiAccepts
  <2>2. Flow(metadata, actions) = UiModify(metadata, actions)
    BY <1>4 DEF Flow
  <2>3. RequestItems = {"Take Profit", "Stop Loss"}
    BY <1>4 DEF RequestItems
  <2>4. RequestCount = Len(ModifyRequests(actions))
    <3>1. ~CtxHasAction(actions, "BULK_CANCEL")
      BY <1>1, <1>2, <1>4 DEF IsBatch, TypesOf, CtxHasAction
    <3>2. ~(CtxHasAction(actions, "BULK_MODIFY") /\ CtxHasAction(actions, "BULK_ORDER"))
      BY <1>1, <1>2, <1>4 DEF IsBatch, CtxHasAction
    <3>3. CASE CtxHasAction(actions, "BULK_MODIFY")
      BY <3>1, <3>2, <3>3 DEF RequestCount
    <3>4. CASE ~CtxHasAction(actions, "BULK_MODIFY")
      <4>1. Len(OrdersOf(actions)) = Len(ModifyRequests(actions))
        BY <1>1, <2>1, <3>4, EditRequests
      <4>2. CtxHasAction(actions, "BULK_ORDER")
        BY <2>1, <3>4 DEF UiModifyAccepts
      <4> QED
        BY <3>1, <3>4, <4>1, <4>2 DEF RequestCount
    <3> QED
      BY <3>3, <3>4
  <2> QED
    BY <1>1, <2>1, <2>2, <2>3, <2>4, ModifyRequestsShown
<1>5. CASE metadata.op_type = "CLOSE"
  <2>1. CtxHasAction(actions, "BULK_ORDER") /\ Len(OrdersOf(actions)) = 1
    BY <1>1, <1>5 DEF UiAccepts, UiCloseAccepts
  <2>2. Flow(metadata, actions) = UiClose(metadata, actions)
    BY <1>5 DEF Flow
  <2>3. RequestItems = {"Size", "Take Profit", "Stop Loss"}
    BY <1>5 DEF RequestItems
  <2>4. ~CtxHasAction(actions, "BULK_MODIFY") /\ ~CtxHasAction(actions, "BULK_CANCEL")
    BY <1>1, <1>2, <1>5 DEF IsBatch, TypesOf, CtxHasAction
  <2>5. RequestCount = 1
    BY <2>1, <2>4 DEF RequestCount
  <2> QED
    BY <2>2, <2>3, <2>5, CloseRequestsShown
<1>6. CASE metadata.op_type = "UPDATE_MARGIN"
  <2>1. Flow(metadata, actions) = UiUpdateMargin(metadata, actions)
    BY <1>6 DEF Flow
  <2>2. RequestItems = {"New Margin"}
    BY <1>6 DEF RequestItems
  <2>3. /\ ~CtxHasAction(actions, "BULK_ORDER")
        /\ ~CtxHasAction(actions, "BULK_MODIFY")
        /\ ~CtxHasAction(actions, "BULK_CANCEL")
    BY <1>1, <1>2, <1>6 DEF IsBatch, TypesOf, CtxHasAction
  <2>4. RequestCount = 1
    BY <2>3 DEF RequestCount
  <2> QED
    BY <2>1, <2>2, <2>4, UpdateMarginRequestsShown
<1>7. CASE metadata.op_type \in {"CANCEL", "CANCEL_SL", "CANCEL_TP", "CANCEL_TP_SL"}
  <2>1. CtxHasAction(actions, "BULK_CANCEL")
    BY <1>1, <1>7 DEF UiAccepts, UiCancelAccepts
  <2>2. Flow(metadata, actions) = UiCancel(metadata, actions)
    BY <1>7 DEF Flow
  <2>3. RequestItems = {"Order ID"}
    BY <1>7 DEF RequestItems
  <2>4. ~CtxHasAction(actions, "BULK_ORDER") /\ ~CtxHasAction(actions, "BULK_MODIFY")
    BY <1>1, <1>2, <1>7 DEF IsBatch, TypesOf, CtxHasAction
  <2>5. RequestCount = Len(CancelsOf(actions))
    BY <2>1, <2>4 DEF RequestCount
  <2> QED
    BY <1>1, <2>1, <2>2, <2>3, <2>5, CancelRequestsShown
<1> QED
  BY <1>1, <1>3, <1>4, <1>5, <1>6, <1>7 DEF OpTypes

(* "No hidden extra orders that would be signed without being shown"       *)
(* (op_order.c:161-162, op_modify.c:74-75), whatever the metadata and the  *)
(* actions the host sends.                                                 *)
THEOREM EveryRequestIsShown == Spec => []EveryRequestShown
<1>1. Inv => EveryRequestShown
  <2> SUFFICES ASSUME Inv, Accepted
               PROVE  RequestCount = Count(Screen(metadata, actions).pairs, RequestItems)
    BY DEF EveryRequestShown, Count, Under
  <2>1. /\ IsList(Flow(metadata, actions).pairs)
        /\ Count(Flow(metadata, actions).pairs, RequestItems) = RequestCount
    BY FlowShowsRequests
  <2>2. Count(Screen(metadata, actions).pairs, RequestItems)
            = Count(Top(metadata), RequestItems)
              + Count(Flow(metadata, actions).pairs, RequestItems)
    BY <2>1, ScreenPairs
  <2>3. Count(Flow(metadata, actions).pairs, RequestItems) \in Nat
    BY <2>1, UnderFinite
  <2> QED
    BY <2>1, <2>2, <2>3, TopShowsNoRequest
<1> QED
  BY <1>1, InvAlways, PTL

-----------------------------------------------------------------------------
(* Only approvals leave no trace on the screen. *)

LEMMA WithoutLacks ==
    ASSUME Inv, NEW i \in 1..Len(actions)
    PROVE  /\ ~CtxHasAction(Without(i), actions[i].type)
           /\ metadata.op_type = "MODIFY" => \A type : ~CtxHasAction(Without(i), type)
<1>1. /\ Len(actions) \in Nat
      /\ \A j, k \in 1..Len(actions) : actions[j].type = actions[k].type => j = k
      /\ metadata.op_type = "MODIFY" => Len(actions) <= 1
  BY LenProperties DEF Inv, IsBatch
<1>2. ASSUME NEW j \in 1..(Len(actions) - 1)
      PROVE  LET k == IF j < i THEN j ELSE j + 1
             IN  k \in 1..Len(actions) /\ k # i /\ Without(i)[j] = actions[k]
  BY <1>1 DEF Without
<1>3. DOMAIN Without(i) = 1..(Len(actions) - 1)
  BY DEF Without
<1>4. \A j \in 1..(Len(actions) - 1) : Without(i)[j].type # actions[i].type
  BY <1>1, <1>2
<1>5. metadata.op_type = "MODIFY" => 1..(Len(actions) - 1) = {}
  BY <1>1
<1> QED
  BY <1>3, <1>4, <1>5 DEF CtxHasAction

(* An opening review has a leverage pair when it sets the leverage. *)
LEMMA LeverageShown ==
    ASSUME NEW batch, metadata.op_type = "ORDER"
    PROVE  Count(Screen(metadata, batch).pairs, {"Leverage"})
               = (IF CtxHasAction(batch, "UPDATE_LEVERAGE") THEN 1 ELSE 0)
<1> DEFINE items  == {"Leverage"}
           orders == OrdersOf(batch)
           tps    == TpsIn(orders)
           sls    == SlsIn(orders)
           market == FirstOf(orders, LimitsIn(orders)).limit.tif = "IOC"
           levers == CtxHasAction(batch, "UPDATE_LEVERAGE")
           pairs  == UiOrder(metadata, batch).pairs
<1>1. /\ One("Protocol", items) = 0 /\ One("Network", items) = 0
      /\ One("Operation", items) = 0 /\ One("Limit Price", items) = 0
      /\ One("Margin", items) = 0 /\ One("Take Profit", items) = 0
      /\ One("Stop Loss", items) = 0 /\ One("Size", items) = 0
      /\ One("Leverage", items) = 1
  BY DEF One
<1>2. Flow(metadata, batch) = UiOrder(metadata, batch)
  BY DEF Flow
<1> HIDE DEF items
<1>3. /\ IsList(pairs)
      /\ Count(pairs, items) =
             One("Operation", items)
             + (IF ~market THEN One("Limit Price", items) ELSE 0)
             + (IF metadata.has_margin THEN One("Margin", items) ELSE 0)
             + (IF levers THEN One("Leverage", items) ELSE 0)
             + (IF tps # {} THEN One("Take Profit", items) ELSE 0)
             + (IF sls # {} THEN One("Stop Loss", items) ELSE 0)
             + One("Size", items)
  <2>1. IsList(pairs) /\ Count(pairs, items) = OrderTally(metadata, batch, items)
    BY OrderPairs
  <2> QED
    BY <2>1, Zenon DEF OrderTally
<1>4. Count(Screen(metadata, batch).pairs, items)
          = Count(Top(metadata), items) + Count(pairs, items)
  BY <1>2, <1>3, ScreenPairs
<1>5. Count(Top(metadata), items) =
          One("Protocol", items)
          + (IF metadata.network = "TESTNET" THEN One("Network", items) ELSE 0)
  BY TopPairs
<1> HIDE DEF orders, tps, sls, market, pairs, levers
<1>6. /\ (IF ~market THEN One("Limit Price", items) ELSE 0) = 0
      /\ (IF metadata.has_margin THEN One("Margin", items) ELSE 0) = 0
      /\ (IF tps # {} THEN One("Take Profit", items) ELSE 0) = 0
      /\ (IF sls # {} THEN One("Stop Loss", items) ELSE 0) = 0
      /\ (IF metadata.network = "TESTNET" THEN One("Network", items) ELSE 0) = 0
  BY <1>1
<1>7. Count(pairs, items) = 0 + 0 + 0 + (IF levers THEN 1 ELSE 0) + 0 + 0 + 0
  BY <1>1, <1>3, <1>6
<1>8. Count(Top(metadata), items) = 0
  <2>1. Count(Top(metadata), items) = 0 + 0
    BY <1>1, <1>5, <1>6
  <2> QED
    BY <2>1
<1>9. Count(Screen(metadata, batch).pairs, items) = (IF levers THEN 1 ELSE 0)
  BY <1>4, <1>7, <1>8
<1> QED
  BY <1>9 DEF items, levers

(* "Signed silently by design" (action.c:205-207) are the approvals and    *)
(* nothing else: taking away any other action of an accepted batch, of     *)
(* whatever actions, changes the screen or makes handle_ui refuse it.      *)
THEOREM OnlyApprovalsStayOffScreen == Spec => []OnlyApprovalsAreSilent
<1>1. Inv => OnlyApprovalsAreSilent
  <2> SUFFICES ASSUME Inv, Accepted, NEW i \in DOMAIN actions, SilentlySigned(i)
               PROVE  actions[i].type \in {"APPROVE_BUILDER_FEE", "USER_SET_ABSTRACTION"}
    BY DEF OnlyApprovalsAreSilent
  <2>1. i \in 1..Len(actions)
    BY LenProperties DEF Inv, IsBatch
  <2>2. /\ metadata.op_type \in OpTypes
        /\ actions[i].type \in TypesOf(metadata.op_type)
    BY <2>1, MetadataAssumption DEF Inv, IsBatch
  <2>3. /\ ~CtxHasAction(Without(i), actions[i].type)
        /\ metadata.op_type = "MODIFY" => \A type : ~CtxHasAction(Without(i), type)
    BY <2>1, WithoutLacks
  <2>4. /\ UiAccepts(metadata, Without(i))
        /\ Screen(metadata, Without(i)) = Screen(metadata, actions)
    BY DEF SilentlySigned
  <2>5. CtxHasAction(actions, actions[i].type)
    BY DEF CtxHasAction
  <2>6. CASE metadata.op_type = "ORDER"
    <3>1. actions[i].type # "BULK_ORDER"
      BY <2>3, <2>4, <2>6 DEF UiAccepts, UiOrderAccepts
    <3>2. actions[i].type # "UPDATE_LEVERAGE"
      <4> SUFFICES ASSUME actions[i].type = "UPDATE_LEVERAGE" PROVE FALSE
        OBVIOUS
      <4>1. Count(Screen(metadata, actions).pairs, {"Leverage"}) = 1
        BY <2>5, <2>6, LeverageShown
      <4>2. Count(Screen(metadata, Without(i)).pairs, {"Leverage"}) = 0
        BY <2>3, <2>6, LeverageShown
      <4> QED
        BY <2>4, <4>1, <4>2
    <3> QED
      BY <2>2, <2>6, <3>1, <3>2 DEF TypesOf
  <2>7. CASE metadata.op_type = "MODIFY"
    BY <2>3, <2>4, <2>7 DEF UiAccepts, UiModifyAccepts
  <2>8. CASE metadata.op_type = "CLOSE"
    BY <2>2, <2>3, <2>4, <2>8 DEF UiAccepts, UiCloseAccepts, TypesOf
  <2>9. CASE metadata.op_type = "UPDATE_MARGIN"
    BY <2>2, <2>3, <2>4, <2>9 DEF UiAccepts, TypesOf
  <2>10. CASE metadata.op_type \in {"CANCEL", "CANCEL_SL", "CANCEL_TP", "CANCEL_TP_SL"}
    BY <2>2, <2>3, <2>4, <2>10 DEF UiAccepts, UiCancelAccepts, TypesOf
  <2> QED
    BY <2>2, <2>6, <2>7, <2>8, <2>9, <2>10 DEF OpTypes
<1> QED
  BY <1>1, InvAlways, PTL

-----------------------------------------------------------------------------
(* The screen determines the batch. *)

(* The pairs shown under an item *)
Shown(pairs, item) == {pair \in Range(pairs) : pair[1] = item}

(* Lists with one beginning and one whole have one end. *)
LEMMA SameTail ==
    ASSUME NEW s, NEW t, NEW u, IsList(s), IsList(t), IsList(u), s \o t = s \o u
    PROVE  t = u
<1>1. /\ Len(s) \in Nat
      /\ Len(t) \in Nat /\ DOMAIN t = 1..Len(t)
      /\ Len(u) \in Nat /\ DOMAIN u = 1..Len(u)
  BY ListProperties
<1>2. /\ Len(s \o t) = Len(s) + Len(t)
      /\ \A i \in 1..Len(t) : (s \o t)[Len(s) + i] = t[i]
  BY Concat
<1>3. /\ Len(s \o u) = Len(s) + Len(u)
      /\ \A i \in 1..Len(u) : (s \o u)[Len(s) + i] = u[i]
  BY Concat
<1>4. Len(t) = Len(u)
  <2>1. Len(s) + Len(t) = Len(s) + Len(u)
    BY <1>2, <1>3
  <2>2. Len(s) \in Nat /\ Len(t) \in Nat /\ Len(u) \in Nat
    BY <1>1
  <2> QED
    BY <2>1, <2>2
<1>5. \A i \in 1..Len(t) : t[i] = u[i]
  BY <1>2, <1>3, <1>4
<1>6. /\ t = [i \in 1..Len(t) |-> t[i]]
      /\ u = [i \in 1..Len(u) |-> u[i]]
  <2>1. t \in Seq(Range(t)) /\ u \in Seq(Range(u))
    BY DEF IsList
  <2> QED
    BY <2>1
<1> QED
  BY <1>4, <1>5, <1>6

(* Lists of one pair are equal only if the pairs are. *)
LEMMA SameSingle ==
    ASSUME NEW p, NEW q, {p} = {q}
    PROVE  p = q
OBVIOUS

(* A pair that may be there tells whether it is. *)
LEMMA SameWhen ==
    ASSUME NEW c, NEW d, NEW p, NEW q,
           (IF c THEN {p} ELSE {}) = (IF d THEN {q} ELSE {})
    PROVE  (c <=> d) /\ (c => p = q)
OBVIOUS

(* What the screen of an opening order says, item by item *)
LEMMA OrderShows ==
    ASSUME NEW batch
    PROVE  LET pairs  == UiOrder(metadata, batch).pairs
               orders == OrdersOf(batch)
               limit  == LimitOf(batch)
               tps    == TpsIn(orders)
               sls    == SlsIn(orders)
               market == limit.limit.tif = "IOC"
               levers == CtxHasAction(batch, "UPDATE_LEVERAGE")
           IN  /\ Shown(pairs, "Operation") =
                      {<<"Operation", IF market THEN "Market" ELSE "Limit",
                         ShortLong(limit), metadata.ticker>>}
               /\ Shown(pairs, "Limit Price") =
                      IF ~market THEN {<<"Limit Price", limit.limit_px>>} ELSE {}
               /\ Shown(pairs, "Leverage") =
                      IF levers THEN {<<"Leverage", LeverageOf(batch).leverage>>} ELSE {}
               /\ Shown(pairs, "Take Profit") =
                      IF tps # {}
                      THEN {<<"Take Profit", FirstOf(orders, tps).trigger.trigger_px>>} ELSE {}
               /\ Shown(pairs, "Stop Loss") =
                      IF sls # {}
                      THEN {<<"Stop Loss", FirstOf(orders, sls).trigger.trigger_px>>} ELSE {}
               /\ Shown(pairs, "Size") = {<<"Size", limit.sz, metadata.ticker>>}
<1> DEFINE pairs  == UiOrder(metadata, batch).pairs
           orders == OrdersOf(batch)
           limit  == LimitOf(batch)
           tps    == TpsIn(orders)
           sls    == SlsIn(orders)
           market == limit.limit.tif = "IOC"
           levers == CtxHasAction(batch, "UPDATE_LEVERAGE")
           kind   == <<"Operation", IF market THEN "Market" ELSE "Limit",
                       ShortLong(limit), metadata.ticker>>
           price  == <<"Limit Price", limit.limit_px>>
           margin == <<"Margin", metadata.margin>>
           lever  == <<"Leverage", LeverageOf(batch).leverage>>
           profit == <<"Take Profit", FirstOf(orders, tps).trigger.trigger_px>>
           loss   == <<"Stop Loss", FirstOf(orders, sls).trigger.trigger_px>>
           size   == <<"Size", limit.sz, metadata.ticker>>
<1>1. Range(pairs) =
          {kind}
          \cup (IF ~market THEN {price} ELSE {})
          \cup (IF metadata.has_margin THEN {margin} ELSE {})
          \cup (IF levers THEN {lever} ELSE {})
          \cup (IF tps # {} THEN {profit} ELSE {})
          \cup (IF sls # {} THEN {loss} ELSE {})
          \cup {size}
  <2>1. Range(pairs) = OrderPairSet(metadata, batch)
    BY OrderPairs
  <2> QED
    BY <2>1, Zenon DEF OrderPairSet, LimitOf
<1>2. /\ kind[1] = "Operation" /\ price[1] = "Limit Price" /\ margin[1] = "Margin"
      /\ lever[1] = "Leverage" /\ profit[1] = "Take Profit" /\ loss[1] = "Stop Loss"
      /\ size[1] = "Size"
  OBVIOUS
<1> HIDE DEF pairs, market, levers, kind, price, margin, lever, profit, loss, size
<1>3. Shown(pairs, "Operation") = {kind}
  BY <1>1, <1>2 DEF Shown
<1>4. Shown(pairs, "Limit Price") = IF ~market THEN {price} ELSE {}
  BY <1>1, <1>2 DEF Shown
<1>5. Shown(pairs, "Leverage") = IF levers THEN {lever} ELSE {}
  BY <1>1, <1>2 DEF Shown
<1>6. Shown(pairs, "Take Profit") = IF tps # {} THEN {profit} ELSE {}
  BY <1>1, <1>2 DEF Shown
<1>7. Shown(pairs, "Stop Loss") = IF sls # {} THEN {loss} ELSE {}
  BY <1>1, <1>2 DEF Shown
<1>8. Shown(pairs, "Size") = {size}
  BY <1>1, <1>2 DEF Shown
<1> QED
  BY <1>3, <1>4, <1>5, <1>6, <1>7, <1>8
     DEF pairs, market, levers, kind, price, lever, profit, loss, size

(* What a trigger that passes the checks does, from what the screen says   *)
ClosingTrigger(tpsl, price, size) == <<tpsl, price, price, size, TRUE, TRUE>>

(* What check_trigger_close_order leaves of a trigger (common.c:91-95) *)
LEMMA CheckedTrigger ==
    ASSUME NEW order, IsOrder(order), order.order_type = "TRIGGER",
           CheckTriggerCloseOrder(order)
    PROVE  TriggerEssence(order) =
               ClosingTrigger(order.trigger.tpsl, order.trigger.trigger_px, order.sz)
<1>1. order.reduce_only = TRUE /\ order.trigger.is_market = TRUE
  BY DEF IsOrder, CheckTriggerCloseOrder
<1>2. order.limit_px = order.trigger.trigger_px
  BY DEF CheckTriggerCloseOrder
<1> QED
  BY <1>1, <1>2 DEF TriggerEssence, ClosingTrigger

(* The triggers of an opening order are the ones the screen names. *)
LEMMA OrderTriggers ==
    ASSUME NEW batch, IsBatch(batch), UiOrderAccepts(batch)
    PROVE  LET orders == OrdersOf(batch)
               tps    == TpsIn(orders)
               sls    == SlsIn(orders)
               size   == LimitOf(batch).sz
           IN  TriggersIn(orders) =
                   (IF tps # {}
                    THEN {ClosingTrigger("TP", FirstOf(orders, tps).trigger.trigger_px, size)}
                    ELSE {})
                   \cup (IF sls # {}
                         THEN {ClosingTrigger("SL", FirstOf(orders, sls).trigger.trigger_px, size)}
                         ELSE {})
<1> DEFINE orders == OrdersOf(batch)
           tps    == TpsIn(orders)
           sls    == SlsIn(orders)
           limit  == LimitOf(batch)
           tp     == FirstOf(orders, tps)
           sl     == FirstOf(orders, sls)
<1>1. IsList(orders) /\ \A order \in Range(orders) : IsOrder(order)
  BY HasAction, ActionsAssumption DEF UiOrderAccepts, OrdersOf
<1>2. /\ Cardinality(tps) <= 1 /\ Cardinality(sls) <= 1
      /\ \A i \in tps \cup sls : CheckTriggerMatchesLimit(orders[i], limit)
  BY DEF UiOrderAccepts, LimitOf
<1>3. /\ tps # {} => \E i \in DOMAIN orders : tps = {i} /\ tp = orders[i]
      /\ sls # {} => \E i \in DOMAIN orders : sls = {i} /\ sl = orders[i]
  <2>1. /\ IsFiniteSet(tps) /\ tps \subseteq 1..Len(orders)
        /\ IsFiniteSet(sls) /\ sls \subseteq 1..Len(orders)
        /\ Len(orders) \in Nat /\ DOMAIN orders = 1..Len(orders)
    BY <1>1, KindsFinite, ListProperties
  <2>2. /\ tps # {} => \E i : tps = {i}
        /\ sls # {} => \E i : sls = {i}
    BY <1>2, <2>1, AtMostOne
  <2> HIDE DEF orders, tps, sls
  <2>3. \A i \in Int : FirstOf(orders, {i}) = orders[i]
    BY FirstOfOne
  <2>4. \A i : tps = {i} => i \in DOMAIN orders /\ tp = orders[i]
    BY <2>1, <2>3
  <2>5. \A i : sls = {i} => i \in DOMAIN orders /\ sl = orders[i]
    BY <2>1, <2>3
  <2> QED
    BY <2>2, <2>4, <2>5
<1>4. ASSUME NEW i \in DOMAIN orders
      PROVE  /\ i \in tps => /\ ~IsLimit(orders[i])
                             /\ TriggerEssence(orders[i]) =
                                    ClosingTrigger("TP", orders[i].trigger.trigger_px, limit.sz)
             /\ i \in sls => /\ ~IsLimit(orders[i])
                             /\ TriggerEssence(orders[i]) =
                                    ClosingTrigger("SL", orders[i].trigger.trigger_px, limit.sz)
             /\ ~IsLimit(orders[i]) => i \in tps \cup sls
  <2>1. IsOrder(orders[i])
    BY <1>1 DEF Range
  <2>2. /\ i \in tps <=> orders[i].order_type = "TRIGGER" /\ orders[i].trigger.tpsl = "TP"
        /\ i \in sls <=> orders[i].order_type = "TRIGGER" /\ orders[i].trigger.tpsl = "SL"
    BY DEF TpsIn, SlsIn, IsTp, IsSl
  <2>3. IsLimit(orders[i]) <=> orders[i].order_type = "LIMIT"
    BY DEF IsLimit
  <2>4. i \in tps \cup sls => /\ CheckTriggerCloseOrder(orders[i])
                              /\ orders[i].sz = limit.sz
    BY <1>2 DEF CheckTriggerMatchesLimit
  <2> HIDE DEF orders, tps, sls, limit
  <2>5. i \in tps \cup sls => TriggerEssence(orders[i]) =
            ClosingTrigger(orders[i].trigger.tpsl, orders[i].trigger.trigger_px, limit.sz)
    BY <2>1, <2>2, <2>4, CheckedTrigger
  <2> QED
    BY <2>1, <2>2, <2>3, <2>5 DEF IsOrder
<1>5. TriggersIn(orders) =
          {TriggerEssence(orders[i]) : i \in {j \in DOMAIN orders : ~IsLimit(orders[j])}}
  BY DEF TriggersIn, Range
<1> HIDE DEF orders, tps, sls, tp, sl, limit
<1>6. tps \subseteq DOMAIN orders /\ sls \subseteq DOMAIN orders
  BY DEF tps, sls, TpsIn, SlsIn
<1>7. TriggersIn(orders) =
          (IF tps # {} THEN {ClosingTrigger("TP", tp.trigger.trigger_px, limit.sz)} ELSE {})
          \cup (IF sls # {} THEN {ClosingTrigger("SL", sl.trigger.trigger_px, limit.sz)} ELSE {})
  <2>1. {j \in DOMAIN orders : ~IsLimit(orders[j])} = tps \cup sls
    BY <1>4, <1>6
  <2>2. TriggersIn(orders) = {TriggerEssence(orders[i]) : i \in tps}
                             \cup {TriggerEssence(orders[i]) : i \in sls}
    BY <1>5, <2>1
  <2>3. {TriggerEssence(orders[i]) : i \in tps} =
            IF tps # {} THEN {ClosingTrigger("TP", tp.trigger.trigger_px, limit.sz)} ELSE {}
    <3>1. CASE tps = {}
      BY <3>1
    <3>2. CASE tps # {}
      <4>1. PICK i \in DOMAIN orders : tps = {i} /\ tp = orders[i]
        BY <1>3, <3>2
      <4>2. TriggerEssence(orders[i]) = ClosingTrigger("TP", tp.trigger.trigger_px, limit.sz)
        BY <1>4, <4>1
      <4> QED
        BY <4>1, <4>2
    <3> QED
      BY <3>1, <3>2
  <2>4. {TriggerEssence(orders[i]) : i \in sls} =
            IF sls # {} THEN {ClosingTrigger("SL", sl.trigger.trigger_px, limit.sz)} ELSE {}
    <3>1. CASE sls = {}
      BY <3>1
    <3>2. CASE sls # {}
      <4>1. PICK i \in DOMAIN orders : sls = {i} /\ sl = orders[i]
        BY <1>3, <3>2
      <4>2. TriggerEssence(orders[i]) = ClosingTrigger("SL", sl.trigger.trigger_px, limit.sz)
        BY <1>4, <4>1
      <4> QED
        BY <4>1, <4>2
    <3> QED
      BY <3>1, <3>2
  <2> QED
    BY <2>2, <2>3, <2>4
<1> QED
  BY <1>7 DEF orders, tps, sls, tp, sl, limit

(* The screen of an order decides it (op_order.c:161-182). *)
LEMMA OrderDecided ==
    ASSUME metadata.op_type = "ORDER",
           NEW a, IsBatch(a), UiOrderAccepts(a),
           NEW b, IsBatch(b), UiOrderAccepts(b),
           UiOrder(metadata, a).pairs = UiOrder(metadata, b).pairs
    PROVE  Essence(a) = Essence(b)
<1> DEFINE Limit(batch)  == LimitOf(batch)
           Market(batch) == Limit(batch).limit.tif = "IOC"
           Tps(batch)    == TpsIn(OrdersOf(batch))
           Sls(batch)    == SlsIn(OrdersOf(batch))
           Tp(batch)     == FirstOf(OrdersOf(batch), Tps(batch)).trigger.trigger_px
           Sl(batch)     == FirstOf(OrdersOf(batch), Sls(batch)).trigger.trigger_px
           Levers(batch) == CtxHasAction(batch, "UPDATE_LEVERAGE")
           Lever(batch)  == LeverageOf(batch).leverage
           Pairs(batch)  == UiOrder(metadata, batch).pairs
<1>1. ASSUME NEW batch
      PROVE  /\ Shown(Pairs(batch), "Operation") =
                    {<<"Operation", IF Market(batch) THEN "Market" ELSE "Limit",
                       ShortLong(Limit(batch)), metadata.ticker>>}
             /\ Shown(Pairs(batch), "Limit Price") =
                    IF ~Market(batch) THEN {<<"Limit Price", Limit(batch).limit_px>>} ELSE {}
             /\ Shown(Pairs(batch), "Leverage") =
                    IF Levers(batch) THEN {<<"Leverage", Lever(batch)>>} ELSE {}
             /\ Shown(Pairs(batch), "Take Profit") =
                    IF Tps(batch) # {} THEN {<<"Take Profit", Tp(batch)>>} ELSE {}
             /\ Shown(Pairs(batch), "Stop Loss") =
                    IF Sls(batch) # {} THEN {<<"Stop Loss", Sl(batch)>>} ELSE {}
             /\ Shown(Pairs(batch), "Size") = {<<"Size", Limit(batch).sz, metadata.ticker>>}
  BY OrderShows
<1>2. ASSUME NEW batch, IsBatch(batch), UiOrderAccepts(batch)
      PROVE  /\ TriggersIn(OrdersOf(batch)) =
                    (IF Tps(batch) # {}
                     THEN {ClosingTrigger("TP", Tp(batch), Limit(batch).sz)} ELSE {})
                    \cup (IF Sls(batch) # {}
                          THEN {ClosingTrigger("SL", Sl(batch), Limit(batch).sz)} ELSE {})
             /\ Limit(batch).limit.tif \in {"IOC", "GTC"}
             /\ Levers(batch) => LeverageOf(batch).is_cross = FALSE
  <2>1. TriggersIn(OrdersOf(batch)) =
            (IF Tps(batch) # {}
             THEN {ClosingTrigger("TP", Tp(batch), Limit(batch).sz)} ELSE {})
            \cup (IF Sls(batch) # {}
                  THEN {ClosingTrigger("SL", Sl(batch), Limit(batch).sz)} ELSE {})
    BY <1>2, OrderTriggers
  <2>2. Limit(batch).limit.tif \in {"IOC", "GTC"}
    BY <1>2 DEF UiOrderAccepts, LimitOf
  <2>3. ASSUME Levers(batch) PROVE LeverageOf(batch).is_cross = FALSE
    <3>1. LeverageOf(batch).is_cross \in BOOLEAN
      BY <1>2, <2>3, HasAction, ActionsAssumption DEF LeverageOf
    <3>2. ~LeverageOf(batch).is_cross
      BY <1>2, <2>3 DEF UiOrderAccepts
    <3> QED
      BY <3>1, <3>2
  <2> QED
    BY <2>1, <2>2, <2>3
<1>3. Pairs(a) = Pairs(b)
  OBVIOUS
<1> HIDE DEF Limit, Tps, Sls, Tp, Sl, Levers, Lever, Pairs
<1>4. /\ Market(a) <=> Market(b)
      /\ ShortLong(Limit(a)) = ShortLong(Limit(b))
  <2>1. {<<"Operation", IF Market(a) THEN "Market" ELSE "Limit",
           ShortLong(Limit(a)), metadata.ticker>>}
        = {<<"Operation", IF Market(b) THEN "Market" ELSE "Limit",
             ShortLong(Limit(b)), metadata.ticker>>}
    BY <1>1, <1>3
  <2> HIDE DEF Market
  <2>2. <<"Operation", IF Market(a) THEN "Market" ELSE "Limit",
          ShortLong(Limit(a)), metadata.ticker>>
        = <<"Operation", IF Market(b) THEN "Market" ELSE "Limit",
            ShortLong(Limit(b)), metadata.ticker>>
    BY <2>1, SameSingle
  <2>3. /\ (IF Market(a) THEN "Market" ELSE "Limit") = IF Market(b) THEN "Market" ELSE "Limit"
        /\ ShortLong(Limit(a)) = ShortLong(Limit(b))
    BY <2>2
  <2> QED
    BY <2>3
<1>5. Limit(a).sz = Limit(b).sz
  <2>1. {<<"Size", Limit(a).sz, metadata.ticker>>} = {<<"Size", Limit(b).sz, metadata.ticker>>}
    BY <1>1, <1>3
  <2>2. <<"Size", Limit(a).sz, metadata.ticker>> = <<"Size", Limit(b).sz, metadata.ticker>>
    BY <2>1, SameSingle
  <2> QED
    BY <2>2
<1>6. (~Market(a) <=> ~Market(b)) /\ (~Market(a) => Limit(a).limit_px = Limit(b).limit_px)
  <2>1. (IF ~Market(a) THEN {<<"Limit Price", Limit(a).limit_px>>} ELSE {})
        = (IF ~Market(b) THEN {<<"Limit Price", Limit(b).limit_px>>} ELSE {})
    BY <1>1, <1>3
  <2> HIDE DEF Market
  <2>2. /\ ~Market(a) <=> ~Market(b)
        /\ ~Market(a) => <<"Limit Price", Limit(a).limit_px>> = <<"Limit Price", Limit(b).limit_px>>
    BY <2>1, SameWhen
  <2> QED
    BY <2>2
<1>7. (Tps(a) # {} <=> Tps(b) # {}) /\ (Tps(a) # {} => Tp(a) = Tp(b))
  <2>1. (IF Tps(a) # {} THEN {<<"Take Profit", Tp(a)>>} ELSE {})
        = (IF Tps(b) # {} THEN {<<"Take Profit", Tp(b)>>} ELSE {})
    BY <1>1, <1>3
  <2>2. /\ Tps(a) # {} <=> Tps(b) # {}
        /\ Tps(a) # {} => <<"Take Profit", Tp(a)>> = <<"Take Profit", Tp(b)>>
    BY <2>1, SameWhen, Zenon
  <2> QED
    BY <2>2
<1>8. (Sls(a) # {} <=> Sls(b) # {}) /\ (Sls(a) # {} => Sl(a) = Sl(b))
  <2>1. (IF Sls(a) # {} THEN {<<"Stop Loss", Sl(a)>>} ELSE {})
        = (IF Sls(b) # {} THEN {<<"Stop Loss", Sl(b)>>} ELSE {})
    BY <1>1, <1>3
  <2>2. /\ Sls(a) # {} <=> Sls(b) # {}
        /\ Sls(a) # {} => <<"Stop Loss", Sl(a)>> = <<"Stop Loss", Sl(b)>>
    BY <2>1, SameWhen, Zenon
  <2> QED
    BY <2>2
<1>9. (Levers(a) <=> Levers(b)) /\ (Levers(a) => Lever(a) = Lever(b))
  <2>1. (IF Levers(a) THEN {<<"Leverage", Lever(a)>>} ELSE {})
        = (IF Levers(b) THEN {<<"Leverage", Lever(b)>>} ELSE {})
    BY <1>1, <1>3
  <2>2. /\ Levers(a) <=> Levers(b)
        /\ Levers(a) => <<"Leverage", Lever(a)>> = <<"Leverage", Lever(b)>>
    BY <2>1, SameWhen, Zenon
  <2> QED
    BY <2>2
<1>10. Limit(a).limit.tif = Limit(b).limit.tif
  BY <1>2, <1>4
<1>11. LimitEssence(Limit(a)) = LimitEssence(Limit(b))
  BY <1>4, <1>5, <1>6, <1>10 DEF LimitEssence, Terms
<1>12. TriggersIn(OrdersOf(a)) = TriggersIn(OrdersOf(b))
  BY <1>2, <1>5, <1>7, <1>8
<1>13. (IF Levers(a) THEN <<Lever(a), LeverageOf(a).is_cross>> ELSE <<>>)
           = (IF Levers(b) THEN <<Lever(b), LeverageOf(b).is_cross>> ELSE <<>>)
  BY <1>2, <1>9
<1>14. ASSUME NEW batch
       PROVE  Essence(batch) =
                  <<LimitEssence(Limit(batch)), TriggersIn(OrdersOf(batch)), Levers(batch),
                    IF Levers(batch) THEN <<Lever(batch), LeverageOf(batch).is_cross>> ELSE <<>> >>
  BY DEF Essence, Limit, Levers, Lever
<1>15. Levers(a) = Levers(b)
  BY <1>9 DEF Levers, CtxHasAction
<1> QED
  BY <1>11, <1>12, <1>13, <1>14, <1>15

(* The screen of a closing decides the position and the size, and leaves   *)
(* the terms of the order open (op_close.c:16-28).                         *)
LEMMA CloseDecided ==
    ASSUME metadata.op_type = "CLOSE",
           NEW a, IsBatch(a), UiCloseAccepts(a),
           NEW b, IsBatch(b), UiCloseAccepts(b),
           UiClose(metadata, a).pairs = UiClose(metadata, b).pairs
    PROVE  PositionClosed(a) = PositionClosed(b)
<1> DEFINE Limit(batch) == OrdersOf(batch)[1]
           Pairs(batch) == UiClose(metadata, batch).pairs
           margin == <<"Margin", metadata.margin>>
           lever  == <<"Leverage", metadata.leverage>>
<1>1. ASSUME NEW batch
      PROVE  /\ Shown(Pairs(batch), "Position to close") =
                    {<<"Position to close", ShortLong(Limit(batch)), metadata.ticker>>}
             /\ Shown(Pairs(batch), "Size") = {<<"Size", Limit(batch).sz, metadata.ticker>>}
  <2> DEFINE position == <<"Position to close", ShortLong(Limit(batch)), metadata.ticker>>
             size     == <<"Size", Limit(batch).sz, metadata.ticker>>
  <2>1. Range(Pairs(batch)) =
            {position}
            \cup (IF metadata.has_margin THEN {margin} ELSE {})
            \cup (IF metadata.has_leverage THEN {lever} ELSE {})
            \cup {size}
    BY ClosePairs
  <2>2. /\ position[1] = "Position to close" /\ margin[1] = "Margin"
        /\ lever[1] = "Leverage" /\ size[1] = "Size"
    OBVIOUS
  <2> HIDE DEF position, margin, lever, size, Pairs
  <2>3. Shown(Pairs(batch), "Position to close") = {position}
    BY <2>1, <2>2 DEF Shown
  <2>4. Shown(Pairs(batch), "Size") = {size}
    BY <2>1, <2>2 DEF Shown
  <2> QED
    BY <2>3, <2>4 DEF position, size
<1>2. ASSUME NEW batch, IsBatch(batch), UiCloseAccepts(batch)
      PROVE  /\ Limit(batch).is_buy \in BOOLEAN
             /\ Limit(batch).reduce_only = TRUE
  <2>1. IsList(OrdersOf(batch)) /\ \A order \in Range(OrdersOf(batch)) : IsOrder(order)
    BY <1>2, HasAction, ActionsAssumption DEF UiCloseAccepts, OrdersOf
  <2>2. Len(OrdersOf(batch)) = 1 /\ Limit(batch).reduce_only
    BY <1>2 DEF UiCloseAccepts
  <2>3. Limit(batch) \in Range(OrdersOf(batch))
    <3>1. 1 \in 1..Len(OrdersOf(batch))
      BY <2>2
    <3> QED
      BY <2>1, <3>1, ListProperties
  <2>4. IsOrder(Limit(batch))
    BY <2>1, <2>3
  <2> QED
    BY <2>2, <2>4 DEF IsOrder
<1>3. Pairs(a) = Pairs(b)
  OBVIOUS
<1> HIDE DEF Limit, Pairs
<1>4. ShortLong(Limit(a)) = ShortLong(Limit(b))
  <2>1. {<<"Position to close", ShortLong(Limit(a)), metadata.ticker>>}
        = {<<"Position to close", ShortLong(Limit(b)), metadata.ticker>>}
    BY <1>1, <1>3
  <2>2. <<"Position to close", ShortLong(Limit(a)), metadata.ticker>>
        = <<"Position to close", ShortLong(Limit(b)), metadata.ticker>>
    BY <2>1, SameSingle
  <2> QED
    BY <2>2
<1>5. Limit(a).sz = Limit(b).sz
  <2>1. {<<"Size", Limit(a).sz, metadata.ticker>>} = {<<"Size", Limit(b).sz, metadata.ticker>>}
    BY <1>1, <1>3
  <2>2. <<"Size", Limit(a).sz, metadata.ticker>> = <<"Size", Limit(b).sz, metadata.ticker>>
    BY <2>1, SameSingle
  <2> QED
    BY <2>2
<1>6. Limit(a).is_buy = Limit(b).is_buy
  <2>1. ASSUME NEW batch, IsBatch(batch), UiCloseAccepts(batch)
        PROVE  ShortLong(Limit(batch)) = IF Limit(batch).is_buy = TRUE THEN "short" ELSE "long"
    BY <1>2, <2>1 DEF ShortLong
  <2> QED
    BY <1>2, <1>4, <2>1
<1>7. ASSUME NEW batch
      PROVE  PositionClosed(batch) =
                 <<Limit(batch).is_buy, Limit(batch).reduce_only, Limit(batch).sz>>
  BY DEF PositionClosed, Limit
<1> QED
  BY <1>2, <1>5, <1>6, <1>7

(* The side, the magnitude and the word of the intent give the change of   *)
(* a margin back.                                                          *)
LEMMA UpdateMarginDecided ==
    ASSUME metadata.op_type = "UPDATE_MARGIN",
           NEW a, IsBatch(a), CtxHasAction(a, "UPDATE_ISOLATED_MARGIN"),
           NEW b, IsBatch(b), CtxHasAction(b, "UPDATE_ISOLATED_MARGIN"),
           UiUpdateMargin(metadata, a) = UiUpdateMargin(metadata, b)
    PROVE  Essence(a) = Essence(b)
<1> DEFINE Ntli(batch)   == MarginOf(batch).ntli
           Buys(batch)   == MarginOf(batch).is_buy
           Amount(batch) == IF Ntli(batch) < 0 THEN -Ntli(batch) ELSE Ntli(batch)
           Side(batch)   == IF Buys(batch) THEN "Long" ELSE "Short"
           Pairs(batch)  == UiUpdateMargin(metadata, batch).pairs
           lever == <<"Leverage", metadata.leverage>>
<1>1. ASSUME NEW batch
      PROVE  /\ Shown(Pairs(batch), "Active Position") =
                    {<<"Active Position", Side(batch), metadata.ticker>>}
             /\ Shown(Pairs(batch), "New Margin") = {<<"New Margin", Amount(batch)>>}
  <2> DEFINE position == <<"Active Position", Side(batch), metadata.ticker>>
             amount   == <<"New Margin", Amount(batch)>>
  <2>1. Range(Pairs(batch)) =
            {position} \cup {amount} \cup (IF metadata.has_leverage THEN {lever} ELSE {})
    BY UpdateMarginPairs
  <2>2. position[1] = "Active Position" /\ amount[1] = "New Margin" /\ lever[1] = "Leverage"
    OBVIOUS
  <2> HIDE DEF position, amount, lever, Pairs
  <2>3. Shown(Pairs(batch), "Active Position") = {position}
    BY <2>1, <2>2 DEF Shown
  <2>4. Shown(Pairs(batch), "New Margin") = {amount}
    BY <2>1, <2>2 DEF Shown
  <2> QED
    BY <2>3, <2>4 DEF position, amount
<1>2. ASSUME NEW batch, IsBatch(batch), CtxHasAction(batch, "UPDATE_ISOLATED_MARGIN")
      PROVE  Buys(batch) \in BOOLEAN /\ Ntli(batch) \in Int
  BY <1>2, HasAction, ActionsAssumption DEF MarginOf
<1>3. ASSUME NEW batch
      PROVE  UiUpdateMargin(metadata, batch).intent =
                 <<IF Ntli(batch) < 0 THEN "Remove" ELSE "Add", metadata.ticker, Side(batch)>>
  BY DEF UiUpdateMargin
<1>4. Pairs(a) = Pairs(b)
  OBVIOUS
<1> HIDE DEF Ntli, Buys, Pairs
<1>5. Side(a) = Side(b)
  <2>1. {<<"Active Position", Side(a), metadata.ticker>>}
        = {<<"Active Position", Side(b), metadata.ticker>>}
    BY <1>1, <1>4
  <2> HIDE DEF Side
  <2>2. <<"Active Position", Side(a), metadata.ticker>>
        = <<"Active Position", Side(b), metadata.ticker>>
    BY <2>1, SameSingle
  <2> QED
    BY <2>2
<1>6. Amount(a) = Amount(b)
  <2>1. {<<"New Margin", Amount(a)>>} = {<<"New Margin", Amount(b)>>}
    BY <1>1, <1>4
  <2> HIDE DEF Amount
  <2>2. <<"New Margin", Amount(a)>> = <<"New Margin", Amount(b)>>
    BY <2>1, SameSingle
  <2> QED
    BY <2>2
<1>7. Ntli(a) < 0 <=> Ntli(b) < 0
  <2>1. <<IF Ntli(a) < 0 THEN "Remove" ELSE "Add", metadata.ticker, Side(a)>>
        = <<IF Ntli(b) < 0 THEN "Remove" ELSE "Add", metadata.ticker, Side(b)>>
    BY <1>3
  <2>2. (IF Ntli(a) < 0 THEN "Remove" ELSE "Add") = IF Ntli(b) < 0 THEN "Remove" ELSE "Add"
    BY <2>1
  <2> QED
    BY <2>2
<1>8. Ntli(a) = Ntli(b)
  BY <1>2, <1>6, <1>7
<1>9. Buys(a) = Buys(b)
  BY <1>2, <1>5
<1>10. ASSUME NEW batch PROVE Essence(batch) = <<Buys(batch), Ntli(batch)>>
  BY DEF Essence, Buys, Ntli
<1> QED
  BY <1>8, <1>9, <1>10

(* The screen of a cancellation decides it (op_cancel.c:20-134). *)
LEMMA CancelDecided ==
    ASSUME metadata.op_type \in {"CANCEL", "CANCEL_SL", "CANCEL_TP", "CANCEL_TP_SL"},
           NEW a, IsBatch(a), UiCancelAccepts(metadata, a),
           NEW b, IsBatch(b), UiCancelAccepts(metadata, b),
           UiCancel(metadata, a).pairs = UiCancel(metadata, b).pairs
    PROVE  Essence(a) = Essence(b)
<1> DEFINE head == Headed(metadata, <<"Operation", metadata.op_type, metadata.ticker>>)
           n    == CancelCount(metadata.op_type)
<1>1. ASSUME NEW batch, IsBatch(batch), UiCancelAccepts(metadata, batch)
      PROVE  /\ UiCancel(metadata, batch).pairs = head \o ShowCancelOids(batch)
             /\ IsList(head) /\ IsList(ShowCancelOids(batch))
             /\ DOMAIN CancelsOf(batch) = 1..n
             /\ \A i \in 1..n : ShowCancelOids(batch)[i] = <<"Order ID", CancelsOf(batch)[i].oid>>
  <2>1. IsList(CancelsOf(batch))
    BY <1>1, HasAction, ActionsAssumption DEF UiCancelAccepts, CancelsOf
  <2>2. Len(CancelsOf(batch)) = n
    BY <1>1 DEF UiCancelAccepts
  <2> HIDE DEF n
  <2>3. DOMAIN CancelsOf(batch) = 1..n
    BY <2>1, <2>2, ListProperties
  <2>4. \A i \in 1..n : ShowCancelOids(batch)[i] = <<"Order ID", CancelsOf(batch)[i].oid>>
    BY <2>1, <2>2, CancelOids
  <2>5. /\ UiCancel(metadata, batch).pairs = head \o ShowCancelOids(batch)
        /\ IsList(head) /\ IsList(ShowCancelOids(batch))
    BY <2>1, CancelPairs
  <2> QED
    BY <2>3, <2>4, <2>5
<1> HIDE DEF head, n
<1>2. ShowCancelOids(a) = ShowCancelOids(b)
  BY <1>1, SameTail
<1>3. \A i \in 1..n : CancelsOf(a)[i].oid = CancelsOf(b)[i].oid
  <2> SUFFICES ASSUME NEW i \in 1..n
               PROVE  CancelsOf(a)[i].oid = CancelsOf(b)[i].oid
    OBVIOUS
  <2>1. <<"Order ID", CancelsOf(a)[i].oid>> = <<"Order ID", CancelsOf(b)[i].oid>>
    BY <1>1, <1>2
  <2> QED
    BY <2>1
<1>4. ASSUME NEW batch, IsBatch(batch), UiCancelAccepts(metadata, batch)
      PROVE  Essence(batch) = [i \in 1..n |-> CancelsOf(batch)[i].oid]
  BY <1>1, <1>4 DEF Essence
<1> QED
  BY <1>3, <1>4

(* The requests of an edit are a take profit, a stop loss, or one of each, *)
(* and every one is what the screen says of it.                            *)
LEMMA EditTriggers ==
    ASSUME NEW batch, IsBatch(batch), UiModifyAccepts(batch)
    PROVE  LET requests == ModifyRequests(batch)
               tps  == TpsIn(OrdersIn(requests))
               sls  == SlsIn(OrdersIn(requests))
               tp   == FirstOf(requests, tps)
               sl   == FirstOf(requests, sls)
               size == (IF tps # {} THEN tp.order ELSE sl.order).sz
           IN  /\ {<<request.oid, TriggerEssence(request.order)>> : request \in Range(requests)} =
                      (IF tps # {}
                       THEN {<<tp.oid, ClosingTrigger("TP", tp.order.trigger.trigger_px, size)>>}
                       ELSE {})
                      \cup (IF sls # {}
                            THEN {<<sl.oid,
                                    ClosingTrigger("SL", sl.order.trigger.trigger_px, size)>>}
                            ELSE {})
               /\ ~CtxHasAction(batch, "BULK_MODIFY") => /\ tps # {} => tp.oid = 0
                                                         /\ sls # {} => sl.oid = 0
<1> DEFINE requests == ModifyRequests(batch)
           orders   == OrdersIn(requests)
           n    == Len(requests)
           tps  == TpsIn(orders)
           sls  == SlsIn(orders)
           tp   == FirstOf(requests, tps)
           sl   == FirstOf(requests, sls)
           size == (IF tps # {} THEN tp.order ELSE sl.order).sz
           edits == CtxHasAction(batch, "BULK_MODIFY")
<1>1. /\ IsList(requests) /\ IsList(orders) /\ Len(orders) = n
      /\ \A i \in 1..n : orders[i] = requests[i].order /\ IsOrder(orders[i])
      /\ ~edits => \A i \in 1..n : requests[i].oid = 0
  BY EditRequests
<1>2. /\ Cardinality(tps) <= 1 /\ Cardinality(sls) <= 1
      /\ Len(orders) = Cardinality(tps) + Cardinality(sls)
      /\ \A i \in tps \cup sls : CheckTriggerCloseOrder(orders[i])
      /\ \A i, j \in tps \cup sls : orders[i].sz = orders[j].sz
  BY DEF UiModifyAccepts
<1>3. /\ n \in Nat /\ DOMAIN requests = 1..n /\ DOMAIN orders = 1..n
      /\ IsFiniteSet(tps) /\ tps \subseteq 1..n
      /\ IsFiniteSet(sls) /\ sls \subseteq 1..n
  <2>1. n \in Nat /\ DOMAIN requests = 1..n /\ DOMAIN orders = 1..n
    BY <1>1, ListProperties
  <2> QED
    BY <1>1, <2>1, KindsFinite
<1>4. /\ \A i \in tps : orders[i].order_type = "TRIGGER" /\ orders[i].trigger.tpsl = "TP"
      /\ \A i \in sls : orders[i].order_type = "TRIGGER" /\ orders[i].trigger.tpsl = "SL"
  BY DEF TpsIn, SlsIn, IsTp, IsSl
<1> HIDE DEF orders, tps, sls
<1>5. tps \cup sls = 1..n
  <2>1. tps \cap sls = {}
    BY <1>4
  <2>2. IsFiniteSet(tps \cup sls)
    BY <1>3, FS_Union
  <2>3. Cardinality(tps \cup sls)
            = Cardinality(tps) + Cardinality(sls) - Cardinality(tps \cap sls)
    BY <1>3, FS_Union
  <2>4. /\ Cardinality(tps) \in Nat /\ Cardinality(sls) \in Nat
        /\ Cardinality(tps \cap sls) = 0
    BY <1>3, <2>1, FS_CardinalityType, FS_EmptySet
  <2>5. Cardinality(tps \cup sls) = n
    BY <1>1, <1>2, <2>3, <2>4
  <2>6. IsFiniteSet(1..n) /\ Cardinality(1..n) = n
    <3> HIDE DEF n
    <3>1. n \in Nat
      BY <1>3
    <3>2. n \in Int /\ 1 \in Int
      BY <3>1
    <3>3. IsFiniteSet(1..n) /\ Cardinality(1..n) = IF 1 > n THEN 0 ELSE n - 1 + 1
      BY <3>2, FS_Interval
    <3>4. (IF 1 > n THEN 0 ELSE n - 1 + 1) = n
      BY <3>1
    <3> QED
      BY <3>3, <3>4
  <2>7. tps \cup sls \in SUBSET (1..n)
    BY <1>3
  <2> QED
    BY <2>5, <2>6, <2>7, FS_Subset
<1>6. /\ \A i : tps = {i} => i \in 1..n /\ tp = requests[i]
      /\ \A i : sls = {i} => i \in 1..n /\ sl = requests[i]
  <2>1. \A i \in Int : FirstOf(requests, {i}) = requests[i]
    BY FirstOfOne
  <2>2. \A i : tps = {i} => i \in 1..n /\ tp = requests[i]
    BY <1>3, <2>1
  <2>3. \A i : sls = {i} => i \in 1..n /\ sl = requests[i]
    BY <1>3, <2>1
  <2> QED
    BY <2>2, <2>3
<1>7. /\ tps # {} => \E i : tps = {i}
      /\ sls # {} => \E i : sls = {i}
  BY <1>2, <1>3, AtMostOne
<1> HIDE DEF tp, sl, requests, n
<1>8. \A i \in 1..n : requests[i].order.sz = size
  <2>1. CASE tps # {}
    <3>1. PICK i : tps = {i} /\ i \in 1..n /\ tp = requests[i]
      BY <1>6, <1>7, <2>1
    <3>2. size = orders[i].sz
      BY <1>1, <2>1, <3>1
    <3>3. ASSUME NEW j \in 1..n PROVE requests[j].order.sz = size
      <4>1. i \in tps \cup sls /\ j \in tps \cup sls
        BY <1>5, <3>1
      <4>2. orders[j].sz = orders[i].sz
        BY <1>2, <4>1
      <4>3. orders[j] = requests[j].order
        BY <1>1
      <4> QED
        BY <3>2, <4>2, <4>3
    <3> QED
      BY <3>3
  <2>2. CASE tps = {}
    <3>1. ASSUME sls # {} PROVE \A i \in 1..n : requests[i].order.sz = size
      <4>1. PICK i : sls = {i} /\ i \in 1..n /\ sl = requests[i]
        BY <1>6, <1>7, <3>1
      <4>2. size = orders[i].sz
        BY <1>1, <2>2, <4>1
      <4>3. ASSUME NEW j \in 1..n PROVE requests[j].order.sz = size
        <5>1. i \in tps \cup sls /\ j \in tps \cup sls
          BY <1>5, <4>1
        <5>2. orders[j].sz = orders[i].sz
          BY <1>2, <5>1
        <5>3. orders[j] = requests[j].order
          BY <1>1
        <5> QED
          BY <4>2, <5>2, <5>3
      <4> QED
        BY <4>3
    <3>2. ASSUME sls = {} PROVE 1..n = {}
      BY <1>5, <2>2, <3>2
    <3> QED
      BY <3>1, <3>2
  <2> QED
    BY <2>1, <2>2
<1>9. ASSUME NEW i \in 1..n
      PROVE  TriggerEssence(requests[i].order) =
                 ClosingTrigger(requests[i].order.trigger.tpsl,
                                requests[i].order.trigger.trigger_px, size)
  <2>1. /\ IsOrder(requests[i].order)
        /\ requests[i].order.order_type = "TRIGGER"
        /\ CheckTriggerCloseOrder(requests[i].order)
        /\ requests[i].order.sz = size
    BY <1>1, <1>2, <1>4, <1>5, <1>8
  <2> HIDE DEF size
  <2> QED
    BY <2>1, CheckedTrigger
<1> DEFINE Pair(request) == <<request.oid, TriggerEssence(request.order)>>
           First  == <<tp.oid, ClosingTrigger("TP", tp.order.trigger.trigger_px, size)>>
           Second == <<sl.oid, ClosingTrigger("SL", sl.order.trigger.trigger_px, size)>>
<1>10. {Pair(request) : request \in Range(requests)}
           = {Pair(requests[i]) : i \in tps} \cup {Pair(requests[i]) : i \in sls}
  <2>1. Range(requests) = {requests[i] : i \in 1..n}
    BY <1>3 DEF Range
  <2> HIDE DEF Pair
  <2> QED
    BY <1>5, <2>1
<1>11. {Pair(requests[i]) : i \in tps} = IF tps # {} THEN {First} ELSE {}
  <2>1. ASSUME tps # {} PROVE {Pair(requests[i]) : i \in tps} = {First}
    <3>1. PICK i : tps = {i} /\ i \in 1..n /\ tp = requests[i]
      BY <1>6, <1>7, <2>1
    <3>2. requests[i].order.trigger.tpsl = "TP"
      BY <1>1, <1>4, <3>1
    <3>3. Pair(requests[i]) = First
      BY <1>9, <3>1, <3>2
    <3> HIDE DEF Pair, First
    <3> QED
      BY <3>1, <3>3
  <2> HIDE DEF Pair, First
  <2> QED
    BY <2>1
<1>12. {Pair(requests[i]) : i \in sls} = IF sls # {} THEN {Second} ELSE {}
  <2>1. ASSUME sls # {} PROVE {Pair(requests[i]) : i \in sls} = {Second}
    <3>1. PICK i : sls = {i} /\ i \in 1..n /\ sl = requests[i]
      BY <1>6, <1>7, <2>1
    <3>2. requests[i].order.trigger.tpsl = "SL"
      BY <1>1, <1>4, <3>1
    <3>3. Pair(requests[i]) = Second
      BY <1>9, <3>1, <3>2
    <3> HIDE DEF Pair, Second
    <3> QED
      BY <3>1, <3>3
  <2> HIDE DEF Pair, Second
  <2> QED
    BY <2>1
<1>13. ~edits => /\ tps # {} => tp.oid = 0
                 /\ sls # {} => sl.oid = 0
  BY <1>1, <1>6, <1>7
<1>14. {Pair(request) : request \in Range(requests)}
           = (IF tps # {} THEN {First} ELSE {}) \cup (IF sls # {} THEN {Second} ELSE {})
  BY <1>10, <1>11, <1>12
<1> HIDE DEF edits
<1> QED
  BY <1>13, <1>14 DEF requests, orders, tps, sls, tp, sl, edits

(* What the screen of an edit says, item by item *)
LEMMA ModifyShows ==
    ASSUME NEW batch
    PROVE  LET pairs    == UiModify(metadata, batch).pairs
               edits    == CtxHasAction(batch, "BULK_MODIFY")
               requests == ModifyRequests(batch)
               tps      == TpsIn(OrdersIn(requests))
               sls      == SlsIn(OrdersIn(requests))
               tp       == FirstOf(requests, tps)
               sl       == FirstOf(requests, sls)
               any      == IF tps # {} THEN tp.order ELSE sl.order
           IN  /\ Shown(pairs, "Size") = {<<"Size", any.sz, metadata.ticker>>}
               /\ Shown(pairs, "Take Profit") =
                      IF tps # {} THEN {<<"Take Profit", edits, tp.order.trigger.trigger_px>>}
                      ELSE {}
               /\ Shown(pairs, "Stop Loss") =
                      IF sls # {} THEN {<<"Stop Loss", edits, sl.order.trigger.trigger_px>>}
                      ELSE {}
               /\ Shown(pairs, "TP Order ID") =
                      IF tps # {} /\ edits THEN {<<"TP Order ID", tp.oid>>} ELSE {}
               /\ Shown(pairs, "SL Order ID") =
                      IF sls # {} /\ edits THEN {<<"SL Order ID", sl.oid>>} ELSE {}
<1> DEFINE pairs    == UiModify(metadata, batch).pairs
           edits    == CtxHasAction(batch, "BULK_MODIFY")
           requests == ModifyRequests(batch)
           tps      == TpsIn(OrdersIn(requests))
           sls      == SlsIn(OrdersIn(requests))
           tp       == FirstOf(requests, tps)
           sl       == FirstOf(requests, sls)
           any      == IF tps # {} THEN tp.order ELSE sl.order
           position == <<"Active Position", ShortLong(any), metadata.ticker>>
           margin   == <<"Margin", metadata.margin>>
           lever    == <<"Leverage", metadata.leverage>>
           size     == <<"Size", any.sz, metadata.ticker>>
           profit   == <<"Take Profit", edits, tp.order.trigger.trigger_px>>
           profitId == <<"TP Order ID", tp.oid>>
           loss     == <<"Stop Loss", edits, sl.order.trigger.trigger_px>>
           lossId   == <<"SL Order ID", sl.oid>>
<1>1. Range(pairs) =
          {position}
          \cup (IF metadata.has_margin THEN {margin} ELSE {})
          \cup (IF metadata.has_leverage THEN {lever} ELSE {})
          \cup {size}
          \cup (IF tps # {} THEN {profit} ELSE {})
          \cup (IF tps # {} /\ edits THEN {profitId} ELSE {})
          \cup (IF sls # {} THEN {loss} ELSE {})
          \cup (IF sls # {} /\ edits THEN {lossId} ELSE {})
  <2>1. Range(pairs) = ModifyPairSet(metadata, batch)
    BY ModifyPairs
  <2> QED
    BY <2>1, Zenon DEF ModifyPairSet
<1>2. /\ position[1] = "Active Position" /\ margin[1] = "Margin" /\ lever[1] = "Leverage"
      /\ size[1] = "Size" /\ profit[1] = "Take Profit" /\ profitId[1] = "TP Order ID"
      /\ loss[1] = "Stop Loss" /\ lossId[1] = "SL Order ID"
  OBVIOUS
<1> HIDE DEF pairs, edits, tps, sls, position, margin, lever, size, profit, profitId, loss, lossId
<1>3. Shown(pairs, "Size") = {size}
  BY <1>1, <1>2 DEF Shown
<1>4. Shown(pairs, "Take Profit") = IF tps # {} THEN {profit} ELSE {}
  BY <1>1, <1>2 DEF Shown
<1>5. Shown(pairs, "Stop Loss") = IF sls # {} THEN {loss} ELSE {}
  BY <1>1, <1>2 DEF Shown
<1>6. Shown(pairs, "TP Order ID") = IF tps # {} /\ edits THEN {profitId} ELSE {}
  BY <1>1, <1>2 DEF Shown
<1>7. Shown(pairs, "SL Order ID") = IF sls # {} /\ edits THEN {lossId} ELSE {}
  BY <1>1, <1>2 DEF Shown
<1> QED
  BY <1>3, <1>4, <1>5, <1>6, <1>7
     DEF pairs, edits, tps, sls, size, profit, profitId, loss, lossId

(* The screen of a modification decides it (op_modify.c:74-128). *)
LEMMA ModifyDecided ==
    ASSUME metadata.op_type = "MODIFY",
           NEW a, IsBatch(a), UiModifyAccepts(a),
           NEW b, IsBatch(b), UiModifyAccepts(b),
           UiModify(metadata, a) = UiModify(metadata, b)
    PROVE  Essence(a) = Essence(b)
<1> DEFINE Edits(batch) == CtxHasAction(batch, "BULK_MODIFY")
           Requests(batch) == ModifyRequests(batch)
           Tps(batch)   == TpsIn(OrdersIn(Requests(batch)))
           Sls(batch)   == SlsIn(OrdersIn(Requests(batch)))
           Tp(batch)    == FirstOf(Requests(batch), Tps(batch))
           Sl(batch)    == FirstOf(Requests(batch), Sls(batch))
           TpPx(batch)  == Tp(batch).order.trigger.trigger_px
           SlPx(batch)  == Sl(batch).order.trigger.trigger_px
           Size(batch)  == (IF Tps(batch) # {} THEN Tp(batch).order ELSE Sl(batch).order).sz
           Pairs(batch) == UiModify(metadata, batch).pairs
<1>1. ASSUME NEW batch
      PROVE  /\ Shown(Pairs(batch), "Size") = {<<"Size", Size(batch), metadata.ticker>>}
             /\ Shown(Pairs(batch), "Take Profit") =
                    IF Tps(batch) # {} THEN {<<"Take Profit", Edits(batch), TpPx(batch)>>} ELSE {}
             /\ Shown(Pairs(batch), "Stop Loss") =
                    IF Sls(batch) # {} THEN {<<"Stop Loss", Edits(batch), SlPx(batch)>>} ELSE {}
             /\ Shown(Pairs(batch), "TP Order ID") =
                    IF Tps(batch) # {} /\ Edits(batch) THEN {<<"TP Order ID", Tp(batch).oid>>}
                    ELSE {}
             /\ Shown(Pairs(batch), "SL Order ID") =
                    IF Sls(batch) # {} /\ Edits(batch) THEN {<<"SL Order ID", Sl(batch).oid>>}
                    ELSE {}
  BY ModifyShows
<1>2. ASSUME NEW batch
      PROVE  UiModify(metadata, batch).intent =
                 <<IF Edits(batch) THEN "Edit" ELSE "Set", metadata.ticker,
                   Tps(batch) # {}, Sls(batch) # {}>>
  BY DEF UiModify
<1>3. ASSUME NEW batch, IsBatch(batch), UiModifyAccepts(batch)
      PROVE  /\ Essence(batch) =
                    (IF Tps(batch) # {}
                     THEN {<<Tp(batch).oid, ClosingTrigger("TP", TpPx(batch), Size(batch))>>}
                     ELSE {})
                    \cup (IF Sls(batch) # {}
                          THEN {<<Sl(batch).oid, ClosingTrigger("SL", SlPx(batch), Size(batch))>>}
                          ELSE {})
             /\ ~Edits(batch) => /\ Tps(batch) # {} => Tp(batch).oid = 0
                                 /\ Sls(batch) # {} => Sl(batch).oid = 0
  <2>1. Essence(batch) =
            {<<request.oid, TriggerEssence(request.order)>> : request \in Range(Requests(batch))}
    BY DEF Essence
  <2> HIDE DEF Essence
  <2> QED
    BY <1>3, <2>1, EditTriggers
<1>4. /\ Pairs(a) = Pairs(b)
      /\ UiModify(metadata, a).intent = UiModify(metadata, b).intent
  OBVIOUS
<1> HIDE DEF Edits, Requests, Tps, Sls, Tp, Sl, TpPx, SlPx, Size, Pairs
<1>5. Edits(a) <=> Edits(b)
  <2>1. (IF Edits(a) THEN "Edit" ELSE "Set") = IF Edits(b) THEN "Edit" ELSE "Set"
    BY <1>2, <1>4
  <2> QED
    BY <2>1
<1>6. Size(a) = Size(b)
  <2>1. {<<"Size", Size(a), metadata.ticker>>} = {<<"Size", Size(b), metadata.ticker>>}
    BY <1>1, <1>4
  <2>2. <<"Size", Size(a), metadata.ticker>> = <<"Size", Size(b), metadata.ticker>>
    BY <2>1, SameSingle
  <2> QED
    BY <2>2
<1>7. (Tps(a) # {} <=> Tps(b) # {}) /\ (Tps(a) # {} => TpPx(a) = TpPx(b))
  <2>1. (IF Tps(a) # {} THEN {<<"Take Profit", Edits(a), TpPx(a)>>} ELSE {})
        = (IF Tps(b) # {} THEN {<<"Take Profit", Edits(b), TpPx(b)>>} ELSE {})
    BY <1>1, <1>4
  <2>2. /\ Tps(a) # {} <=> Tps(b) # {}
        /\ Tps(a) # {} => <<"Take Profit", Edits(a), TpPx(a)>>
                              = <<"Take Profit", Edits(b), TpPx(b)>>
    BY <2>1, SameWhen
  <2> QED
    BY <2>2
<1>8. (Sls(a) # {} <=> Sls(b) # {}) /\ (Sls(a) # {} => SlPx(a) = SlPx(b))
  <2>1. (IF Sls(a) # {} THEN {<<"Stop Loss", Edits(a), SlPx(a)>>} ELSE {})
        = (IF Sls(b) # {} THEN {<<"Stop Loss", Edits(b), SlPx(b)>>} ELSE {})
    BY <1>1, <1>4
  <2>2. /\ Sls(a) # {} <=> Sls(b) # {}
        /\ Sls(a) # {} => <<"Stop Loss", Edits(a), SlPx(a)>>
                              = <<"Stop Loss", Edits(b), SlPx(b)>>
    BY <2>1, SameWhen
  <2> QED
    BY <2>2
<1>9. Tps(a) # {} => Tp(a).oid = Tp(b).oid
  <2>1. (IF Tps(a) # {} /\ Edits(a) THEN {<<"TP Order ID", Tp(a).oid>>} ELSE {})
        = (IF Tps(b) # {} /\ Edits(b) THEN {<<"TP Order ID", Tp(b).oid>>} ELSE {})
    BY <1>1, <1>4
  <2>2. Tps(a) # {} /\ Edits(a) => <<"TP Order ID", Tp(a).oid>> = <<"TP Order ID", Tp(b).oid>>
    BY <2>1, SameWhen
  <2>3. Tps(a) # {} /\ Edits(a) => Tp(a).oid = Tp(b).oid
    BY <2>2
  <2>4. Tps(a) # {} /\ ~Edits(a) => Tp(a).oid = 0 /\ Tp(b).oid = 0
    BY <1>3, <1>5, <1>7
  <2> QED
    BY <2>3, <2>4
<1>10. Sls(a) # {} => Sl(a).oid = Sl(b).oid
  <2>1. (IF Sls(a) # {} /\ Edits(a) THEN {<<"SL Order ID", Sl(a).oid>>} ELSE {})
        = (IF Sls(b) # {} /\ Edits(b) THEN {<<"SL Order ID", Sl(b).oid>>} ELSE {})
    BY <1>1, <1>4
  <2>2. Sls(a) # {} /\ Edits(a) => <<"SL Order ID", Sl(a).oid>> = <<"SL Order ID", Sl(b).oid>>
    BY <2>1, SameWhen
  <2>3. Sls(a) # {} /\ Edits(a) => Sl(a).oid = Sl(b).oid
    BY <2>2
  <2>4. Sls(a) # {} /\ ~Edits(a) => Sl(a).oid = 0 /\ Sl(b).oid = 0
    BY <1>3, <1>5, <1>8
  <2> QED
    BY <2>3, <2>4
<1> QED
  BY <1>3, <1>6, <1>7, <1>8, <1>9, <1>10

(* Two batches of a session that have one screen do the same thing, but   *)
(* for the terms on which a position is closed.                            *)
LEMMA ScreenDecides ==
    ASSUME metadata \in Metadata,
           NEW a, IsBatch(a), UiAccepts(metadata, a),
           NEW b, IsBatch(b), UiAccepts(metadata, b),
           Screen(metadata, a) = Screen(metadata, b)
    PROVE  IF metadata.op_type = "CLOSE" THEN PositionClosed(a) = PositionClosed(b)
           ELSE Essence(a) = Essence(b)
<1>1. /\ Top(metadata) \o Flow(metadata, a).pairs = Top(metadata) \o Flow(metadata, b).pairs
      /\ Flow(metadata, a).intent = Flow(metadata, b).intent
  <2>1. [pairs  |-> Top(metadata) \o Flow(metadata, a).pairs, intent |-> Flow(metadata, a).intent]
        = [pairs  |-> Top(metadata) \o Flow(metadata, b).pairs,
           intent |-> Flow(metadata, b).intent]
    BY ScreenIsFlow
  <2> QED
    BY <2>1
<1>2. IsList(Top(metadata))
  BY TopPairs
<1>3. ASSUME IsList(Flow(metadata, a).pairs), IsList(Flow(metadata, b).pairs)
      PROVE  Flow(metadata, a).pairs = Flow(metadata, b).pairs
  BY <1>1, <1>2, <1>3, SameTail
<1>4. metadata.op_type \in OpTypes
  BY MetadataAssumption
<1>5. CASE metadata.op_type = "ORDER"
  <2>1. UiOrderAccepts(a) /\ UiOrderAccepts(b)
    BY <1>5 DEF UiAccepts
  <2>2. /\ Flow(metadata, a) = UiOrder(metadata, a)
        /\ Flow(metadata, b) = UiOrder(metadata, b)
    BY <1>5 DEF Flow
  <2>3. IsList(UiOrder(metadata, a).pairs) /\ IsList(UiOrder(metadata, b).pairs)
    BY OrderPairs
  <2>4. UiOrder(metadata, a).pairs = UiOrder(metadata, b).pairs
    BY <1>3, <2>2, <2>3
  <2> QED
    BY <1>5, <2>1, <2>4, OrderDecided
<1>6. CASE metadata.op_type = "MODIFY"
  <2>1. UiModifyAccepts(a) /\ UiModifyAccepts(b)
    BY <1>6 DEF UiAccepts
  <2>2. /\ Flow(metadata, a) = UiModify(metadata, a)
        /\ Flow(metadata, b) = UiModify(metadata, b)
    BY <1>6 DEF Flow
  <2>3. IsList(UiModify(metadata, a).pairs) /\ IsList(UiModify(metadata, b).pairs)
    BY ModifyPairs
  <2>4. /\ UiModify(metadata, a).pairs = UiModify(metadata, b).pairs
        /\ UiModify(metadata, a).intent = UiModify(metadata, b).intent
    BY <1>1, <1>3, <2>2, <2>3
  <2>5. UiModify(metadata, a) = UiModify(metadata, b)
    <3>1. ASSUME NEW batch
          PROVE  UiModify(metadata, batch) = [pairs  |-> UiModify(metadata, batch).pairs,
                                              intent |-> UiModify(metadata, batch).intent]
      BY DEF UiModify
    <3> QED
      BY <2>4, <3>1
  <2> QED
    BY <1>6, <2>1, <2>5, ModifyDecided
<1>7. CASE metadata.op_type = "CLOSE"
  <2>1. UiCloseAccepts(a) /\ UiCloseAccepts(b)
    BY <1>7 DEF UiAccepts
  <2>2. /\ Flow(metadata, a) = UiClose(metadata, a)
        /\ Flow(metadata, b) = UiClose(metadata, b)
    BY <1>7 DEF Flow
  <2>3. IsList(UiClose(metadata, a).pairs) /\ IsList(UiClose(metadata, b).pairs)
    BY ClosePairs
  <2>4. UiClose(metadata, a).pairs = UiClose(metadata, b).pairs
    BY <1>3, <2>2, <2>3
  <2> QED
    BY <1>7, <2>1, <2>4, CloseDecided
<1>8. CASE metadata.op_type = "UPDATE_MARGIN"
  <2>1. /\ CtxHasAction(a, "UPDATE_ISOLATED_MARGIN")
        /\ CtxHasAction(b, "UPDATE_ISOLATED_MARGIN")
    BY <1>8 DEF UiAccepts
  <2>2. /\ Flow(metadata, a) = UiUpdateMargin(metadata, a)
        /\ Flow(metadata, b) = UiUpdateMargin(metadata, b)
    BY <1>8 DEF Flow
  <2>3. IsList(UiUpdateMargin(metadata, a).pairs) /\ IsList(UiUpdateMargin(metadata, b).pairs)
    BY UpdateMarginPairs
  <2>4. /\ UiUpdateMargin(metadata, a).pairs = UiUpdateMargin(metadata, b).pairs
        /\ UiUpdateMargin(metadata, a).intent = UiUpdateMargin(metadata, b).intent
    BY <1>1, <1>3, <2>2, <2>3
  <2>5. UiUpdateMargin(metadata, a) = UiUpdateMargin(metadata, b)
    <3>1. ASSUME NEW batch
          PROVE  UiUpdateMargin(metadata, batch) =
                     [pairs  |-> UiUpdateMargin(metadata, batch).pairs,
                      intent |-> UiUpdateMargin(metadata, batch).intent]
      BY DEF UiUpdateMargin
    <3> QED
      BY <2>4, <3>1
  <2> QED
    BY <1>8, <2>1, <2>5, UpdateMarginDecided
<1>9. CASE metadata.op_type \in {"CANCEL", "CANCEL_SL", "CANCEL_TP", "CANCEL_TP_SL"}
  <2>1. UiCancelAccepts(metadata, a) /\ UiCancelAccepts(metadata, b)
    BY <1>9 DEF UiAccepts
  <2>2. /\ Flow(metadata, a) = UiCancel(metadata, a)
        /\ Flow(metadata, b) = UiCancel(metadata, b)
    BY <1>9 DEF Flow
  <2>3. ASSUME NEW batch, IsBatch(batch), UiCancelAccepts(metadata, batch)
        PROVE  IsList(UiCancel(metadata, batch).pairs)
    <3>1. IsList(CancelsOf(batch))
      BY <2>3, HasAction, ActionsAssumption DEF UiCancelAccepts, CancelsOf
    <3> QED
      BY <3>1, CancelPairs
  <2>4. UiCancel(metadata, a).pairs = UiCancel(metadata, b).pairs
    BY <1>3, <2>1, <2>2, <2>3
  <2> QED
    BY <1>9, <2>1, <2>4, CancelDecided
<1> QED
  BY <1>4, <1>5, <1>6, <1>7, <1>8, <1>9 DEF OpTypes

(* Another action in the place of one of its type, or of the one action of *)
(* a MODIFY, still is a batch.                                             *)
LEMMA SubstituteIsBatch ==
    ASSUME IsBatch(actions), NEW i \in DOMAIN actions, NEW action \in Actions,
           \/ action.type = actions[i].type
           \/ metadata.op_type = "MODIFY" /\ action.type \in TypesOf("MODIFY")
    PROVE  IsBatch(Substitute(i, action))
<1> DEFINE other == Substitute(i, action)
<1>1. /\ actions \in Seq(Actions)
      /\ Len(actions) \in Nat /\ DOMAIN actions = 1..Len(actions)
      /\ \A j \in 1..Len(actions) : actions[j].type \in TypesOf(metadata.op_type)
      /\ \A j, k \in 1..Len(actions) : actions[j].type = actions[k].type => j = k
      /\ metadata.op_type = "MODIFY" => Len(actions) <= 1
  BY LenProperties DEF IsBatch
<1>2. /\ other \in [1..Len(actions) -> Actions]
      /\ DOMAIN other = 1..Len(actions)
      /\ \A j \in 1..Len(actions) : other[j] = IF j = i THEN action ELSE actions[j]
  BY <1>1 DEF Substitute
<1> HIDE DEF other
<1>3. other \in Seq(Actions) /\ Len(other) = Len(actions)
  BY <1>1, <1>2
<1>4. CASE action.type = actions[i].type
  <2>1. \A j \in 1..Len(actions) : other[j].type = actions[j].type
    BY <1>1, <1>2, <1>4
  <2>2. \A j \in 1..Len(other) : other[j].type \in TypesOf(metadata.op_type)
    BY <1>1, <1>3, <2>1
  <2>3. \A j, k \in 1..Len(other) : other[j].type = other[k].type => j = k
    BY <1>1, <1>3, <2>1
  <2> QED
    BY <1>1, <1>3, <2>2, <2>3 DEF IsBatch, other
<1>5. CASE metadata.op_type = "MODIFY" /\ action.type \in TypesOf("MODIFY")
  <2>1. \A j \in 1..Len(actions) : j = i
    BY <1>1, <1>5
  <2>2. \A j \in 1..Len(other) : other[j].type \in TypesOf(metadata.op_type)
    BY <1>2, <1>3, <1>5, <2>1
  <2>3. \A j, k \in 1..Len(other) : other[j].type = other[k].type => j = k
    BY <1>3, <2>1
  <2> QED
    BY <1>1, <1>3, <2>2, <2>3 DEF IsBatch, other
<1> QED
  BY <1>4, <1>5

(* "The set of actions signed is guaranteed to match what was shown on     *)
(* screen" (handler/sign_action.c:93-94), as far as it goes: in whatever   *)
(* session, no other action in the place of one of the batch has the same  *)
(* screen and does something else (op_order.c:161-182, op_modify.c:74-128, *)
(* op_cancel.c:28-103, op_update_margin.c:15-66); and where the session is *)
(* a CLOSE, none closes another side or size of the position (op_close.c:  *)
(* 16-28), while its time in force and price are not on the screen.        *)
THEOREM ScreenDecidesBatch == Spec => []ScreenDeterminesBatch
<1>1. Inv => ScreenDeterminesBatch
  <2> SUFFICES ASSUME Inv, Accepted,
                      NEW i \in DOMAIN actions, NEW action \in Actions,
                      PassesFor(i, action)
               PROVE  IF metadata.op_type = "CLOSE"
                      THEN PositionClosed(Substitute(i, action)) = PositionClosed(actions)
                      ELSE Essence(Substitute(i, action)) = Essence(actions)
    BY DEF ScreenDeterminesBatch
  <2>1. /\ metadata \in Metadata /\ IsBatch(actions)
        /\ UiAccepts(metadata, actions)
    BY DEF Inv, Accepted
  <2>2. IsBatch(Substitute(i, action))
    BY <2>1, SubstituteIsBatch DEF PassesFor
  <2>3. /\ UiAccepts(metadata, Substitute(i, action))
        /\ Screen(metadata, Substitute(i, action)) = Screen(metadata, actions)
    BY DEF PassesFor
  <2> QED
    BY <2>1, <2>2, <2>3, ScreenDecides
<1> QED
  BY <1>1, InvAlways, PTL
=============================================================================
