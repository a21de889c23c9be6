------------------------------ MODULE HlReview ------------------------------
(***************************************************************************)
(* The review screen (ui/operation.c and ui/op_*.c): which batches of      *)
(* actions the application agrees to show, and the tag/value pairs and the *)
(* intent it shows for them.  A pair is a tuple <<item, value, ...>> that  *)
(* keeps the variable parts of the text; fixed wording, spacing and number *)
(* formatting are left out, and a signed margin is shown by its magnitude. *)
(***************************************************************************)
EXTENDS HlAction, FiniteSets

(* An array with the number of its items *)
IsList(list) == list \in Seq(Range(list))

When(condition, list) == IF condition THEN list ELSE <<>>

-----------------------------------------------------------------------------
(* ui/common.c *)

IsLimit(order) == order.order_type = "LIMIT"

IsTp(order) == order.order_type = "TRIGGER" /\ order.trigger.tpsl = "TP"

IsSl(order) == order.order_type = "TRIGGER" /\ order.trigger.tpsl = "SL"

(* get_order_request and count_order_requests look for the orders of a     *)
(* kind; here a kind of orders is the set of their positions.              *)
LimitsIn(orders) == {i \in DOMAIN orders : IsLimit(orders[i])}

TpsIn(orders) == {i \in DOMAIN orders : IsTp(orders[i])}

SlsIn(orders) == {i \in DOMAIN orders : IsSl(orders[i])}

FirstOf(list, found) == list[CHOOSE i \in found : \A j \in found : i <= j]

ShortLong(order) == IF order.is_buy = order.reduce_only THEN "short" ELSE "long"

(* A faulty variant of CheckTriggerCloseOrder: the price that bounds the    *)
(* execution is free.                                                      *)
CheckTriggerCloseOrderAnyPrice(order) == order.reduce_only /\ order.trigger.is_market

CheckTriggerCloseOrder(order) ==
    /\ order.reduce_only
    /\ order.trigger.is_market
    /\ order.limit_px = order.trigger.trigger_px

CheckTriggerMatchesLimit(order, limit) ==
    /\ CheckTriggerCloseOrder(order)
    /\ order.is_buy # limit.is_buy
    /\ order.sz = limit.sz

ShowMargin(metadata) ==
    When(metadata.has_margin, << <<"Margin", metadata.margin>> >>)

ShowLeverage(metadata) ==
    When(metadata.has_leverage, << <<"Leverage", metadata.leverage>> >>)

-----------------------------------------------------------------------------
(* ui/op_order.c *)

OrdersOf(actions) == CtxGetAction(actions, "BULK_ORDER").body.orders

LeverageOf(actions) == CtxGetAction(actions, "UPDATE_LEVERAGE").body

UiOrderAccepts(actions) ==
    /\ CtxHasAction(actions, "BULK_ORDER")
    /\ LET orders == OrdersOf(actions)
           limit  == FirstOf(orders, LimitsIn(orders))
           tps    == TpsIn(orders)
           sls    == SlsIn(orders)
       IN  /\ Cardinality(LimitsIn(orders)) = 1
           /\ Cardinality(tps) <= 1
           /\ Cardinality(sls) <= 1
           /\ Len(orders) = 1 + Cardinality(tps) + Cardinality(sls)
           /\ \A i \in tps \cup sls : CheckTriggerMatchesLimit(orders[i], limit)
           /\ limit.limit.tif \in {"IOC", "GTC"}
    /\ CtxHasAction(actions, "UPDATE_LEVERAGE") => ~LeverageOf(actions).is_cross

UiOrder(metadata, actions) ==
    LET orders == OrdersOf(actions)
        limit  == FirstOf(orders, LimitsIn(orders))
        tps    == TpsIn(orders)
        sls    == SlsIn(orders)
        market == limit.limit.tif = "IOC"
        ticker == metadata.ticker
    IN  [pairs |->
            << <<"Operation", IF market THEN "Market" ELSE "Limit", ShortLong(limit), ticker>> >>
            \o When(~market, << <<"Limit Price", limit.limit_px>> >>)
            \o ShowMargin(metadata)
            \o When(CtxHasAction(actions, "UPDATE_LEVERAGE"),
                    << <<"Leverage", LeverageOf(actions).leverage>> >>)
            \o When(tps # {}, << <<"Take Profit", FirstOf(orders, tps).trigger.trigger_px>> >>)
            \o When(sls # {}, << <<"Stop Loss", FirstOf(orders, sls).trigger.trigger_px>> >>)
            \o << <<"Size", limit.sz, ticker>> >>,
         intent |-> IF market THEN <<"Open", ticker, ShortLong(limit)>>
                              ELSE <<"Open limit order", ticker>>]

-----------------------------------------------------------------------------
(* ui/op_modify.c: a BULK_MODIFY edits triggers, a BULK_ORDER sets them. *)

ModifyRequests(actions) ==
    IF CtxHasAction(actions, "BULK_MODIFY")
    THEN CtxGetAction(actions, "BULK_MODIFY").body.modifies
    ELSE LET orders == OrdersOf(actions)
         IN  [i \in DOMAIN orders |-> [oid |-> 0, order |-> orders[i]]]

OrdersIn(requests) == [i \in DOMAIN requests |-> requests[i].order]

UiModifyAccepts(actions) ==
    /\ CtxHasAction(actions, "BULK_MODIFY") \/ CtxHasAction(actions, "BULK_ORDER")
    /\ LET orders == OrdersIn(ModifyRequests(actions))
           tps    == TpsIn(orders)
           sls    == SlsIn(orders)
       IN  /\ Cardinality(tps) <= 1
           /\ Cardinality(sls) <= 1
           /\ Len(orders) = Cardinality(tps) + Cardinality(sls)
           /\ tps \cup sls # {}
           /\ \A i \in tps \cup sls : CheckTriggerCloseOrder(orders[i])
           /\ \A i, j \in tps \cup sls : orders[i].sz = orders[j].sz

UiModify(metadata, actions) ==
    LET edits    == CtxHasAction(actions, "BULK_MODIFY")
        requests == ModifyRequests(actions)
        tps      == TpsIn(OrdersIn(requests))
        sls      == SlsIn(OrdersIn(requests))
        tp       == FirstOf(requests, tps)
        sl       == FirstOf(requests, sls)
        any      == IF tps # {} THEN tp.order ELSE sl.order
    IN  [pairs |->
            << <<"Active Position", ShortLong(any), metadata.ticker>> >>
            \o ShowMargin(metadata)
            \o ShowLeverage(metadata)
            \o << <<"Size", any.sz, metadata.ticker>> >>
            \o When(tps # {}, << <<"Take Profit", edits, tp.order.trigger.trigger_px>> >>)
            \o When(tps # {} /\ edits, << <<"TP Order ID", tp.oid>> >>)
            \o When(sls # {}, << <<"Stop Loss", edits, sl.order.trigger.trigger_px>> >>)
            \o When(sls # {} /\ edits, << <<"SL Order ID", sl.oid>> >>),
         intent |-> <<IF edits THEN "Edit" ELSE "Set", metadata.ticker,
                      tps # {}, sls # {}>>]

-----------------------------------------------------------------------------
(* ui/op_cancel.c *)

CancelsOf(actions) == CtxGetAction(actions, "BULK_CANCEL").body.cancels

CancelCount(op_type) == IF op_type = "CANCEL_TP_SL" THEN 2 ELSE 1

UiCancelAccepts(metadata, actions) ==
    /\ CtxHasAction(actions, "BULK_CANCEL")
    /\ Len(CancelsOf(actions)) = CancelCount(metadata.op_type)

ShowCancelOids(actions) ==
    LET cancels == CancelsOf(actions)
    IN  [i \in DOMAIN cancels |-> <<"Order ID", cancels[i].oid>>]

UiCancel(metadata, actions) ==
    [pairs  |-> << <<"Operation", metadata.op_type, metadata.ticker>> >>
                \o ShowMargin(metadata)
                \o ShowLeverage(metadata)
                \o ShowCancelOids(actions),
     intent |-> <<"Cancel", metadata.ticker, metadata.op_type>>]

-----------------------------------------------------------------------------
(* ui/op_close.c *)

(* A faulty variant of UiCloseAccepts: only the first order is looked at. *)
UiCloseAcceptsByFirstOrder(actions) ==
    /\ CtxHasAction(actions, "BULK_ORDER")
    /\ IsLimit(OrdersOf(actions)[1])
    /\ OrdersOf(actions)[1].reduce_only

UiCloseAccepts(actions) ==
    /\ CtxHasAction(actions, "BULK_ORDER")
    /\ Len(OrdersOf(actions)) = 1
    /\ IsLimit(OrdersOf(actions)[1])
    /\ OrdersOf(actions)[1].reduce_only

UiClose(metadata, actions) ==
    LET limit == OrdersOf(actions)[1]
    IN  [pairs  |-> << <<"Position to close", ShortLong(limit), metadata.ticker>> >>
                    \o ShowMargin(metadata)
                    \o ShowLeverage(metadata)
                    \o << <<"Size", limit.sz, metadata.ticker>> >>,
         intent |-> <<"Close position", metadata.ticker, ShortLong(limit)>>]

-----------------------------------------------------------------------------
(* ui/op_update_margin.c *)

MarginOf(actions) == CtxGetAction(actions, "UPDATE_ISOLATED_MARGIN").body

UiUpdateMargin(metadata, actions) ==
    LET update    == MarginOf(actions)
        magnitude == IF update.ntli < 0 THEN -update.ntli ELSE update.ntli
        side      == IF update.is_buy THEN "Long" ELSE "Short"
    IN  [pairs  |-> << <<"Active Position", side, metadata.ticker>>,
                       <<"New Margin", magnitude>> >>
                    \o ShowLeverage(metadata),
         intent |-> <<IF update.ntli < 0 THEN "Remove" ELSE "Add", metadata.ticker, side>>]

-----------------------------------------------------------------------------
(* ui/operation.c: handle_ui returns false without opening a review, or    *)
(* opens one with the pairs below the protocol and network pairs.          *)

UiAccepts(metadata, actions) ==
    /\ metadata # NoMetadata
    /\ CASE metadata.op_type = "ORDER"         -> UiOrderAccepts(actions)
         [] metadata.op_type = "MODIFY"        -> UiModifyAccepts(actions)
         [] metadata.op_type = "CLOSE"         -> UiCloseAccepts(actions)
         [] metadata.op_type = "UPDATE_MARGIN" -> CtxHasAction(actions, "UPDATE_ISOLATED_MARGIN")
         [] OTHER                              -> UiCancelAccepts(metadata, actions)

Screen(metadata, actions) ==
    LET flow == CASE metadata.op_type = "ORDER"         -> UiOrder(metadata, actions)
                  [] metadata.op_type = "MODIFY"        -> UiModify(metadata, actions)
                  [] metadata.op_type = "CLOSE"         -> UiClose(metadata, actions)
                  [] metadata.op_type = "UPDATE_MARGIN" -> UiUpdateMargin(metadata, actions)
                  [] OTHER                              -> UiCancel(metadata, actions)
    IN  [flow EXCEPT !.pairs = << <<"Protocol">> >>
                               \o When(metadata.network = "TESTNET", << <<"Network", "Testnet">> >>)
                               \o flow.pairs]
=============================================================================
