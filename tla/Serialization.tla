---------------------------- MODULE Serialization ----------------------------
(***************************************************************************)
(* The MessagePack form of an action (the _serialize functions), which is  *)
(* hashed into the connection id.  The output is a sequence of items, one  *)
(* per call of the encoder; an item is <<kind, value>>.  An action is      *)
(* written in parts, as the code does: a header, its requests one by one,  *)
(* a trailer; an action without requests is all header.                    *)
(*                                                                         *)
(* Texts are compared and measured, never taken apart: TextLength is       *)
(* strlen.  A client order id and an address stand for the hexadecimal     *)
(* text they are written as.  The largest integers the checker has are     *)
(* below 2^32, so the bound above which an integer takes nine bytes is a   *)
(* constant.                                                               *)
(***************************************************************************)
EXTENDS HlAction

CONSTANTS
    Absent,           \* an optional field that was not sent
    TextLength(_),    \* strlen
    NumericTexts,     \* prices and sizes
    Cloids,           \* client order ids, as they are written
    Addresses,        \* addresses, as they are written
    U32Limit          \* integers from here on take nine bytes

(* A numeric field holds 1 to NUMERIC_STRING_LENGTH characters. *)
ASSUME NumericTextsAssumption == \A text \in NumericTexts : TextLength(text) \in 1..21

(* 16 and 20 bytes in hexadecimal, after "0x" *)
ASSUME HexTextsAssumption ==
    /\ \A text \in Cloids : TextLength(text) = 34
    /\ \A text \in Addresses : TextLength(text) = 42

ASSUME FixedTextsAssumption ==
    /\ \A text \in {"a", "b", "c", "f", "o", "p", "r", "s", "t"} : TextLength(text) = 1
    /\ \A text \in {"tp", "sl", "na"} : TextLength(text) = 2
    /\ \A text \in {"oid", "tif", "Alo", "Ioc", "Gtc"} : TextLength(text) = 3
    /\ \A text \in {"type", "tpsl", "ntli"} : TextLength(text) = 4
    /\ \A text \in {"order", "limit", "asset", "isBuy"} : TextLength(text) = 5
    /\ \A text \in {"orders", "cancel"} : TextLength(text) = 6
    /\ \A text \in {"trigger", "cancels", "builder", "isCross"} : TextLength(text) = 7
    /\ \A text \in {"isMarket", "modifies", "grouping", "leverage"} : TextLength(text) = 8
    /\ TextLength("triggerPx") = 9 /\ TextLength("normalTpsl") = 10
    /\ TextLength("batchModify") = 11 /\ TextLength("positionTpsl") = 12
    /\ TextLength("updateLeverage") = 14 /\ TextLength("updateIsolatedMargin") = 20

ASSUME U32LimitAssumption == U32Limit \in Nat /\ U32Limit > 65536

-----------------------------------------------------------------------------
(* What the parsers fill in: the structures of the actions that have a     *)
(* MessagePack form                                                        *)

LimitOrders ==
    [order_type : {"LIMIT"}, limit : [tif : {"ALO", "IOC", "GTC"}],
     asset : Nat, is_buy : BOOLEAN, limit_px : NumericTexts, sz : NumericTexts,
     reduce_only : BOOLEAN, cloid : Cloids \cup {Absent}]

TriggerOrders ==
    [order_type : {"TRIGGER"},
     trigger : [is_market : BOOLEAN, trigger_px : NumericTexts, tpsl : {"TP", "SL"}],
     asset : Nat, is_buy : BOOLEAN, limit_px : NumericTexts, sz : NumericTexts,
     reduce_only : BOOLEAN, cloid : Cloids \cup {Absent}]

(* s_order_request *)
OrderRequests == LimitOrders \cup TriggerOrders

(* s_bulk_order *)
BulkOrders ==
    [orders : Seq(OrderRequests), grouping : {"na", "normalTpsl", "positionTpsl"},
     builder : [builder : Addresses, fee : Nat] \cup {Absent}]

(* s_bulk_modify *)
BulkModifies == [modifies : Seq([oid : Nat, order : OrderRequests])]

(* s_bulk_cancel *)
BulkCancels == [cancels : Seq([asset : Nat, oid : Nat])]

(* s_update_leverage *)
LeverageUpdates == [asset : Nat, is_cross : BOOLEAN, leverage : Nat]

(* s_update_isolated_margin *)
MarginUpdates == [asset : Nat, is_buy : BOOLEAN, ntli : Int]

-----------------------------------------------------------------------------
(* The encoder writes every integer and every text in the shortest form.   *)

Str(text) == <<"str", text>>

Bool(value) == <<"bool", value>>

Num(value) == <<"num", value>>

Map(size) == <<"map", size>>

Array(size) == <<"array", size>>

TextWidth(length) == IF length <= 31 THEN 1 + length ELSE 2 + length

NumWidth(value) ==
    IF value \in -32..127 THEN 1
    ELSE IF value \in -128..255 THEN 2
    ELSE IF value \in -32768..65535 THEN 3
    ELSE IF value \in -(U32Limit \div 2)..(U32Limit - 1) THEN 5
    ELSE 9

CountWidth(count) == IF count <= 15 THEN 1 ELSE 3

ItemWidth(item) ==
    CASE item[1] = "str"   -> TextWidth(TextLength(item[2]))
      [] item[1] = "num"   -> NumWidth(item[2])
      [] item[1] = "array" -> CountWidth(item[2])
      [] OTHER             -> 1

-----------------------------------------------------------------------------
(* Orders *)

(* A faulty variant of TifText: a case copied and not changed. *)
TifTextCopied(tif) == CASE tif = "ALO" -> "Ioc" [] tif = "IOC" -> "Ioc" [] tif = "GTC" -> "Gtc"

TifText(tif) == CASE tif = "ALO" -> "Alo" [] tif = "IOC" -> "Ioc" [] tif = "GTC" -> "Gtc"

LimitItems(limit) == <<Str("limit"), Map(1), Str("tif"), Str(TifText(limit.tif))>>

TriggerItems(trigger) ==
    <<Str("trigger"), Map(3), Str("isMarket"), Bool(trigger.is_market),
      Str("triggerPx"), Str(trigger.trigger_px),
      Str("tpsl"), Str(IF trigger.tpsl = "TP" THEN "tp" ELSE "sl")>>

(* A faulty variant of OrderMap: the client order id is not counted. *)
OrderMapFixed(order) == Map(6)

OrderMap(order) == Map(IF order.cloid # Absent THEN 7 ELSE 6)

OrderItems(order) ==
    <<OrderMap(order), Str("a"), Num(order.asset), Str("b"), Bool(order.is_buy),
      Str("p"), Str(order.limit_px), Str("s"), Str(order.sz),
      Str("r"), Bool(order.reduce_only), Str("t"), Map(1)>>
    \o (IF order.order_type = "LIMIT" THEN LimitItems(order.limit)
                                      ELSE TriggerItems(order.trigger))
    \o (IF order.cloid # Absent THEN <<Str("c"), Str(order.cloid)>> ELSE <<>>)

ModifyItems(modify) ==
    <<Map(2), Str("oid"), Num(modify.oid), Str("order")>> \o OrderItems(modify.order)

CancelItems(cancel) ==
    <<Map(2), Str("a"), Num(cancel.asset), Str("o"), Num(cancel.oid)>>

-----------------------------------------------------------------------------
(* Actions *)

RequestsOf(action) ==
    CASE action.type = "BULK_ORDER"  -> action.body.orders
      [] action.type = "BULK_MODIFY" -> action.body.modifies
      [] action.type = "BULK_CANCEL" -> action.body.cancels
      [] OTHER -> <<>>

HeaderItems(action) ==
    LET body  == action.body
        count == Len(RequestsOf(action))
    IN  CASE action.type = "BULK_ORDER" ->
                 <<Map(IF body.builder # Absent THEN 4 ELSE 3), Str("type"), Str("order"),
                   Str("orders"), Array(count)>>
          [] action.type = "BULK_MODIFY" ->
                 <<Map(2), Str("type"), Str("batchModify"), Str("modifies"), Array(count)>>
          [] action.type = "BULK_CANCEL" ->
                 <<Map(2), Str("type"), Str("cancel"), Str("cancels"), Array(count)>>
          [] action.type = "UPDATE_LEVERAGE" ->
                 <<Map(4), Str("type"), Str("updateLeverage"), Str("asset"), Num(body.asset),
                   Str("isCross"), Bool(body.is_cross), Str("leverage"), Num(body.leverage)>>
          [] action.type = "UPDATE_ISOLATED_MARGIN" ->
                 <<Map(4), Str("type"), Str("updateIsolatedMargin"), Str("asset"),
                   Num(body.asset), Str("isBuy"), Bool(body.is_buy),
                   Str("ntli"), Num(body.ntli)>>

RequestItems(action, i) ==
    CASE action.type = "BULK_ORDER"  -> OrderItems(action.body.orders[i])
      [] action.type = "BULK_MODIFY" -> ModifyItems(action.body.modifies[i])
      [] action.type = "BULK_CANCEL" -> CancelItems(action.body.cancels[i])

(* builder_serialize *)
BuilderItems(builder) ==
    <<Str("builder"), Map(2), Str("b"), Str(builder.builder), Str("f"), Num(builder.fee)>>

TrailerItems(action) ==
    IF action.type # "BULK_ORDER" THEN <<>>
    ELSE <<Str("grouping"), Str(action.body.grouping)>>
         \o (IF action.body.builder # Absent THEN BuilderItems(action.body.builder) ELSE <<>>)

(* What has been written after n requests *)
ItemsThrough(action, n) ==
    LET through[i \in 0..Len(RequestsOf(action))] ==
            IF i = 0 THEN HeaderItems(action) ELSE through[i - 1] \o RequestItems(action, i)
    IN  through[n]

(* action_serialize *)
ActionItems(action) == ItemsThrough(action, Len(RequestsOf(action))) \o TrailerItems(action)

(* The action types that have a MessagePack form *)
SerializedTypes == {"BULK_ORDER", "BULK_MODIFY", "BULK_CANCEL", "UPDATE_LEVERAGE",
                    "UPDATE_ISOLATED_MARGIN"}

-----------------------------------------------------------------------------
(* The bytes each part takes: the widths of the fixed texts are summed up, *)
(* 34 characters of a client order id and 42 of an address among them.     *)

TextSize(text) == TextWidth(TextLength(text))

OrderSize(order) ==
    16 + NumWidth(order.asset) + TextSize(order.limit_px) + TextSize(order.sz)
    + (IF order.order_type = "LIMIT" THEN 15 ELSE 37 + TextSize(order.trigger.trigger_px))
    + (IF order.cloid # Absent THEN 2 + 36 ELSE 0)

HeaderSize(action) ==
    LET body  == action.body
        count == CountWidth(Len(RequestsOf(action)))
    IN  CASE action.type = "BULK_ORDER"  -> 19 + count
          [] action.type = "BULK_MODIFY" -> 27 + count
          [] action.type = "BULK_CANCEL" -> 21 + count
          [] action.type = "UPDATE_LEVERAGE" ->
                 45 + NumWidth(body.asset) + NumWidth(body.leverage)
          [] action.type = "UPDATE_ISOLATED_MARGIN" ->
                 45 + NumWidth(body.asset) + NumWidth(body.ntli)

RequestSize(action, i) ==
    CASE action.type = "BULK_ORDER"  -> OrderSize(action.body.orders[i])
      [] action.type = "BULK_MODIFY" ->
             11 + NumWidth(action.body.modifies[i].oid) + OrderSize(action.body.modifies[i].order)
      [] action.type = "BULK_CANCEL" ->
             5 + NumWidth(action.body.cancels[i].asset) + NumWidth(action.body.cancels[i].oid)

GroupingSize(grouping) ==
    CASE grouping = "na" -> 3 [] grouping = "normalTpsl" -> 11 [] grouping = "positionTpsl" -> 13

TrailerSize(action) ==
    IF action.type # "BULK_ORDER" THEN 0
    ELSE 9 + GroupingSize(action.body.grouping)
         + (IF action.body.builder # Absent THEN 57 + NumWidth(action.body.builder.fee) ELSE 0)
=============================================================================
