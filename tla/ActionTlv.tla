------------------------------ MODULE ActionTlv ------------------------------
(***************************************************************************)
(* How an action is read from a payload (action.c and the parser of each   *)
(* action type).  Tags carry the names of the TAG_ enumerators; the        *)
(* enumerators of a value are checked one by one, as the handlers do.      *)
(*                                                                         *)
(* The C code keeps one context per structure, with the tags received so   *)
(* far and the structure being filled, which starts zeroed.  Here it also  *)
(* has request_tags, which stands for the tags of the sub-context that     *)
(* every request of a bulk action reuses.                                  *)
(***************************************************************************)
EXTENDS HlAction, TlvParser

CONSTANT Absent   \* an optional field that was not sent

Context(received, value) ==
    [ok |-> TRUE, received |-> received, value |-> value, request_tags |-> {}]

-----------------------------------------------------------------------------
(* order_request.c *)

LimitOrderTag(out, field) ==
    IF field.tag = "TIF" THEN StoreEnum(out, "tif", field.value, {"ALO", "IOC", "GTC"})
                         ELSE Refuse(out)

ParseLimitOrder(payload) ==
    Verify(RunTlvParser(LimitOrderTag, {}, payload, Context({}, [tif |-> "ALO"])),
           {"TIF"}, TRUE)

TriggerOrderTag(out, field) ==
    CASE field.tag = "IS_MARKET"    -> StoreScalar(out, "is_market", field.value)
      [] field.tag = "TRIGGER_PX"   -> StoreScalar(out, "trigger_px", field.value)
      [] field.tag = "TRIGGER_TYPE" -> StoreEnum(out, "tpsl", field.value, {"TP", "SL"})
      [] OTHER                      -> Refuse(out)

ZeroTrigger == [is_market |-> FALSE, trigger_px |-> "", tpsl |-> "TP"]

(* A faulty variant of ParseTriggerOrder: a trigger without its price. *)
ParseTriggerOrderWithoutPrice(payload) ==
    Verify(RunTlvParser(TriggerOrderTag, {}, payload, Context({}, ZeroTrigger)),
           {"IS_MARKET", "TRIGGER_TYPE"}, TRUE)

ParseTriggerOrder(payload) ==
    Verify(RunTlvParser(TriggerOrderTag, {}, payload, Context({}, ZeroTrigger)),
           {"IS_MARKET", "TRIGGER_PX", "TRIGGER_TYPE"}, TRUE)

(* handle_order: the layout of the body depends on the order type, which   *)
(* must have been received.                                                *)
OrderBody(out, payload) ==
    IF "ORDER_TYPE" \notin out.received THEN Refuse(out)
    ELSE IF out.value.order_type = "LIMIT"
         THEN StoreParsed(out, "limit", ParseLimitOrder(payload))
         ELSE StoreParsed(out, "trigger", ParseTriggerOrder(payload))

OrderRequestTag(out, field) ==
    CASE field.tag = "ORDER_TYPE"  ->
             StoreEnum(out, "order_type", field.value, {"LIMIT", "TRIGGER"})
      [] field.tag = "ASSET"       -> StoreScalar(out, "asset", field.value)
      [] field.tag = "IS_BUY"      -> StoreScalar(out, "is_buy", field.value)
      [] field.tag = "LIMIT_PX"    -> StoreScalar(out, "limit_px", field.value)
      [] field.tag = "SZ"          -> StoreScalar(out, "sz", field.value)
      [] field.tag = "REDUCE_ONLY" -> StoreScalar(out, "reduce_only", field.value)
      [] field.tag = "ORDER"       -> OrderBody(out, field.value)
      [] field.tag = "CLOID"       -> StoreScalar(out, "cloid", field.value)
      [] OTHER                     -> Refuse(out)

ZeroOrder ==
    [order_type |-> "LIMIT", asset |-> 0, is_buy |-> FALSE, limit_px |-> "", sz |-> "",
     reduce_only |-> FALSE, cloid |-> Absent]

(* parse_order_request, run in a sub-context that has received some tags *)
ParseOrderRequest(payload, metadata, received) ==
    LET out == RunTlvParser(OrderRequestTag, {}, payload, Context(received, ZeroOrder))
    IN  Verify(out, {"ORDER_TYPE", "ASSET", "IS_BUY", "LIMIT_PX", "SZ", "REDUCE_ONLY", "ORDER"},
               VerifyOrderRequest(out.value, metadata))

-----------------------------------------------------------------------------
(* The requests of a bulk action fill the array of its struct one after    *)
(* the other, all through one sub-context.                                 *)

(* A faulty variant of RequestContext: the wipe between requests is gone. *)
RequestContextKept(out) == out.request_tags

(* explicit_bzero on the sub-context *)
RequestContext(out) == {}

AppendRequest(out, name, parsed) ==
    IF parsed.ok
    THEN [out EXCEPT !.value = With(@, name, Append(out.value[name], parsed.value)),
                     !.request_tags = parsed.received]
    ELSE Refuse(out)

HasRoom(list) == Len(list) < BulkMaxSize

(* bulk_order.c *)

BuilderInfoTag(out, field) ==
    CASE field.tag = "BUILDER_ADDRESS" -> StoreScalar(out, "builder", field.value)
      [] field.tag = "BUILDER_FEE"     -> StoreScalar(out, "fee", field.value)
      [] OTHER                         -> Refuse(out)

ParseBuilderInfo(payload) ==
    Verify(RunTlvParser(BuilderInfoTag, {}, payload, Context({}, [builder |-> "", fee |-> 0])),
           {"BUILDER_ADDRESS", "BUILDER_FEE"}, TRUE)

BulkOrderTag(out, field, metadata) ==
    CASE field.tag = "ORDER" /\ HasRoom(out.value.orders) ->
             AppendRequest(out, "orders",
                           ParseOrderRequest(field.value, metadata, RequestContext(out)))
      [] field.tag = "GROUPING" ->
             StoreEnum(out, "grouping", field.value, {"na", "normalTpsl", "positionTpsl"})
      [] field.tag = "BUILDER"  -> StoreParsed(out, "builder", ParseBuilderInfo(field.value))
      [] OTHER                  -> Refuse(out)

ParseBulkOrderTlv(payload, metadata) ==
    LET Handle(out, field) == BulkOrderTag(out, field, metadata)
        zero == [orders |-> <<>>, grouping |-> "na", builder |-> Absent]
    IN  Verify(RunTlvParser(Handle, {"ORDER"}, payload, Context({}, zero)),
               {"ORDER", "GROUPING"}, TRUE)

(* bulk_modify.c *)

ModifyRequestTag(out, field, metadata) ==
    CASE field.tag = "ORDER" ->
             StoreParsed(out, "order", ParseOrderRequest(field.value, metadata, {}))
      [] field.tag = "OID"   -> StoreScalar(out, "oid", field.value)
      [] OTHER               -> Refuse(out)

ParseModifyRequest(payload, metadata, received) ==
    LET Handle(out, field) == ModifyRequestTag(out, field, metadata)
    IN  Verify(RunTlvParser(Handle, {}, payload, Context(received, [oid |-> 0])),
               {"ORDER", "OID"}, TRUE)

BulkModifyTag(out, field, metadata) ==
    IF field.tag = "MODIFY_REQUEST" /\ HasRoom(out.value.modifies)
    THEN AppendRequest(out, "modifies",
                       ParseModifyRequest(field.value, metadata, RequestContext(out)))
    ELSE Refuse(out)

ParseBulkModifyTlv(payload, metadata) ==
    LET Handle(out, field) == BulkModifyTag(out, field, metadata)
    IN  Verify(RunTlvParser(Handle, {"MODIFY_REQUEST"}, payload, Context({}, [modifies |-> <<>>])),
               {"MODIFY_REQUEST"}, TRUE)

(* bulk_cancel.c *)

CancelRequestTag(out, field) ==
    CASE field.tag = "ASSET" -> StoreScalar(out, "asset", field.value)
      [] field.tag = "OID"   -> StoreScalar(out, "oid", field.value)
      [] OTHER               -> Refuse(out)

ParseCancelRequest(payload, metadata, received) ==
    LET out == RunTlvParser(CancelRequestTag, {}, payload,
                            Context(received, [asset |-> 0, oid |-> 0]))
    IN  Verify(out, {"ASSET", "OID"}, VerifyCancelRequest(out.value, metadata))

BulkCancelTag(out, field, metadata) ==
    IF field.tag = "CANCEL_REQUEST" /\ HasRoom(out.value.cancels)
    THEN AppendRequest(out, "cancels",
                       ParseCancelRequest(field.value, metadata, RequestContext(out)))
    ELSE Refuse(out)

ParseBulkCancelTlv(payload, metadata) ==
    LET Handle(out, field) == BulkCancelTag(out, field, metadata)
    IN  Verify(RunTlvParser(Handle, {"CANCEL_REQUEST"}, payload, Context({}, [cancels |-> <<>>])),
               {"CANCEL_REQUEST"}, TRUE)

-----------------------------------------------------------------------------
(* update_leverage.c, update_isolated_margin.c, approve_builder_fee.c and  *)
(* user_set_abstraction.c                                                  *)

UpdateLeverageTag(out, field) ==
    CASE field.tag = "ASSET"    -> StoreScalar(out, "asset", field.value)
      [] field.tag = "IS_CROSS" -> StoreScalar(out, "is_cross", field.value)
      [] field.tag = "LEVERAGE" -> StoreScalar(out, "leverage", field.value)
      [] OTHER                  -> Refuse(out)

ParseUpdateLeverage(payload, metadata) ==
    LET zero == [asset |-> 0, is_cross |-> FALSE, leverage |-> 0]
        out  == RunTlvParser(UpdateLeverageTag, {}, payload, Context({}, zero))
    IN  Verify(out, {"ASSET", "IS_CROSS", "LEVERAGE"}, VerifyUpdateLeverage(out.value, metadata))

UpdateIsolatedMarginTag(out, field) ==
    CASE field.tag = "ASSET"  -> StoreScalar(out, "asset", field.value)
      [] field.tag = "IS_BUY" -> StoreScalar(out, "is_buy", field.value)
      [] field.tag = "NTLI"   -> StoreScalar(out, "ntli", field.value)
      [] OTHER                -> Refuse(out)

ParseUpdateIsolatedMargin(payload, metadata) ==
    LET zero == [asset |-> 0, is_buy |-> FALSE, ntli |-> 0]
        out  == RunTlvParser(UpdateIsolatedMarginTag, {}, payload, Context({}, zero))
    IN  Verify(out, {"ASSET", "IS_BUY", "NTLI"}, VerifyUpdateIsolatedMargin(out.value, metadata))

ApproveBuilderFeeTag(out, field) ==
    CASE field.tag = "SIGNATURE_CHAIN_ID" -> StoreScalar(out, "signature_chain_id", field.value)
      [] field.tag = "MAX_FEE_RATE"       -> StoreScalar(out, "max_fee_rate", field.value)
      [] field.tag = "BUILDER_ADDR"       -> StoreScalar(out, "builder", field.value)
      [] OTHER                            -> Refuse(out)

ParseApproveBuilderFee(payload) ==
    LET zero == [signature_chain_id |-> 0, max_fee_rate |-> "", builder |-> ""]
    IN  Verify(RunTlvParser(ApproveBuilderFeeTag, {}, payload, Context({}, zero)),
               {"SIGNATURE_CHAIN_ID", "MAX_FEE_RATE", "BUILDER_ADDR"}, TRUE)

UserSetAbstractionTag(out, field) ==
    CASE field.tag = "SIGNATURE_CHAIN_ID" -> StoreScalar(out, "signature_chain_id", field.value)
      [] field.tag = "ABSTRACTION"        -> StoreScalar(out, "abstraction", field.value)
      [] OTHER                            -> Refuse(out)

(* Here it is verify_user_set_abstraction that checks the enumerator. *)
ParseUserSetAbstraction(payload) ==
    LET zero == [signature_chain_id |-> 0, abstraction |-> "disabled"]
        out  == RunTlvParser(UserSetAbstractionTag, {}, payload, Context({}, zero))
    IN  Verify(out, {"SIGNATURE_CHAIN_ID", "ABSTRACTION"},
               out.value.abstraction \in {"disabled", "unifiedAccount", "portfolioMargin"})

-----------------------------------------------------------------------------
(* action.c *)

(* handle_action: the parser of the body, chosen by the type received. *)
ActionBody(out, payload, metadata) ==
    LET type   == out.value.type
        parsed == CASE type = "BULK_ORDER"      -> ParseBulkOrderTlv(payload, metadata)
                    [] type = "BULK_MODIFY"     -> ParseBulkModifyTlv(payload, metadata)
                    [] type = "BULK_CANCEL"     -> ParseBulkCancelTlv(payload, metadata)
                    [] type = "UPDATE_LEVERAGE" -> ParseUpdateLeverage(payload, metadata)
                    [] type = "APPROVE_BUILDER_FEE" -> ParseApproveBuilderFee(payload)
                    [] type = "UPDATE_ISOLATED_MARGIN" ->
                           ParseUpdateIsolatedMargin(payload, metadata)
                    [] type = "USER_SET_ABSTRACTION" -> ParseUserSetAbstraction(payload)
    IN  IF "ACTION_TYPE" \in out.received THEN StoreParsed(out, "body", parsed) ELSE Refuse(out)

ActionTag(out, field, metadata) ==
    CASE field.tag = "STRUCT_TYPE"    -> IF field.value = "ACTION" THEN out ELSE Refuse(out)
      [] field.tag = "STRUCT_VERSION" -> IF field.value = 1 THEN out ELSE Refuse(out)
      [] field.tag = "ACTION_TYPE"    -> StoreEnum(out, "type", field.value, ActionTypes)
      [] field.tag = "NONCE"          -> StoreScalar(out, "nonce", field.value)
      [] field.tag = "ACTION"         -> ActionBody(out, field.value, metadata)
      [] OTHER                        -> Refuse(out)

(* parse_action, up to the compatibility check and the push *)
ParseAction(payload, metadata) ==
    LET Handle(out, field) == ActionTag(out, field, metadata)
        zero == [type |-> "BULK_ORDER", nonce |-> 0]
    IN  Verify(RunTlvParser(Handle, {}, payload, Context({}, zero)),
               {"STRUCT_TYPE", "STRUCT_VERSION", "ACTION_TYPE", "NONCE", "ACTION"}, TRUE)

AcceptsPayload(ctx, payload) ==
    /\ ctx.metadata # NoMetadata
    /\ LET out == ParseAction(payload, ctx.metadata)
       IN  /\ out.ok
           /\ IsActionCompatible(ctx.actions, out.value.type, ctx.metadata.op_type)
           /\ CtxCanPush(ctx, out.value)
=============================================================================
