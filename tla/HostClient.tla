----------------------------- MODULE HostClient -----------------------------
(***************************************************************************)
(* What a host sends: the serialize methods of the Python client in        *)
(* src/tests/application_client.  A payload is a sequence of fields        *)
(* [tag, value]; a nested structure is the sequence of its fields.  The    *)
(* tags have the names the C enumerators give them.  Objects are the       *)
(* records of HlAction, so that what a payload says can be compared with   *)
(* what the device understood; where these have no has_ flag, None is      *)
(* Absent.                                                                 *)
(***************************************************************************)
EXTENDS Sequences

CONSTANT Absent

(* serialize_field *)
Field(tag, value) == [tag |-> tag, value |-> value]

(* if value is not None *)
OptionalField(tag, sent, encoded) == IF sent THEN <<Field(tag, encoded)>> ELSE <<>>

(* for request in requests *)
FieldsOf(tag, encoded) == [i \in DOMAIN encoded |-> Field(tag, encoded[i])]

-----------------------------------------------------------------------------
(* Actions *)

EncodeLimit(limit) == <<Field("TIF", limit.tif)>>

EncodeTrigger(trigger) ==
    <<Field("IS_MARKET", trigger.is_market), Field("TRIGGER_PX", trigger.trigger_px),
      Field("TRIGGER_TYPE", trigger.tpsl)>>

EncodeOrderRequest(order) ==
    <<Field("ORDER_TYPE", order.order_type), Field("ASSET", order.asset),
      Field("IS_BUY", order.is_buy), Field("LIMIT_PX", order.limit_px),
      Field("SZ", order.sz), Field("REDUCE_ONLY", order.reduce_only),
      Field("ORDER", IF order.order_type = "LIMIT" THEN EncodeLimit(order.limit)
                                                   ELSE EncodeTrigger(order.trigger))>>
    \o OptionalField("CLOID", order.cloid # Absent, order.cloid)

EncodeBuilderInfo(builder) ==
    <<Field("BUILDER_ADDRESS", builder.builder), Field("BUILDER_FEE", builder.fee)>>

EncodeBulkOrder(body) ==
    FieldsOf("ORDER", [i \in DOMAIN body.orders |-> EncodeOrderRequest(body.orders[i])])
    \o <<Field("GROUPING", body.grouping)>>
    \o OptionalField("BUILDER", body.builder # Absent, EncodeBuilderInfo(body.builder))

EncodeModifyRequest(modify) ==
    <<Field("ORDER", EncodeOrderRequest(modify.order)), Field("OID", modify.oid)>>

EncodeBulkModify(body) ==
    FieldsOf("MODIFY_REQUEST", [i \in DOMAIN body.modifies |-> EncodeModifyRequest(body.modifies[i])])

EncodeCancelRequest(cancel) == <<Field("ASSET", cancel.asset), Field("OID", cancel.oid)>>

EncodeBulkCancel(body) ==
    FieldsOf("CANCEL_REQUEST", [i \in DOMAIN body.cancels |-> EncodeCancelRequest(body.cancels[i])])

EncodeUpdateLeverage(body) ==
    <<Field("ASSET", body.asset), Field("IS_CROSS", body.is_cross),
      Field("LEVERAGE", body.leverage)>>

EncodeUpdateIsolatedMargin(body) ==
    <<Field("ASSET", body.asset), Field("IS_BUY", body.is_buy), Field("NTLI", body.ntli)>>

EncodeApproveBuilderFee(body) ==
    <<Field("SIGNATURE_CHAIN_ID", body.signature_chain_id),
      Field("MAX_FEE_RATE", body.max_fee_rate), Field("BUILDER_ADDR", body.builder)>>

EncodeUserSetAbstraction(body) ==
    <<Field("SIGNATURE_CHAIN_ID", body.signature_chain_id),
      Field("ABSTRACTION", body.abstraction)>>

EncodeBody(action) ==
    LET body == action.body
    IN  CASE action.type = "BULK_ORDER"             -> EncodeBulkOrder(body)
          [] action.type = "BULK_MODIFY"            -> EncodeBulkModify(body)
          [] action.type = "BULK_CANCEL"            -> EncodeBulkCancel(body)
          [] action.type = "UPDATE_LEVERAGE"        -> EncodeUpdateLeverage(body)
          [] action.type = "UPDATE_ISOLATED_MARGIN" -> EncodeUpdateIsolatedMargin(body)
          [] action.type = "APPROVE_BUILDER_FEE"    -> EncodeApproveBuilderFee(body)
          [] action.type = "USER_SET_ABSTRACTION"   -> EncodeUserSetAbstraction(body)

(* SetAction.serialize *)
EncodeAction(action) ==
    <<Field("STRUCT_TYPE", "ACTION"), Field("STRUCT_VERSION", 1),
      Field("ACTION_TYPE", action.type), Field("NONCE", action.nonce),
      Field("ACTION", EncodeBody(action))>>

-----------------------------------------------------------------------------
(* Metadata.  A signature is a term that names the fields it was made of,  *)
(* so a signature made of other fields is another signature.               *)

SignatureOf(fields) == [over |-> fields]

(* sign_data with the key of the metadata *)
Signed(fields) == Append(fields, Field("SIGNATURE", SignatureOf(fields)))

(* ActionMetadata.serialize; an optional field is None when the has_ flag  *)
(* of the record is not set.                                               *)
MetadataFields(metadata) ==
    <<Field("STRUCT_TYPE", "METADATA"), Field("STRUCT_VERSION", 1),
      Field("OPERATION_TYPE", metadata.op_type), Field("ASSET_ID", metadata.asset_id),
      Field("ASSET_TICKER", metadata.ticker), Field("NETWORK", metadata.network)>>
    \o OptionalField("BUILDER_ADDR", metadata.has_builder_addr, metadata.builder_addr)
    \o OptionalField("MARGIN", metadata.has_margin, metadata.margin)
    \o OptionalField("LEVERAGE", metadata.has_leverage, metadata.leverage)

EncodeMetadata(metadata) == Signed(MetadataFields(metadata))
=============================================================================
