----------------------------- MODULE MCPayloads -----------------------------
(***************************************************************************)
(* Bounded inputs for Payloads: an action of every type, with the optional *)
(* fields sent and not sent, with none, one and too many requests and with *)
(* a foreign asset; a context without metadata, contexts with an empty     *)
(* queue in which an action of every type is accepted, and one whose queue *)
(* takes no more; and one metadata per operation type, with none, each or  *)
(* all of the optional fields.                                             *)
(***************************************************************************)
EXTENDS Payloads

Meta(op_type) == [op_type |-> op_type, asset_id |-> 1]

MCContexts ==
    {EmptyCtx}
    \cup {CtxSaveActionMetadata(EmptyCtx, Meta(op_type)) :
             op_type \in {"ORDER", "MODIFY", "CANCEL", "UPDATE_MARGIN"}}
    \cup {CtxPushAction(CtxSaveActionMetadata(EmptyCtx, Meta("MODIFY")),
                         [type |-> "BULK_MODIFY"])}

Limit(asset, cloid) ==
    [asset |-> asset, is_buy |-> TRUE, limit_px |-> "100", sz |-> "1", reduce_only |-> FALSE,
     order_type |-> "LIMIT", limit |-> [tif |-> "GTC"], cloid |-> cloid]

Trigger ==
    [asset |-> 1, is_buy |-> FALSE, limit_px |-> "120", sz |-> "1", reduce_only |-> TRUE,
     order_type |-> "TRIGGER", cloid |-> Absent,
     trigger |-> [is_market |-> TRUE, trigger_px |-> "120", tpsl |-> "TP"]]

Action(type, body) == [type |-> type, nonce |-> 7, body |-> body]

BulkOrder(orders, builder) ==
    Action("BULK_ORDER", [orders |-> orders, grouping |-> "normalTpsl", builder |-> builder])

BulkCancel(assets) ==
    Action("BULK_CANCEL",
           [cancels |-> [i \in DOMAIN assets |-> [asset |-> assets[i], oid |-> 10 + i]]])

MCActions ==
    {BulkOrder(<<>>, Absent),
     BulkOrder(<<Limit(1, "c")>>, [builder |-> "b", fee |-> 5]),
     BulkOrder(<<Limit(0, Absent)>>, Absent),
     BulkOrder(<<Limit(1, Absent), Trigger>>, Absent),
     Action("BULK_MODIFY", [modifies |-> <<[oid |-> 10, order |-> Trigger],
                                           [oid |-> 11, order |-> Limit(1, "c")]>>]),
     BulkCancel(<<1>>), BulkCancel(<<1, 1>>), BulkCancel(<<1, 0>>), BulkCancel(<<1, 1, 1>>),
     Action("UPDATE_LEVERAGE", [asset |-> 1, is_cross |-> FALSE, leverage |-> 5]),
     Action("UPDATE_ISOLATED_MARGIN", [asset |-> 1, is_buy |-> TRUE, ntli |-> -5]),
     Action("APPROVE_BUILDER_FEE",
            [signature_chain_id |-> 42161, max_fee_rate |-> "1%", builder |-> "b"]),
     Action("USER_SET_ABSTRACTION",
            [signature_chain_id |-> 42161, abstraction |-> "unifiedAccount"])}

Metadata(op_type, optional) ==
    [op_type |-> op_type, asset_id |-> 1, ticker |-> "BTC", network |-> "MAINNET",
     has_builder_addr |-> "BUILDER_ADDR" \in optional,
     builder_addr |-> IF "BUILDER_ADDR" \in optional THEN "b" ELSE "",
     has_margin |-> "MARGIN" \in optional, margin |-> IF "MARGIN" \in optional THEN 50 ELSE 0,
     has_leverage |-> "LEVERAGE" \in optional,
     leverage |-> IF "LEVERAGE" \in optional THEN 3 ELSE 0]

MCIssued ==
    {Metadata(op_type, {}) : op_type \in OpTypes \cup {"UPDATE_LEVERAGE"}}
    \cup {Metadata("ORDER", {"BUILDER_ADDR"}), Metadata("ORDER", {"LEVERAGE"}),
          Metadata("MODIFY", {"MARGIN", "LEVERAGE"}),
          Metadata("UPDATE_MARGIN", {"BUILDER_ADDR", "MARGIN", "LEVERAGE"})}
=============================================================================
