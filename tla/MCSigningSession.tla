-------------------------- MODULE MCSigningSession --------------------------
(***************************************************************************)
(* A small instance of SigningSession: one asset besides a foreign one, an *)
(* opening order with its silent companions, a modification and a margin   *)
(* update.                                                                 *)
(***************************************************************************)
EXTENDS SigningSession

Meta(op_type, network) ==
    [op_type |-> op_type, asset_id |-> 1, ticker |-> "BTC", network |-> network,
     has_margin |-> FALSE, margin |-> 0, has_leverage |-> FALSE, leverage |-> 0]

Limit(asset) ==
    [asset |-> asset, is_buy |-> TRUE, limit_px |-> "100", sz |-> "2", reduce_only |-> FALSE,
     order_type |-> "LIMIT", limit |-> [tif |-> "GTC"], cloid |-> "none"]

TakeProfit ==
    [asset |-> 1, is_buy |-> FALSE, limit_px |-> "120", sz |-> "2", reduce_only |-> TRUE,
     order_type |-> "TRIGGER", cloid |-> "none",
     trigger |-> [is_market |-> TRUE, trigger_px |-> "120", tpsl |-> "TP"]]

BulkOrder(orders) ==
    [type |-> "BULK_ORDER", nonce |-> 1,
     body |-> [orders |-> orders, grouping |-> "na", builder |-> "none"]]

Modify ==
    [type |-> "BULK_MODIFY", nonce |-> 1,
     body |-> [modifies |-> << [oid |-> 7, order |-> TakeProfit] >>]]

Leverage ==
    [type |-> "UPDATE_LEVERAGE", nonce |-> 2,
     body |-> [asset |-> 1, is_cross |-> FALSE, leverage |-> 5]]

BuilderFee ==
    [type |-> "APPROVE_BUILDER_FEE", nonce |-> 3,
     body |-> [signature_chain_id |-> 1, max_fee_rate |-> "1%", builder |-> "b"]]

Abstraction ==
    [type |-> "USER_SET_ABSTRACTION", nonce |-> 4,
     body |-> [signature_chain_id |-> 1, abstraction |-> "disabled"]]

MCMetadata == {Meta("ORDER", "MAINNET"), Meta("MODIFY", "TESTNET")}

MCActions == {BulkOrder(<<Limit(1)>>), BulkOrder(<<Limit(9)>>), BulkOrder(<<TakeProfit>>),
              Modify, Leverage, BuilderFee, Abstraction}
=============================================================================
