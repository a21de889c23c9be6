-------------------------- MODULE MCReviewBatches --------------------------
(***************************************************************************)
(* Bounded inputs for ReviewBatches: one metadata per operation type, and  *)
(* orders, triggers, edits, cancels and companions in which every field a  *)
(* check reads takes an accepted and a refused value.                      *)
(***************************************************************************)
EXTENDS ReviewBatches

Meta(op_type, network, known) ==
    [op_type |-> op_type, asset_id |-> 1, ticker |-> "BTC", network |-> network,
     has_margin |-> known, margin |-> 50, has_leverage |-> known, leverage |-> 3]

MCMetadata ==
    {Meta(op_type, "MAINNET", FALSE) : op_type \in OpTypes}
    \cup {Meta(op_type, "TESTNET", TRUE) : op_type \in {"MODIFY", "CANCEL", "UPDATE_MARGIN"}}

Limit(is_buy, reduce_only, tif, limit_px, sz) ==
    [asset |-> 1, is_buy |-> is_buy, limit_px |-> limit_px, sz |-> sz,
     reduce_only |-> reduce_only, order_type |-> "LIMIT", limit |-> [tif |-> tif],
     cloid |-> "none"]

Trigger(tpsl, is_buy, reduce_only, is_market, sz, trigger_px, limit_px) ==
    [asset |-> 1, is_buy |-> is_buy, limit_px |-> limit_px, sz |-> sz,
     reduce_only |-> reduce_only, order_type |-> "TRIGGER", cloid |-> "none",
     trigger |-> [is_market |-> is_market, trigger_px |-> trigger_px, tpsl |-> tpsl]]

Limits ==
    {Limit(is_buy, reduce_only, tif, limit_px, sz) :
        is_buy \in BOOLEAN, reduce_only \in BOOLEAN, tif \in {"IOC", "GTC"},
        limit_px \in {"100", "110"}, sz \in {"1", "2"}}
    \cup {Limit(TRUE, reduce_only, "ALO", "100", "1") : reduce_only \in BOOLEAN}

PlainLimits == {limit \in Limits : limit.limit_px = "100" /\ limit.sz = "1"}

Triggers ==
    {Trigger(tpsl, is_buy, kind[1], kind[2], sz, prices[1], prices[2]) :
        tpsl \in {"TP", "SL"}, is_buy \in BOOLEAN,
        kind \in {<<TRUE, TRUE>>, <<FALSE, TRUE>>, <<TRUE, FALSE>>},
        sz \in {"1", "2"}, prices \in {<<"120", "120">>, <<"130", "130">>, <<"120", "130">>}}

CloseTriggers ==
    {trigger \in Triggers : CheckTriggerCloseOrder(trigger) /\ trigger.trigger.trigger_px = "120"}

BulkOrder(orders) ==
    [type |-> "BULK_ORDER", nonce |-> 1,
     body |-> [orders |-> orders, grouping |-> "na", builder |-> "none"]]

BulkModify(modifies) ==
    [type |-> "BULK_MODIFY", nonce |-> 1, body |-> [modifies |-> modifies]]

BulkCancel(oids) ==
    [type |-> "BULK_CANCEL", nonce |-> 1,
     body |-> [cancels |-> [i \in DOMAIN oids |-> [asset |-> 1, oid |-> oids[i]]]]]

Edit(oid, order) == [oid |-> oid, order |-> order]

BulkOrders ==
    {BulkOrder(<<limit>>) : limit \in Limits}
    \cup {BulkOrder(<<limit, trigger>>) : limit \in PlainLimits, trigger \in Triggers}
    \cup {BulkOrder(<<trigger>>) : trigger \in Triggers}
    \cup {BulkOrder(<<t1, t2>>) : t1, t2 \in CloseTriggers}
    \cup {BulkOrder(<<limit, t1, t2>>) :
             limit \in {l \in PlainLimits : ~l.reduce_only}, t1, t2 \in CloseTriggers}
    \cup {BulkOrder(<<l1, l2>>) : l1, l2 \in {l \in PlainLimits : l.is_buy}}

BulkModifies ==
    {BulkModify(<<Edit(oid, trigger)>>) : oid \in {1, 2}, trigger \in Triggers}
    \cup {BulkModify(<<Edit(oid, t1), Edit(3, t2)>>) : oid \in {1, 2}, t1, t2 \in CloseTriggers}
    \cup {BulkModify(<<Edit(1, limit)>>) : limit \in PlainLimits}

BulkCancels ==
    {BulkCancel(oids) : oids \in UNION {[1..n -> {1, 2, 3}] : n \in 1..3}}

Companions ==
    {[type |-> "UPDATE_LEVERAGE", nonce |-> 1,
      body |-> [asset |-> 1, is_cross |-> setting[1], leverage |-> setting[2]]] :
         setting \in {<<FALSE, 5>>, <<FALSE, 10>>, <<TRUE, 5>>}}
    \cup {[type |-> "APPROVE_BUILDER_FEE", nonce |-> 1,
           body |-> [signature_chain_id |-> 1, max_fee_rate |-> "1%", builder |-> "b"]],
          [type |-> "USER_SET_ABSTRACTION", nonce |-> 1,
           body |-> [signature_chain_id |-> 1, abstraction |-> "disabled"]]}

Margins ==
    {[type |-> "UPDATE_ISOLATED_MARGIN", nonce |-> 1,
      body |-> [asset |-> 1, is_buy |-> is_buy, ntli |-> ntli]] :
         is_buy \in BOOLEAN, ntli \in -2..2}

MCActions == BulkOrders \cup BulkModifies \cup BulkCancels \cup Companions \cup Margins
=============================================================================
