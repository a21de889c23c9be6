---------------------------- MODULE MCScreenTexts ----------------------------
(***************************************************************************)
(* Bounded inputs for ScreenTexts: for every operation and each shape of   *)
(* its actions, the shortest and the longest texts and numbers the parsers *)
(* let through.  999999999 stands for a number of twenty digits.           *)
(***************************************************************************)
EXTENDS ScreenTexts

Longest == "123456789012345678901"
LongestTicker == "123456789012345678901234567890123456789012345678"
Twenty == 999999999

MCTextLength(text) == Len(text)

MCDigits(number) ==
    IF number \in 0..9 THEN 1
    ELSE IF number = Twenty \/ number = -Twenty THEN 20 ELSE 10

Meta(op_type, network, ticker, margin, leverage) ==
    [op_type |-> op_type, asset_id |-> 1, ticker |-> ticker, network |-> network,
     has_margin |-> margin # 0, margin |-> margin,
     has_leverage |-> leverage # 0, leverage |-> leverage]

MetadataOf(op_type) ==
    {Meta(op_type, network, ticker, known[1], known[2]) :
        network \in Networks, ticker \in {"B", LongestTicker},
        known \in {<<0, 0>>, <<5, 3>>, <<Twenty, 2147483647>>}}

Limit(is_buy, reduce_only, tif, text) ==
    [asset |-> 1, is_buy |-> is_buy, limit_px |-> text, sz |-> text,
     reduce_only |-> reduce_only, order_type |-> "LIMIT", limit |-> [tif |-> tif]]

Trigger(tpsl, is_buy, text) ==
    [asset |-> 1, is_buy |-> is_buy, limit_px |-> text, sz |-> text, reduce_only |-> TRUE,
     order_type |-> "TRIGGER",
     trigger |-> [is_market |-> TRUE, trigger_px |-> text, tpsl |-> tpsl]]

Action(type, body) == [type |-> type, nonce |-> 1, body |-> body]

BulkOrder(orders) == Action("BULK_ORDER", [orders |-> orders])

Triggers(is_buy, text) ==
    {<<>>, <<Trigger("TP", is_buy, text)>>, <<Trigger("SL", is_buy, text)>>,
     <<Trigger("TP", is_buy, text), Trigger("SL", is_buy, text)>>}

Leverage(n) == Action("UPDATE_LEVERAGE", [asset |-> 1, is_cross |-> FALSE, leverage |-> n])

Texts == {"1", Longest}
Numbers == {1, Twenty}

ActionsOf(op_type) ==
    CASE op_type = "ORDER" ->
             UNION {{<<BulkOrder(<<Limit(is_buy, FALSE, tif, text)>> \o triggers)>> \o companions :
                        triggers \in Triggers(~is_buy, text),
                        companions \in {<<>>, <<Leverage(1)>>, <<Leverage(2147483647)>>}} :
                    is_buy \in BOOLEAN, tif \in {"IOC", "GTC"}, text \in Texts}
      [] op_type = "MODIFY" ->
             UNION {UNION {{<<BulkOrder(triggers)>>,
                            <<Action("BULK_MODIFY",
                                     [modifies |-> [i \in DOMAIN triggers |->
                                         [oid |-> oid, order |-> triggers[i]]]])>>} :
                           triggers \in Triggers(is_buy, text) \ {<<>>}} :
                    is_buy \in BOOLEAN, text \in Texts, oid \in Numbers}
      [] op_type = "CLOSE" ->
             {<<BulkOrder(<<Limit(is_buy, TRUE, "IOC", text)>>)>> :
                 is_buy \in BOOLEAN, text \in Texts}
      [] op_type = "UPDATE_MARGIN" ->
             {<<Action("UPDATE_ISOLATED_MARGIN", [asset |-> 1, is_buy |-> is_buy, ntli |-> ntli])>> :
                 is_buy \in BOOLEAN, ntli \in {-Twenty, -1, 0, 1, Twenty}}
      [] OTHER ->
             {<<Action("BULK_CANCEL", [cancels |-> [i \in 1..count |-> [asset |-> 1, oid |-> oid]]])>> :
                 count \in 1..2, oid \in Numbers}

MCBatches ==
    UNION {{[metadata |-> metadata, actions |-> actions] :
               metadata \in MetadataOf(op_type), actions \in ActionsOf(op_type)} :
           op_type \in OpTypes}
=============================================================================
