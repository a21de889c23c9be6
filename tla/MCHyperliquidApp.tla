-------------------------- MODULE MCHyperliquidApp --------------------------
(***************************************************************************)
(* A small instance of the application: payloads of two parts, so that a   *)
(* transfer takes one or two chunks, an opening and a closing operation,   *)
(* an order that suits both and a leverage that suits one.                 *)
(***************************************************************************)
EXTENDS HyperliquidApp

Meta(op_type) ==
    [op_type |-> op_type, asset_id |-> 1, ticker |-> "BTC", network |-> "MAINNET",
     has_margin |-> FALSE, margin |-> 0, has_leverage |-> FALSE, leverage |-> 0]

ReduceOnlyLimit ==
    [asset |-> 1, is_buy |-> TRUE, limit_px |-> "100", sz |-> "2", reduce_only |-> TRUE,
     order_type |-> "LIMIT", limit |-> [tif |-> "GTC"], cloid |-> "none"]

Order ==
    [type |-> "BULK_ORDER", nonce |-> 1,
     body |-> [orders |-> <<ReduceOnlyLimit>>, grouping |-> "na", builder |-> "none"]]

Leverage ==
    [type |-> "UPDATE_LEVERAGE", nonce |-> 2,
     body |-> [asset |-> 1, is_cross |-> FALSE, leverage |-> 5]]

MCMetadata == {Meta("ORDER"), Meta("CLOSE")}

MCActions == {Order, Leverage}

MCParts(payload) == 2

PartsOf(payloads) ==
    {[size |-> 2, data |-> data] :
        data \in UNION {{<< <<p, 1>> >>, << <<p, 2>> >>, << <<p, 1>>, <<p, 2>> >>} : p \in payloads}}

\* No data, no size, a size above the buffer, and half an action alone
OddChunks ==
    {[size |-> size, data |-> <<>>] : size \in {2, 3, NoSize}}
    \cup {[size |-> 1, data |-> << <<Order, 1>> >>]}

MCChunks == PartsOf(MCMetadata \cup MCActions) \cup OddChunks

Command(cla, ins, p1, p2, data) == [cla |-> cla, ins |-> ins, p1 |-> p1, p2 |-> p2, data |-> data]

MCCommands ==
    {Command(CLA, "PROVIDE_ACTION_METADATA", p1, 0, chunk) :
        p1 \in {0, 1}, chunk \in PartsOf(MCMetadata) \cup OddChunks}
    \cup {Command(CLA, "SET_ACTION", p1, 0, chunk) :
        p1 \in {0, 1}, chunk \in PartsOf(MCActions) \cup OddChunks}
    \cup {Command(CLA, "SIGN_ACTION", 0, 0, path) : path \in Paths \cup {BadPath}}
    \cup {Command(CLA, "GET_ADDRESS", 0, 0, BadPath), Command(CLA, "SET_ACTION", 2, 0, BadPath),
          Command(CLA, "SIGN_ACTION", 0, 0, NoData)}
=============================================================================
