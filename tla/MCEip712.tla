------------------------------ MODULE MCEip712 ------------------------------
(***************************************************************************)
(* Bounded inputs for Eip712.  Two sets of requests: actions for the       *)
(* buffer, in which every field takes two values (all those of an          *)
(* enumeration), with bulks of the longest requests there are up to one    *)
(* too many and numbers of every width; and actions for the digests, whose *)
(* numbers and texts collide where words could: a wallet, a builder, a     *)
(* nonce and a chain id of the same value, texts that are also those of    *)
(* another member.                                                         *)
(***************************************************************************)
EXTENDS Eip712, TLC

MCTextLength(text) == Len(text)

Longest == "123456789012345678901"
Cloid == "0x0123456789abcdef0123456789abcdef"
Address == "0x0123456789abcdef0123456789abcdef01234567"

MCNumericTexts == {"1", "2", Longest}
MCCloids == {Cloid}
MCAddresses == {Address}

Asset == 1048576

Kinds ==
    {[order_type |-> "LIMIT", limit |-> [tif |-> tif]] : tif \in {"ALO", "IOC", "GTC"}}
    \cup {[order_type |-> "TRIGGER",
           trigger |-> [is_market |-> is_market, trigger_px |-> price, tpsl |-> tpsl]] :
             is_market \in BOOLEAN, price \in {"1", "2"}, tpsl \in {"TP", "SL"}}

Order(kind, is_buy, reduce_only, price, size, cloid) ==
    kind @@ [asset |-> Asset, is_buy |-> is_buy, limit_px |-> price, sz |-> size,
             reduce_only |-> reduce_only, cloid |-> cloid]

Orders ==
    {Order(kind, is_buy, reduce_only, price, size, Absent) :
        kind \in Kinds, is_buy \in BOOLEAN, reduce_only \in BOOLEAN,
        price \in {"1", "2"}, size \in {"1", "2"}}
    \cup {Order(kind, TRUE, FALSE, "1", "2", Cloid) : kind \in Kinds}

LongestOrder ==
    Order([order_type |-> "TRIGGER",
           trigger |-> [is_market |-> TRUE, trigger_px |-> Longest, tpsl |-> "TP"]],
          TRUE, TRUE, Longest, Longest, Cloid)

Action(type, nonce, body) == [type |-> type, nonce |-> nonce, body |-> body]

BulkOrder(orders, grouping, builder) ==
    Action("BULK_ORDER", 1, [orders |-> orders, grouping |-> grouping, builder |-> builder])

BulkModify(oid, orders) ==
    Action("BULK_MODIFY", 1,
           [modifies |-> [i \in DOMAIN orders |-> [oid |-> oid, order |-> orders[i]]]])

BulkCancel(oids) ==
    Action("BULK_CANCEL", 1,
           [cancels |-> [i \in DOMAIN oids |->
                            [asset |-> Asset, oid |-> oids[i]]]])

Builder(fee) == [builder |-> Address, fee |-> fee]

(* A number of every width, and those next to where the width changes *)
Unsigned == {0, 127, 128, 255, 256, 65535, 65536, U32Limit - 1, U32Limit}

Signed == Unsigned \cup {-1, -32, -33, -128, -129, -32768, -32769,
                         -(U32Limit \div 2), -(U32Limit \div 2) - 1}

Copies(n, value) == [i \in 1..n |-> value]

SerializedActions ==
    {BulkOrder(<<order>>, "na", Absent) : order \in Orders}
    \cup {BulkModify(1, <<order>>) : order \in {o \in Orders : o.limit_px = "1" /\ o.sz = "1"}}
    \cup {BulkOrder(Copies(n, LongestOrder), grouping, builder) :
             n \in 1..6, grouping \in {"na", "normalTpsl", "positionTpsl"},
             builder \in {Absent, Builder(1), Builder(U32Limit)}}
    \cup {BulkModify(oid, Copies(n, LongestOrder)) : n \in 1..6, oid \in {1, U32Limit}}
    \cup {BulkCancel(oids) : oids \in UNION {[1..n -> {1, U32Limit}] : n \in 1..6}}
    \cup {Action("UPDATE_LEVERAGE", nonce,
                 [asset |-> Asset, is_cross |-> is_cross, leverage |-> leverage]) :
             is_cross \in BOOLEAN, leverage \in Unsigned, nonce \in {1, 2}}
    \cup {Action("UPDATE_ISOLATED_MARGIN", 1,
                 [asset |-> Asset, is_buy |-> is_buy, ntli |-> ntli]) :
             is_buy \in BOOLEAN, ntli \in Signed}

-----------------------------------------------------------------------------
Wallets == {0, 1, 1337}
Nonces == {1, 1337}
Chains == {1, 1337}

DigestActions ==
    {Action("APPROVE_BUILDER_FEE", nonce,
            [signature_chain_id |-> chain, max_fee_rate |-> rate, builder |-> builder]) :
        nonce \in Nonces, chain \in Chains, rate \in {"1%", "Mainnet"}, builder \in {0, 1}}
    \cup {Action("USER_SET_ABSTRACTION", nonce,
                 [signature_chain_id |-> chain, abstraction |-> abstraction]) :
             nonce \in Nonces, chain \in Chains,
             abstraction \in {"disabled", "unifiedAccount", "portfolioMargin"}}
    \cup {Action("UPDATE_LEVERAGE", nonce,
                 [asset |-> Asset, is_cross |-> is_cross, leverage |-> 5]) :
             nonce \in Nonces, is_cross \in BOOLEAN}
    \cup {Action("BULK_CANCEL", nonce, [cancels |-> <<[asset |-> Asset, oid |-> oid]>>]) :
             nonce \in Nonces, oid \in {1, 2}}

Request(action, network, wallet) ==
    [action |-> action, metadata |-> [asset_id |-> Asset, network |-> network],
     wallet |-> wallet]

MCRequests ==
    {Request(action, "MAINNET", 0) : action \in SerializedActions}
    \cup {Request(action, network, wallet) :
             action \in DigestActions, network \in Networks, wallet \in Wallets}

(* The size of the buffer of the app, and one in which few actions fit *)
MCCapacities == {1024, 109}
=============================================================================
