------------------------------ MODULE HlAction ------------------------------
(***************************************************************************)
(* Actions: which ones a session accepts and what is hashed when one is    *)
(* signed (action.c and the parsers and hashers it calls).                 *)
(*                                                                         *)
(* An action is a record [type, nonce, body]; a body has the fields of the *)
(* C struct of its type.  Prices, sizes, rates and identifiers are opaque  *)
(* values.  A payload the TLV parsers reject for its encoding (unknown,    *)
(* repeated, missing or misplaced tag, value out of range) is not an       *)
(* action at all: the modules that receive payloads name it separately.    *)
(* Hashes are injective terms.                                             *)
(***************************************************************************)
EXTENDS HlContext, Functions

CONSTANT BulkMaxSize   \* BULK_MAX_SIZE

ASSUME BulkMaxSizeAssumption == BulkMaxSize \in 1..255

(* e_action_type *)
ActionTypes == {"BULK_ORDER", "BULK_MODIFY", "BULK_CANCEL", "UPDATE_LEVERAGE",
                "APPROVE_BUILDER_FEE", "UPDATE_ISOLATED_MARGIN",
                "USER_SET_ABSTRACTION"}

(* The operation types handle_operation_type lets through: UPDATE_LEVERAGE *)
(* exists in e_operation_type but never heads a session.                   *)
OpTypes == {"ORDER", "MODIFY", "CANCEL", "CLOSE", "UPDATE_MARGIN",
            "CANCEL_SL", "CANCEL_TP", "CANCEL_TP_SL"}

(* e_network *)
Networks == {"MAINNET", "TESTNET"}

-----------------------------------------------------------------------------
(* Parsing: every asset named in an action is the asset of the metadata,   *)
(* and a bulk action holds between 1 and BULK_MAX_SIZE requests.           *)

(* A faulty variant of BulkSizeFits: no upper limit. *)
BulkSizeNotZero(list) == Len(list) > 0

BulkSizeFits(list) == Len(list) \in 1..BulkMaxSize

VerifyOrderRequest(order, metadata) == order.asset = metadata.asset_id

VerifyCancelRequest(cancel, metadata) == cancel.asset = metadata.asset_id

ParseBulkOrder(body, metadata) ==
    /\ BulkSizeFits(body.orders)
    /\ \A order \in Range(body.orders) : VerifyOrderRequest(order, metadata)

ParseBulkModify(body, metadata) ==
    /\ BulkSizeFits(body.modifies)
    /\ \A modify \in Range(body.modifies) : VerifyOrderRequest(modify.order, metadata)

ParseBulkCancel(body, metadata) ==
    /\ BulkSizeFits(body.cancels)
    /\ \A cancel \in Range(body.cancels) : VerifyCancelRequest(cancel, metadata)

VerifyUpdateLeverage(body, metadata) == body.asset = metadata.asset_id

VerifyUpdateIsolatedMargin(body, metadata) == body.asset = metadata.asset_id

(* handle_action: the parser of the body, chosen by type.  A builder fee   *)
(* approval and an abstraction change name no asset.                       *)
ParseBody(action, metadata) ==
    CASE action.type = "BULK_ORDER"  -> ParseBulkOrder(action.body, metadata)
      [] action.type = "BULK_MODIFY" -> ParseBulkModify(action.body, metadata)
      [] action.type = "BULK_CANCEL" -> ParseBulkCancel(action.body, metadata)
      [] action.type = "UPDATE_LEVERAGE" -> VerifyUpdateLeverage(action.body, metadata)
      [] action.type = "UPDATE_ISOLATED_MARGIN" ->
             VerifyUpdateIsolatedMargin(action.body, metadata)
      [] OTHER -> action.type \in ActionTypes

(* is_action_compatible *)
TypesOf(op_type) ==
    CASE op_type = "ORDER"         -> {"BULK_ORDER", "UPDATE_LEVERAGE",
                                       "APPROVE_BUILDER_FEE", "USER_SET_ABSTRACTION"}
      [] op_type = "MODIFY"        -> {"BULK_MODIFY", "BULK_ORDER"}
      [] op_type = "CLOSE"         -> {"BULK_ORDER"}
      [] op_type = "UPDATE_MARGIN" -> {"UPDATE_ISOLATED_MARGIN"}
      [] op_type \in {"CANCEL", "CANCEL_SL", "CANCEL_TP", "CANCEL_TP_SL"} -> {"BULK_CANCEL"}

(* A faulty variant of IsActionCompatible: leverage goes with anything. *)
IsActionCompatibleOrLeverage(actions, type, op_type) ==
    type \in TypesOf(op_type) \cup {"UPDATE_LEVERAGE"}

IsActionCompatible(actions, type, op_type) ==
    /\ type \in TypesOf(op_type)
    /\ op_type = "MODIFY" => /\ ~CtxHasAction(actions, "BULK_MODIFY")
                             /\ ~CtxHasAction(actions, "BULK_ORDER")

(* parse_action, once the payload decodes to an action *)
AcceptsAction(ctx, action) ==
    /\ ctx.metadata # NoMetadata
    /\ ParseBody(action, ctx.metadata)
    /\ IsActionCompatible(ctx.actions, action.type, ctx.metadata.op_type)
    /\ CtxCanPush(ctx, action)

-----------------------------------------------------------------------------
(* Hashing.  compute_connection_id hashes the serialized action followed   *)
(* by its nonce; the metadata reaches the hash only through the network.   *)

ConnectionId(action) == <<action.type, action.body, action.nonce>>

CidHash(source, cid) ==
    [domain |-> <<"Exchange", 1337>>, message |-> <<"Agent", source, cid>>]

BuilderFeeHash(body, nonce, chain) ==
    [domain  |-> <<"HyperliquidSignTransaction", body.signature_chain_id>>,
     message |-> <<"ApproveBuilderFee", chain, body.max_fee_rate, body.builder, nonce>>]

AbstractionHash(body, nonce, chain, user) ==
    [domain  |-> <<"HyperliquidSignTransaction", body.signature_chain_id>>,
     message |-> <<"UserSetAbstraction", chain, user, body.abstraction, nonce>>]

(* action_hash *)
ActionHash(action, metadata, wallet) ==
    LET mainnet == metadata.network = "MAINNET"
        chain   == IF mainnet THEN "Mainnet" ELSE "Testnet"
    IN  CASE action.type = "APPROVE_BUILDER_FEE" ->
                 BuilderFeeHash(action.body, action.nonce, chain)
          [] action.type = "USER_SET_ABSTRACTION" ->
                 AbstractionHash(action.body, action.nonce, chain, wallet)
          [] OTHER -> CidHash(IF mainnet THEN "a" ELSE "b", ConnectionId(action))
=============================================================================
