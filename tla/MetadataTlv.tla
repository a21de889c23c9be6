----------------------------- MODULE MetadataTlv -----------------------------
(***************************************************************************)
(* How the metadata of an operation is read from a payload and its origin  *)
(* checked (action_metadata.c).  The hash of a sequence of fields is the   *)
(* sequence; a signature is a record whose field over is the sequence it   *)
(* was made of, by the key that the PKI certifies for this use.  A failure *)
(* of the hash or of the certificate refuses the payload, as OutOfRange    *)
(* does.                                                                   *)
(***************************************************************************)
EXTENDS HlAction, TlvParser

ZeroMetadata ==
    [op_type |-> "ORDER", asset_id |-> 0, ticker |-> "", network |-> "MAINNET",
     has_builder_addr |-> FALSE, builder_addr |-> "", has_margin |-> FALSE, margin |-> 0,
     has_leverage |-> FALSE, leverage |-> 0]

MetadataContext ==
    [ok |-> TRUE, received |-> {}, value |-> ZeroMetadata, hashed |-> <<>>, signature |-> <<>>]

(* A faulty variant of HandleCommon: only the mandatory fields are hashed. *)
HandleCommonMandatory(out, field) ==
    IF field.tag \in {"SIGNATURE", "BUILDER_ADDR", "MARGIN", "LEVERAGE"} THEN out
    ELSE [out EXCEPT !.hashed = Append(@, field)]

(* handle_common, called for every field: what the signature is over *)
HandleCommon(out, field) ==
    IF field.tag = "SIGNATURE" THEN out ELSE [out EXCEPT !.hashed = Append(@, field)]

(* A faulty variant of StoreOptional: nobody says the field was there. *)
StoreOptionalSilently(out, flag, name, value) == StoreScalar(out, name, value)

StoreOptional(out, flag, name, value) == StoreScalar(Store(out, flag, TRUE), name, value)

(* The handlers of METADATA_TAGS *)
MetadataTag(out, field) ==
    CASE field.tag = "STRUCT_TYPE"    -> IF field.value = "METADATA" THEN out ELSE Refuse(out)
      [] field.tag = "STRUCT_VERSION" -> IF field.value = 1 THEN out ELSE Refuse(out)
      [] field.tag = "OPERATION_TYPE" -> StoreEnum(out, "op_type", field.value, OpTypes)
      [] field.tag = "ASSET_ID"       -> StoreScalar(out, "asset_id", field.value)
      [] field.tag = "ASSET_TICKER"   -> StoreScalar(out, "ticker", field.value)
      [] field.tag = "NETWORK"        -> StoreEnum(out, "network", field.value, Networks)
      [] field.tag = "BUILDER_ADDR"   ->
             StoreOptional(out, "has_builder_addr", "builder_addr", field.value)
      [] field.tag = "MARGIN"         -> StoreOptional(out, "has_margin", "margin", field.value)
      [] field.tag = "LEVERAGE"       ->
             StoreOptional(out, "has_leverage", "leverage", field.value)
      [] field.tag = "SIGNATURE"      -> IF field.value = OutOfRange THEN Refuse(out)
                                         ELSE [out EXCEPT !.signature = field.value]
      [] OTHER                        -> Refuse(out)

(* verify_action_metadata *)
VerifyActionMetadata(out) ==
    Verify(out, {"STRUCT_TYPE", "STRUCT_VERSION", "OPERATION_TYPE", "ASSET_ID", "ASSET_TICKER",
                 "NETWORK", "SIGNATURE"},
           out.ok /\ out.signature = [over |-> out.hashed])

(* parse_action_metadata, up to the test that no signature flow is open *)
ParseActionMetadata(payload) ==
    LET Handle(out, field) == MetadataTag(HandleCommon(out, field), field)
    IN  VerifyActionMetadata(RunTlvParser(Handle, {}, payload, MetadataContext))
=============================================================================
