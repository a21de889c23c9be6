------------------------------ MODULE Payloads ------------------------------
(***************************************************************************)
(* The payloads of SET_ACTION and PROVIDE_ACTION_METADATA and what the     *)
(* device makes of them.  A host means an action, or forwards a metadata   *)
(* that a service signed; the payload starts as its client encodes it, and *)
(* some edits later it may have fields in another order, lost, repeated,   *)
(* of another value or under another tag, at any depth, and the signature  *)
(* of another metadata in place of its own.                                *)
(***************************************************************************)
EXTENDS ActionTlv, MetadataTlv, PayloadEdits

CONSTANTS
    Actions,    \* the actions hosts mean
    Contexts,   \* the contexts of the device an action may meet
    Issued,     \* the metadata the service signs
    MaxActionEdits, MaxMetadataEdits   \* the bounds on the edits

(* A metadata has the members of s_action_metadata, and an optional one    *)
(* that the service did not give is what explicit_bzero leaves of it.      *)
ASSUME IssuedAssumption ==
    \A metadata \in Issued :
        /\ metadata = [name \in DOMAIN ZeroMetadata |-> metadata[name]]
        /\ {metadata.has_builder_addr, metadata.has_margin, metadata.has_leverage}
               \subseteq BOOLEAN
        /\ ~metadata.has_builder_addr => metadata.builder_addr = ZeroMetadata.builder_addr
        /\ ~metadata.has_margin => metadata.margin = ZeroMetadata.margin
        /\ ~metadata.has_leverage => metadata.leverage = ZeroMetadata.leverage

VARIABLES
    command,    \* the command the payload is sent with
    meant,      \* the action or the metadata the payload started as
    payload,
    edits       \* how many edits made the one from the other

vars == <<command, meant, payload, edits>>

Host == INSTANCE HostClient

MaxEdits == IF command = "SET_ACTION" THEN MaxActionEdits ELSE MaxMetadataEdits

HashedFields(fields) == OnlyTags(fields, TagsOf(fields) \ {"SIGNATURE"})

IssuedSignatures == {Host!SignatureOf(Host!MetadataFields(other)) : other \in Issued}

(* No decoder refuses a value the service issues, nor its signature. *)
ASSUME DecodedAssumption ==
    /\ \A metadata \in Issued :
          /\ metadata.network \in Networks
          /\ OutOfRange \notin {metadata.asset_id, metadata.ticker, metadata.builder_addr,
                               metadata.margin, metadata.leverage}
    /\ OutOfRange \notin IssuedSignatures

(* What a field can be replaced by: a value its decoder refuses, and where *)
(* a check or the choice of a parser depends on it, another genuine one.   *)
OtherValues(tag) ==
    IF tag \in NestedTags THEN {}
    ELSE {OutOfRange} \cup
         CASE tag = "STRUCT_TYPE"    -> {"ACTION", "METADATA"}
           [] tag = "STRUCT_VERSION" -> {2}
           [] tag = "ACTION_TYPE"    -> ActionTypes
           [] tag = "ORDER_TYPE"     -> {"LIMIT", "TRIGGER"}
           [] tag = "ASSET"          -> {0, 1}
           [] tag = "ABSTRACTION"    -> {"unknown"}
           [] tag = "OPERATION_TYPE" -> {"MODIFY", "UPDATE_LEVERAGE"}
           [] tag = "ASSET_ID"       -> {2}
           [] tag = "ASSET_TICKER"   -> {"ETH"}
           [] tag = "NETWORK"        -> {"TESTNET"}
           [] tag = "BUILDER_ADDR"   -> {"c"}
           [] tag \in {"MARGIN", "LEVERAGE"} -> {7}
           [] tag = "SIGNATURE"      -> IssuedSignatures
           [] OTHER                  -> {}

(* Tags whose values are encoded alike, so that one can pass for another *)
LikeEncoded ==
    {{"NONCE", "ASSET", "OID", "LEVERAGE", "SIGNATURE_CHAIN_ID", "BUILDER_FEE"},
     {"ASSET_ID", "MARGIN", "LEVERAGE"},
     {"IS_BUY", "REDUCE_ONLY", "IS_MARKET", "IS_CROSS"},
     {"LIMIT_PX", "SZ", "TRIGGER_PX", "MAX_FEE_RATE"},
     NestedTags}

OtherTags(tag) == UNION {tags \in LikeEncoded : tag \in tags} \ {tag}

-----------------------------------------------------------------------------
SendAction ==
    /\ command = "SET_ACTION"
    /\ meant \in Actions
    /\ payload = Host!EncodeAction(meant)

SendMetadata ==
    /\ command = "PROVIDE_ACTION_METADATA"
    /\ meant \in Issued
    /\ payload = Host!EncodeMetadata(meant)

Init ==
    /\ SendAction \/ SendMetadata
    /\ edits = 0

(* One of the lists of fields of the payload becomes one of its variants. *)
Edit(Variants(_)) ==
    /\ edits < MaxEdits
    /\ edits' = edits + 1
    /\ \E path \in Paths(payload) :
          \E list \in Variants(ListAt(payload, path)) :
              payload' = WithListAt(payload, path, list)
    /\ UNCHANGED <<command, meant>>

MoveField    == Edit(Moves)
DropField    == Edit(Losses)
RepeatField  == Edit(Repetitions)
ReplaceField == Edit(LAMBDA list : Replacements(list, OtherValues))
RetagField   == Edit(LAMBDA list : Retaggings(list, OtherTags))

Next == MoveField \/ DropField \/ RepeatField \/ ReplaceField \/ RetagField

Spec == Init /\ [][Next]_vars

-----------------------------------------------------------------------------
TypesPrecedeBodies ==
    \A path \in Paths(payload) :
        LET list == ListAt(payload, path)
        IN  /\ Precedes(list, "ACTION_TYPE", "ACTION")
            /\ Precedes(list, "ORDER_TYPE", "ORDER")

(* A payload that is accepted says what was understood, no less and no     *)
(* more: encoding the parsed action gives the same values to the same      *)
(* tags, so no default stands for a field that was lost, no field was      *)
(* ignored and none was taken for another; and the action it says is one   *)
(* the checks against the metadata let through (action.c:154-164, the      *)
(* verify_ functions of every parser).                                     *)
AcceptedSaysWhatWasUnderstood ==
    command = "SET_ACTION" =>
        \A ctx \in {c \in Contexts : c.metadata # NoMetadata} :
            LET out == ParseAction(payload, ctx.metadata)
            IN  out.ok => /\ SameFields(payload, Host!EncodeAction(out.value))
                          /\ ParseBody(out.value, ctx.metadata)

(* A payload that holds exactly the fields of the action the host means is *)
(* accepted in exactly the contexts that accept the action, and yields it, *)
(* provided the type of each structure comes before its body: the order of *)
(* everything else is free, and requests do not interfere through the      *)
(* sub-context they share (bulk_order.c:95-96, bulk_modify.c:77,           *)
(* bulk_cancel.c:81, order_request.c:263-267, action.c:99-103).            *)
UnderstoodAsMeant ==
    command = "SET_ACTION" /\ SameFields(payload, Host!EncodeAction(meant)) =>
        \A ctx \in Contexts :
            /\ AcceptsPayload(ctx, payload) <=> /\ TypesPrecedeBodies
                                                /\ AcceptsAction(ctx, meant)
            /\ AcceptsPayload(ctx, payload) =>
                   ParseAction(payload, ctx.metadata).value = meant

(* What the device takes for metadata is one the service issued, field by  *)
(* field, whatever happened to the payload on the way: every field but the *)
(* signature is hashed, in the order received (action_metadata.c:154-162,  *)
(* 181-192), so that no optional field is lost, added or altered.          *)
OnlyIssuedMetadata ==
    command = "PROVIDE_ACTION_METADATA" =>
        LET out == ParseActionMetadata(payload) IN out.ok => out.value \in Issued

(* Metadata issued for an operation the device knows is accepted with its  *)
(* own signature wherever that stands in the payload, and is understood as *)
(* it was issued (action_metadata.c:164-193).                              *)
IssuedIsUnderstood ==
    /\ command = "PROVIDE_ACTION_METADATA"
    /\ meant.op_type \in OpTypes
    /\ HashedFields(payload) = HashedFields(Host!EncodeMetadata(meant))
    /\ SameFields(payload, Host!EncodeMetadata(meant))
    => LET out == ParseActionMetadata(payload) IN out.ok /\ out.value = meant
=============================================================================
