------------------------------- MODULE Eip712 -------------------------------
(***************************************************************************)
(* What is signed (action_hash and the eip712_*.c files): the words fed to *)
(* Keccak for the domain, the message and the digest.  Keccak is a term of *)
(* what it is given, so equal hashes have equal inputs.  Integers and      *)
(* addresses are numbers: padded to a word, an address and an integer of   *)
(* the same value are the same word.  A type text is a record of its name  *)
(* and members.                                                            *)
(*                                                                         *)
(* The state is that of one signature: the buffer of Serializer, where the *)
(* action has a MessagePack form, and the hashes as they are computed.     *)
(***************************************************************************)
EXTENDS Serializer

VARIABLES
    domain_hash,
    message_hash,
    to_sign        \* the hash the signature is over

hash_vars == <<domain_hash, message_hash, to_sign>>

vars == <<buffer_vars, hash_vars>>

-----------------------------------------------------------------------------
(* Words *)

Keccak(input) == <<"keccak", input>>

(* eip712_encode_dyn_val *)
DynVal(data) == Keccak(<<"data", data>>)

(* eip712_encode_val of an integer or an address *)
Val(number) == <<"padded", number>>

NotYet == <<"none">>

-----------------------------------------------------------------------------
(* The types, as their texts declare them *)

DomainType ==
    [name |-> "EIP712Domain",
     members |-> << <<"string", "name">>, <<"string", "version">>, <<"uint256", "chainId">>,
                    <<"address", "verifyingContract">> >>]

AgentType ==
    [name |-> "Agent", members |-> << <<"string", "source">>, <<"bytes32", "connectionId">> >>]

BuilderFeeType ==
    [name |-> "HyperliquidTransaction:ApproveBuilderFee",
     members |-> << <<"string", "hyperliquidChain">>, <<"string", "maxFeeRate">>,
                    <<"address", "builder">>, <<"uint64", "nonce">> >>]

AbstractionType ==
    [name |-> "HyperliquidTransaction:UserSetAbstraction",
     members |-> << <<"string", "hyperliquidChain">>, <<"address", "user">>,
                    <<"string", "abstraction">>, <<"uint64", "nonce">> >>]

-----------------------------------------------------------------------------
(* The hashes of each kind of action *)

(* eip712_compute_domain_hash *)
ComputeDomainHash(name, version, chain_id, verifying_contract) ==
    Keccak(<<DynVal(DomainType), DynVal(name), DynVal(version), Val(chain_id),
             Val(verifying_contract)>>)

(* The functions compute_message_hash of the three files *)
AgentMessageHash(source, cid) == Keccak(<<DynVal(AgentType), DynVal(source), cid>>)

BuilderFeeMessageHash(chain, max_fee_rate, builder, nonce) ==
    Keccak(<<DynVal(BuilderFeeType), DynVal(chain), DynVal(max_fee_rate), Val(builder),
             Val(nonce)>>)

(* A faulty variant of AbstractionMessageHash: two words in another order. *)
AbstractionMessageHashSwapped(chain, user, abstraction, nonce) ==
    Keccak(<<DynVal(AbstractionType), DynVal(chain), DynVal(abstraction), Val(user),
             Val(nonce)>>)

AbstractionMessageHash(chain, user, abstraction, nonce) ==
    Keccak(<<DynVal(AbstractionType), DynVal(chain), Val(user), DynVal(abstraction),
             Val(nonce)>>)

(* A faulty variant of SignDomainHash: the chain of the other domain. *)
SignDomainHashFixedChain(signature_chain_id) ==
    ComputeDomainHash("HyperliquidSignTransaction", "1", 1337, 0)

SignDomainHash(signature_chain_id) ==
    ComputeDomainHash("HyperliquidSignTransaction", "1", signature_chain_id, 0)

ExchangeDomainHash == ComputeDomainHash("Exchange", "1", 1337, 0)

(* compute_connection_id hashes what Serializer leaves in its buffer. *)
ComputeConnectionId(action) == Keccak(<<"buffer", ConnectionId(action)>>)

(* action_hash *)

HasSignDomain(action) == action.type \in {"APPROVE_BUILDER_FEE", "USER_SET_ABSTRACTION"}

DomainHash(action) ==
    IF HasSignDomain(action) THEN SignDomainHash(action.body.signature_chain_id)
                             ELSE ExchangeDomainHash

ChainOf(metadata) == IF metadata.network = "MAINNET" THEN "Mainnet" ELSE "Testnet"

SourceOf(metadata) == IF metadata.network = "MAINNET" THEN "a" ELSE "b"

MessageHash(action, metadata, wallet) ==
    CASE action.type = "APPROVE_BUILDER_FEE" ->
             BuilderFeeMessageHash(ChainOf(metadata), action.body.max_fee_rate,
                                   action.body.builder, action.nonce)
      [] action.type = "USER_SET_ABSTRACTION" ->
             AbstractionMessageHash(ChainOf(metadata), wallet, action.body.abstraction,
                                    action.nonce)
      [] OTHER -> AgentMessageHash(SourceOf(metadata), ComputeConnectionId(action))

(* eip712_sign *)
HashToSign(domain, message) == Keccak(<<"1901", domain, message>>)

-----------------------------------------------------------------------------
Init ==
    /\ StartSerializer
    /\ domain_hash = NotYet
    /\ message_hash = NotYet
    /\ to_sign = NotYet

(* A connection id that cannot be computed ends the signature. *)
HashDomain ==
    /\ stage \in {"done", "unused"}
    /\ domain_hash = NotYet
    /\ domain_hash' = DomainHash(approved)
    /\ UNCHANGED <<buffer_vars, message_hash, to_sign>>

HashMessage ==
    /\ domain_hash # NotYet
    /\ message_hash = NotYet
    /\ message_hash' = MessageHash(approved, request.metadata, request.wallet)
    /\ UNCHANGED <<buffer_vars, domain_hash, to_sign>>

Sign ==
    /\ message_hash # NotYet
    /\ to_sign = NotYet
    /\ to_sign' = HashToSign(domain_hash, message_hash)
    /\ UNCHANGED <<buffer_vars, domain_hash, message_hash>>

Next ==
    \/ Serialize /\ UNCHANGED hash_vars
    \/ HashDomain \/ HashMessage \/ Sign

Spec == Init /\ [][Next]_vars

-----------------------------------------------------------------------------
Digest(r) ==
    HashToSign(DomainHash(r.action), MessageHash(r.action, r.metadata, r.wallet))

AbstractDigest(r) == ActionHash(r.action, r.metadata, r.wallet)

(* A signature is good for what it was made for and nothing else: two      *)
(* requests with the same digest are the same action for the same network  *)
(* and, where the message names one, the same user; and a difference the   *)
(* digest does not show is one that HlAction says it does not show         *)
(* (action.c:344-394, eip712_common.c:77-101).                             *)
DigestDeterminesRequest ==
    to_sign # NotYet =>
        \A other \in Requests :
            to_sign = Digest(other) <=> AbstractDigest(other) = AbstractDigest(request)

(* encodeData of EIP-712: the hash of the type, then one word per member   *)
(* of the type in the order of the type, a text by its hash.               *)
EncodeData(type, values) ==
    LET Word(member) == IF member[1] = "string" THEN DynVal(values[member[2]])
                        ELSE IF member[1] = "bytes32" THEN values[member[2]]
                        ELSE Val(values[member[2]])
    IN  Keccak(<<DynVal(type)>> \o [i \in DOMAIN type.members |-> Word(type.members[i])])

(* The values the members of the types stand for, by their names *)
DomainValues(action) ==
    IF HasSignDomain(action)
    THEN [name |-> "HyperliquidSignTransaction", version |-> "1",
          chainId |-> action.body.signature_chain_id, verifyingContract |-> 0]
    ELSE [name |-> "Exchange", version |-> "1", chainId |-> 1337, verifyingContract |-> 0]

MessageType(action) ==
    CASE action.type = "APPROVE_BUILDER_FEE"  -> BuilderFeeType
      [] action.type = "USER_SET_ABSTRACTION" -> AbstractionType
      [] OTHER                                -> AgentType

MessageValues(r) ==
    CASE r.action.type = "APPROVE_BUILDER_FEE" ->
             [hyperliquidChain |-> ChainOf(r.metadata),
              maxFeeRate |-> r.action.body.max_fee_rate,
              builder |-> r.action.body.builder, nonce |-> r.action.nonce]
      [] r.action.type = "USER_SET_ABSTRACTION" ->
             [hyperliquidChain |-> ChainOf(r.metadata), user |-> r.wallet,
              abstraction |-> r.action.body.abstraction, nonce |-> r.action.nonce]
      [] OTHER ->
             [source |-> SourceOf(r.metadata), connectionId |-> ComputeConnectionId(r.action)]

(* The hand-written sequences of words are the EIP-712 encoding of the     *)
(* type whose text is hashed first: a verifier that knows the type and the *)
(* values computes the same hashes (eip712_common.c:10-49 and the three    *)
(* functions compute_message_hash).                                        *)
EncodesTypedData ==
    /\ domain_hash # NotYet => domain_hash = EncodeData(DomainType, DomainValues(request.action))
    /\ message_hash # NotYet =>
           message_hash = EncodeData(MessageType(request.action), MessageValues(request))
=============================================================================
