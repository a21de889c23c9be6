# A TLA+ verification of the Hyperliquid app

The Hyperliquid app runs on a Ledger device. A host announces an operation
(open, modify, cancel or close an order, update a margin) with metadata signed
by a PKI, queues the actions that carry it out, and asks for their signatures.
The device shows the whole batch once; the user approves or rejects it; the
signatures are then released one command at a time.

This directory holds TLA+ models of that program, the TLC configurations that
check them on small instances, and TLAPS proofs for every value of the
constants. Paths below are relative to the repository.

## 1. The system

The app is a single loop without threads: a command is handled from start to
end before the next is read, and the callback of the review runs between two
commands. All state is static RAM; nothing but an "initialized" flag is stored,
so a restart forgets the session. What is hard is therefore not preemption but
**order**: the host chooses the commands, in any order and number, around a
review that stays on screen for an arbitrary time, around payloads that take
several commands, and around failures of the cryptographic library and of the
link.

| Component | State | Operations | What makes it correct |
|---|---|---|---|
| Signing context, `src/hl_context.c` | `g_ctx`: metadata, up to 10 actions, index of the next to sign | `ctx_reset`, `ctx_save_action_metadata`, `ctx_push_action`, `ctx_get_action`, `ctx_get_current_action`, `ctx_switch_to_next_action`, `ctx_remaining_actions` | the queue and the index stay in bounds; the queue is frozen once signing has begun |
| Session handlers, `src/handler/*.c`, `ui/operation.c`, `comm_enabler.c` | `g_signing_ctx` (path, wallet address), `g_comm_enabled`, `g_ui_ctx` | GET_ADDRESS, PROVIDE_ACTION_METADATA, SET_ACTION, SIGN_ACTION, `review_choice` | only what was reviewed is signed, in order, once, with the reviewed key; the app never gets stuck |
| Metadata and actions, `action_metadata.c`, `action.c`, `order_request.c`, `bulk_*.c`, `update_*.c`, `approve_builder_fee.c`, `user_set_abstraction.c` | a parsing context per structure: tags received, structure filled, running hash of the metadata | `parse_action_metadata`, `parse_action`, the tag handlers and `verify_` functions, `is_action_compatible` | a payload is understood as what it says, or refused; metadata are those that were signed; queued actions suit the announced operation and asset |
| Hashing and signing, the `_serialize` functions, `action.c`, `eip712_*.c` | `g_raw_buf` and its offset during a signature | `action_serialize`, `compute_connection_id`, `eip712_cid_hash`, `eip712_builder_fee_hash`, `eip712_abstraction_hash`, `eip712_sign` | what was accepted fits the buffer; the digest determines the action, the network and, where the message names it, the user |
| Review screens, `ui/op_*.c`, `ui/common.c`, `ui/operation.c` | the pairs and the text buffers of `g_ui_ctx` | `ui_order`, `ui_modify`, `ui_cancel`, `ui_cancel_tp_sl`, `ui_close`, `ui_update_margin`, `prepare_review_sign_msgs` | no hidden request; what is not shown is pinned down by a check (with the exceptions of 5); no text is cut or overwritten |
| Chunked payloads, `chunked_payload.c` | `g_payload`: buffer, announced size, bytes received, handler | `process_chunked_payload` | no overrun, no mix of two transfers, nothing left behind |
| Main loop, `app_main.c`, `apdu/dispatcher.c` | none | receive, refuse during a review, dispatch | a refused or incomplete command changes nothing |
| Host client, `tests/application_client/*.py`, and the encoder of the unit tests, `unit-tests/tlv_helpers.h` | none | the `serialize` methods, `serialize_field`, `tlv_append_*` | the two encode alike, and what they send is what the parsers read |
| Menu, `ui/menu_nbgl.c`; NVM flag in `app_main.c` | none that matters here | pages, quit | not modelled |

Interactions. The dispatcher calls the handlers; the two transfer handlers call
`process_chunked_payload` with a parser as callback, and the parsers write
`g_ctx`. SIGN_ACTION either opens the review (`handle_ui`, which reads `g_ctx`
and disables the communication) or calls `sign_action`; the review calls back
`review_choice`, which enables the communication and calls `sign_action` or
`ctx_reset`. `g_ctx` and `g_signing_ctx` are the state all of these share.

The hazards this leads to, each at its line and with the properties that
would catch it, are the `hazards` of `PROJECT.json`.

## 2. The modules

```
HlContext  <-  HlAction  <-  HlReview  <-  SigningSession  --implements-->  ReviewedSigning
                                 ^               ^
                           ReviewBatches         |
                                           HyperliquidApp
                                                 |
                             ChunkedPayload  <---+   --implements-->  Reassembly

HlReview   <-  ScreenTexts
HlAction   <-  Serialization  <-  Serializer  <-  Eip712
HlAction, TlvParser  <-  ActionTlv, MetadataTlv  <-  Payloads  ->  PayloadEdits, HostClient
MarginAmount  <-  TlvWire
```

The first block is the life of a session, where an action is a record and a
digest a term. The second opens these up: how the records come out of
payloads, how a screen is written to memory, how a digest is computed.

* **HlContext**: `hl_context.c`. A context is a record
  `[metadata, actions, index]`; each C function is an operator on it.
  `CtxRemainingActions` keeps the width of the `uint8_t` it returns.
* **HlAction**: which actions a session accepts (`parse_action` and the
  checks of the parsers against the metadata) and what a digest depends on
  (`action_hash`). Hashes are injective terms.
* **HlReview**: the `ui_*` functions, each as a predicate (`UiOrderAccepts`: the
  batches it does not refuse) and a function (`UiOrder`: the pairs and
  the intent). A pair keeps the variable part of its text. The orders of a
  kind are sets of positions (`LimitsIn`, `TpsIn`, `SlsIn`), which the C code
  counts in its loops and keeps the first of (`FirstOf`).
* **SigningSession**: the state machine. Variables `ctx`, `signing_ctx`,
  `comm_enabled`, `display`, `ui` and `response` are the C statics, the page on
  the screen and the last answer; `reviewed` and `released` are history
  variables no guard reads. One action per command and outcome:

  | Code | Actions |
  |---|---|
  | `handler_get_addr` | `GetAddress` |
  | `apdu_dispatcher` refusing, `app_main` during a review | `RefuseCommand`, `RefuseWhileReviewing` |
  | `process_chunked_payload` buffering | `AcknowledgeChunk` |
  | `parse_action_metadata` | `RefuseMetadata`, `InterruptSession`, `LoadMetadata` |
  | `parse_action` | `StoreAction`, `RefuseAction` |
  | `handler_sign_action` | `RefusePath`, `OpenReview`, `RefuseReview`, `SignNextAction`, `RefuseOtherPath` |
  | `sign_action` | `ReleaseSignature`, `FailToSign` (parts of `SignNextAction` and `Confirm`) |
  | `review_choice` | `Confirm`, `Reject`; the status page leaves with `DismissStatus` |
  | the app exits and starts again | `Exit` |

  A response that cannot be sent ends the app when a handler sends it (`Exit`),
  and resets the context when `review_choice` sends it (the last disjunct of
  `Confirm`; `Reject` resets in any case).
* **ReviewedSigning**: what the session promises, without commands or screens:
  show, decline, approve with the first signature, sign the next, abandon.
  `SigningSession` maps `shown` and `approved` to the *current* context and path, not
  to the history variables, so the mapping itself says that the approved batch
  is the one still in memory.
* **ReviewBatches**: the batches a session can gather, as states, and what
  their screens tell.
* **TlvParser**: the parser of the SDK as the macros of the code use it
  (external): every field goes to its handler, unique tags once, the first
  failure ends the parsing. A value its decoder refuses is `OutOfRange`.
* **ActionTlv**, **MetadataTlv**: the tag tables of the code, one operator per
  table and per `parse_`/`verify_` pair. `ActionTlv` keeps the sub-context that
  the requests of a bulk share (`RequestContext` is the wipe between two of
  them) and the parsers that depend on a type received before the body;
  `MetadataTlv` keeps the hash that `handle_common` feeds field by field.
  `AcceptsPayload` is the composition with the checks of the session.
* **HostClient**: what the Python client sends, method by method.
* **Payloads**: payloads as states. A payload starts as the client encodes an
  action or a metadata and is edited: a field moved, lost, repeated, given
  another value or another tag, at any depth (**PayloadEdits**). These edits
  stand for hosts, clients and services other than the one in the repository.
* **Serialization**: the structures the parsers fill in, and the MessagePack
  items of each action and their widths, in the parts the code writes them in
  (header, requests, trailer; `ItemsThrough` is the loop over the requests).
* **Serializer**: `compute_connection_id` part by part, with `offset`, the
  refusal of `ser_writer`, and the nonce and end byte that follow. Its sizes
  are summed up by hand in `OrderSize` and its fellows, so that they can be
  proved about; `InBuffer` compares them with the items.
* **Eip712**: goes on from there with the words fed to Keccak for the domain, the
  message and the digest, in `HashDomain`, `HashMessage` and `Sign`. `HlAction`
  has the same digests as plain terms; `DigestDeterminesRequest` says the two
  distinguish the same requests.
* **ScreenTexts**: one review being laid out, item by item, into the
  buffers of `s_ui_ctx`, with the length of every text (wording included) and
  the size of every buffer, for both kinds of device.
* **MarginAmount**: the words an amount goes through (packed by the host,
  copied byte for byte, split into direction and magnitude).
* **TlvWire**: the bytes of a field by both encoders of the repository and by
  the parser, with `Base` values per byte and `Width` bytes per word.
* **ChunkedPayload** and **Reassembly**: the buffer byte by byte, and the
  abstract "all the bytes of one transfer, in order, to one handler".
* **HyperliquidApp**: the dispatcher, with `SigningSession` and
  `ChunkedPayload` instantiated on shared variables. Bytes are parts of
  payloads, `Decode` is the parser of a whole payload.

Some modules hold a *faulty variant* beside a definition, always announced by
its comment: the definition with a plausible one-line slip. Nothing refers to them; substituting one for
the original makes the run named in `PROJECT.json` fail, which shows that the
property can be violated at all.

## 3. What TLC checks

| Run | Question | Bounds | Result |
|---|---|---|---|
| `session` | Do types and bounds hold, is only the reviewed batch signed, in order, once, with the reviewed key; is a review always of the context; is a started session never altered; does the session implement `ReviewedSigning`; can a new one always be started? | 2 metadata (ORDER on mainnet, MODIFY on testnet), 7 actions (one of a foreign asset, one a MODIFY accepts and an ORDER queues but cannot show), 2 paths, `MaxActionCount` 3, `BulkMaxSize` 1 | holds, the last under the fairness of `FairSpec`; 569,614 states |
| `failed_review` | Is the context empty after a confirmed review that produced no signature? | as `session` | **violated**, see 5 |
| `review_batches` | Is every request on the screen; does the screen determine what is done (of a CLOSE, the position and the size); is only an approval silent? | one metadata per operation, every field a check reads with an accepted and a refused value, bulks of up to 3, 2 actions | holds, 18,253 states |
| `all_described` | Does every action leave a trace on the screen? | as `review_batches` | **violated**, see 5 |
| `screen_side` | Does the screen of an order tell its side? | as `review_batches` | **violated**, see 5 |
| `close_terms` | Does the screen of a CLOSE tell whether the order rests on the book, and at what price? | as `review_batches` | **violated**, see 5 |
| `screen_texts` | Is any text cut, overwritten before it is displayed, or any array overrun? | for each operation and shape of its actions the shortest and the longest texts and numbers the parsers let through (tickers of 48, numbers of 21 characters, 5 requests), both devices | holds, 37,912 states |
| `payloads` | Is a payload understood as what it says, accepted exactly when it should be; are metadata those that were issued? | an action of every type (optional fields sent or not; none, one, too many requests; a foreign asset); a context without metadata, four with an empty queue that between them accept every type, one that takes no more; any 2 edits; a metadata per operation and set of optional fields, any 3 edits | holds, 589,634 states |
| `wire` | Do both encoders agree; is what is sent what is read; is the amount of a margin update shown in full? | bytes of 3 bits, words of 6: every word, tags and lengths on both sides of each change of form, 2 fields | holds, 44,733 states |
| `hashing` | Does every accepted action fit the buffer, as one well-formed value no other action has; is the buffer never overrun; is the digest that of the typed data, and of no other request? | every field with two values or all of its enumerators, bulks of 1 to 6 of the longest requests, numbers next to each change of width; digests over colliding wallets, builders, nonces and chains; buffers of 1024 and 109 bytes | holds, 8,794 states |
| `chunks` | No overflow, nothing left between transfers, and `Reassembly` implemented? | buffer of 4 bytes, chunks of 0 to 3, sizes 0 to 5 and "no size", 2 handlers | holds, 113 states |
| `app` | Do interleaved chunks leave the session alone, and is an action only queued in the session its transfer began in? | payloads of 2 parts in 1 or 2 chunks, an operation to open and one to close, 2 actions, refused commands of each sort | holds, 49,062 states |

Why the bounds are enough to be interesting. Four of the action types suit an ORDER, so
with `MaxActionCount` 3 the queue is really full and a fourth compatible
action is really refused. The metadata differ in operation and network, so
stale actions and digests for the wrong network would show. Two paths suffice
for "the reviewed one and another". The smallest buffer in which a transfer has
a beginning, a middle and an end has 3 cells; 4 leaves room for a chunk that
overruns. Bytes of three bits have every form of a length that bytes of eight
have, the three-byte form of `der_encode` included. In the buffer of 109 bytes
some actions fit to the byte and others are refused in each part. Two edits
break two rules at once, and three are what it takes to move, alter and resign
a metadata.

Deadlock is checked in `SigningSession`, `ChunkedPayload` and `HyperliquidApp`,
which serve commands for ever. The other modules describe something that ends,
and their runs say `CHECK_DEADLOCK FALSE`: a batch that is full, a payload
edited as often as the bound allows, a buffer of fields that is full, a
signature that is made or refused, a screen that is laid out.

Some of the properties deserve a word:

* `SignedAsReviewed` compares the signatures the host got with those expected
  from the *reviewed* snapshot: path, digest (with the wallet address of the
  path) and the count of what is left. `OpenSessionTracksReview` adds that the
  batch in memory is still that snapshot and is not finished.
* `ReleaseNeedsConsent` and `NoSubstitution` are about steps: who may release, and
  what may happen to a half-signed batch.
* `ScreenDeterminesBatch` replaces an action by any other the session would
  accept and asks that a batch with the same screen have the same *essence*.
  The essence leaves out client order ids, grouping, builder, nonce, the
  approvals that ride along with an ORDER (`OnlyApprovalsAreSilent`), the price bound
  of an order executed at once, and the side of a trigger in a MODIFY, which
  `op_modify.c:121-122` says is hidden; and it takes for the side of an opening
  order what the screen shows (`screen_side` asks for the real one). Of a CLOSE
  the essence has the time in force and the price as well, which neither the screen nor a
  check decides: for it `ScreenDeterminesBatch` asks no more than the side and size
  (`PositionClosed`), and `close_terms` shows that the essence differs.
* `AcceptedSaysWhatWasUnderstood` runs the parser backwards: the action it
  returns, encoded by the client, must have the fields of the payload. A
  required tag missing from a `verify_` function, a default that stays, a field
  of one request that completes the next would all break it.
  `UnderstoodAsMeant` is the converse, and states which order matters: the type of a
  structure before its body, nothing else.
* `OnlyIssuedMetadata` lets the signature of any issued metadata be put on any
  other: a field outside the hash would let one pass for another.
* `AlwaysFits` relates two limits far apart in the code, the requests of a bulk
  (a parser) and the size of `g_raw_buf` (the hashing): an action that breaks it
  would fail only after its approval. It is stated for buffers that hold the
  longest action of each type, which the 1024 bytes do; `InBuffer` and
  `RefusedOnlyIfTooLong` are about the others too.
* `BytesDetermineAction` compares each action with every other one of the run,
  including those that differ in one field only.
* `EncodesTypedData` compares the hand-written sequences of words with
  `EncodeData`, which follows the definition of EIP-712 from the members of the type.
* `QueuedInItsSession` is about two components: the transfer keeps no reference
  to the session, so it is only the refusal of a second transfer and the reset
  of the metadata that keep an action from completing in a later session.

### Fairness

`NewSessionAlwaysPossible` assumes weak fairness of the user's answer (a review that stays
on screen is eventually confirmed or rejected) and strong fairness of providing genuine
metadata (a host that wants a new session keeps trying; it is refused during
reviews, so the attempt is not continuously enabled). Both are assumptions on
the environment, as the property is conditional on a host that tries; the code
itself is a loop that handles each command at once, so nothing is assumed about it.
Without the reset in `parse_action_metadata` the property fails.

## 4. What is proved

TLAPS checks the theorems below for all values of the constants, under the
assumptions named in the modules. What they say, and what in the code makes
each true:

| Assumption | What it says | Why it holds |
|---|---|---|
| `MaxActionCountAssumption`, `BulkMaxSizeAssumption` | the queue and a bulk hold between 1 and 255 entries | both counters are `uint8_t` |
| `BufferSizeAssumption`, `ChunksAssumption`, `ZeroByteAssumption` | the buffer holds 1 to 65535 bytes; chunks are sequences of bytes and zero is a byte | the size is a `uint16_t` |
| `NoHandlerAssumption`, `NoReviewAssumption` | a marker differs from what it is told apart from | a null pointer is no handler, a page without review shows nothing |
| `CommandsAssumption` | what a dispatched command carries is a path, well or ill formed, or a chunk | it only names the inputs of the two components |
| `MetadataAssumption`, `ActionsAssumption`, `RequestsAssumption` | metadata and actions have been parsed: types, enumerators and Booleans are in range, bulks are lists | `handle_operation_type`, the `handle_` functions of the enumerators, the C types |
| `NumericTextsAssumption`, `BatchesAssumption` | numeric texts have 1 to 21 characters, tickers 1 to `ASSET_TICKER_LENGTH`; a 64-bit number has at most 20 digits, a 32-bit one at most `UINT32_STRING_LENGTH`; a type is queued once | the length checks of the parsers, the C types, the compatibility check of `parse_action` |
| `WordingAssumption` | the lengths of the fixed words of the screens | they are literals |
| `HexTextsAssumption` | client order ids have 34 characters, addresses 42 | 16 and 20 bytes in hexadecimal after `0x` |
| `FixedTextsAssumption` | the lengths of the keys and enumerators that are written | they are literals, with their lengths beside them in the `cmp_write_str` calls |
| `CapacitiesAssumption`, `U32LimitAssumption` | sizes of the buffer are numbers; integers from some bound above 65536 on take nine bytes | the format of MessagePack |
| `IssuedAssumption` | issued metadata have the members of `s_action_metadata`; an optional one that was not given is zero and its flag is down | `explicit_bzero` on the structure, and flags set only by the handler of the field |
| `DecodedAssumption` | no decoder refuses a value or a signature the service issues | the service issues metadata for this device; the marker of a refused value is none of them |
| `SignBitAssumption` | half the number of words is positive | words have at least one bit |

Every theorem that names a property of a run (the `property` of its row in
`PROJECT.json`) says of every instance what the run shows on one.

**SigningSessionProofs.** `TypeCorrect` first. The safety
properties are not inductive on their own: that the signatures are the expected ones
depends on the context still being the reviewed one, which depends on no
command being served during a review. `IInv` is the conjunction of `TypeOK`,
`ReviewShowsContext`, `OpenSessionTracksReview`, `SignedAsReviewed` and
`SessionInv`; the last says that nothing has been released while a review is on
screen and that in a half-signed session the wallet address is that of the
recorded path. The proof that a step preserves it has one step per action, with
one lemma for the release of a signature, which `Confirm` and `SignNextAction`
share. From `Invariance` follow `SignaturesAreReviewed`, `ReviewIsCurrent`,
`SessionIsReviewed`, and the step properties `ConsentPrecedesRelease` and
`SessionIsNeverReplaced`. `QueueSuitsOperation` has an
invariance proof of its own: it only needs to know how metadata and actions enter the
context. `SessionRefines`: the initial state maps to the initial state, and
under `IInv` each action maps to a step of `ReviewedSigning` or to a stutter.

**ChunkedPayloadProofs.** `Inv` (types and bounds,
and "idle means wiped") is inductive as it stands. `BufferRefines` rests on
lemmas that say what `Copied` does to the bytes received: they keep their
prefix and grow by the length of the chunk.

**HyperliquidAppProofs.** `AppRefines` (`ImplementsSession`): each command,
with the chunks and the session it drives, is a step of `SigningSession` or a
stutter, so that what is proved of the session holds of the application.
`NoActionCrossesSessions` (`QueuedInItsSession`) rests on `StaleInv`: a transfer
that has outlived its session is still in progress, and there are no metadata.
Only new metadata could let its action in, and their chunks are themselves a
transfer, for another handler, that makes the first one be given up.

**HlReviewProofs, ReviewBatchesProofs.** `Inv` says that the metadata are some
the parser lets through and that the queue is a batch: types that suit the
operation, each once, and a single one under MODIFY. The lemmas of
`HlReviewProofs` are about what a screen counts: the number of pairs of some
items in each flow (`OrderPairs` and its fellows), from the sets of positions
that hold the orders of a kind, and the number of a pair among those of its
item (`UpToCount`, `UpToGrows`), which chooses the slot of an order id.
`EveryRequestIsShown` compares the two flow by flow.
`OnlyApprovalsStayOffScreen` takes an action away and finds that the screen
loses a pair or that `handle_ui` refuses what is left.
`ScreenDecidesBatch` is the longest: for each operation, two batches that
differ in one action and have the same pairs agree in what each pair holds, and
what else the essence has is pinned down by one of the checks of the flow. Under CLOSE the
conclusion is about `PositionClosed` only: no check of `ui_close` pins down the terms
of the order.

**ScreenTextsProofs.** One invariant, `LayoutInv`, gives `NoTextIsCut`,
`NoTextIsOverwritten` and `ArraysHoldEveryScreen`:

* `Reviewed`: the batch is one the parsers let through and `handle_ui` accepts.
  From it come the number of pairs of each item (`Most`, at most one each but
  for the orders of a cancellation), hence that pairs and order ids fit their
  arrays, and the length of the text of each item, compared with the room in
  its buffer operation by operation.
* `PairsLaid`: the pairs so far are a prefix of those to show, and each points at a
  constant text or at its own buffer, last written for it. That names are not shared
  (`NamesDiffer`) follows from the same counts: items that share a buffer
  are never on one screen.
* `NothingIsCut` itself, and `ShortIntent` with `IntentComesFirst`: the two
  messages embed the intent, so they fit 128 characters because the
  intent, written before them, fits 100.

**Eip712Proofs.** `ApprovedActionsAlwaysFit`: an action that was accepted is never
refused by `ser_writer`, for any requests, texts and numbers. The lemmas bound
the bytes of a header (30 with requests, 63 without), of one request (166 in an
order, 186 in a modify, 23 in a cancel) and of a trailer (88), from the
widths of integers (at most 9) and of numeric texts (at most 22). The invariant `Room` says
that the offset is at most a header and as many requests as have been written;
`BufferHoldsLargest` is what the sizes of the code satisfy (1024 bytes, 5
requests), and without it nothing is claimed.
`DigestsAreFaithful`: with Keccak injective, two requests have
the same digest exactly when `HlAction` gives them the same term. The lemmas go kind
by kind (`AgentInjective`, `BuilderFeeInjective`, `AbstractionInjective`,
`MessagesApart`) up to `WordsAgree` and `TermsAgree`, which compare words and
terms with one list of what the requests must have in common.
`HashesEncodeTypes`: the sequences of words the code writes by hand are those
EIP-712 derives from the members of each type, member by member.

The items of an action are a flattened sequence of any length, and the rest of
the module is about them, with one inductive invariant, `WrittenInv`: the buffer
holds the header and the requests written so far (`ItemsThrough`), then the
whole action, its offset is the sum of the widths of those items, and a refusal
means that the whole is too long. `InBuffer` does not say *which* items are in
the buffer, so it is not inductive.

* Sums and items are recursive functions. That they follow their equations, and
  all that grows with the requests, is shown by `CountingUp`: a set that holds 0
  and with each number below a bound the next one holds them all, which follows
  from `<` being well-founded on the naturals. Stated of a set instead of
  an operator, it is a form of induction the provers can instantiate.
* `InBufferAlways` and `RefusedOnlyIfTooLongAlways`: the hand-summed sizes of the
  parts are the bytes of their items, field by field (`OrderBytes`,
  `HeaderBytes`, `RequestBytes`, `TrailerBytes`); widths add up over
  concatenation (`BytesOfBoth`) and never shrink (`BytesGrow`), so a part that
  does not fit is a whole that does not.
* `OneValueAlways`: `Fills(items, before, after)` says that where `before` items
  are needed, these bring the number to `after` and not to nothing until the
  last of them. Parts compose (`FillsBoth`); an order, with or without a client
  order id, is one value; a header leaves open as many as there are
  requests and entries in the trailer.
* `BytesDetermineActionAlways`: no encoding of a part is the beginning of that of
  another part in its place. `Alike(s, x, t, y)` says that s followed by x is t
  followed by y; each lemma `...Determines` concludes that the parts s and t are those of one
  structure, and that x is y: from the head of an order the presence of a
  client order id, from the kind its length, from the header the type and the
  count, then request by request (`RequestsDetermine`) and the trailer.

**PayloadsProofs.** What the device makes of a payload of metadata, whatever
the service issues and however many edits the payload went through.

* `MetadataIsIssued`: `OnlyIssuedMetadata` always holds. The invariant is
  `FlatInv`: the payload of a metadata command stays a flat list of fields whose
  signatures are issued ones or refused by the decoder, and what was meant is
  one of the issued. Each kind of edit preserves it (`FlatRearranged`,
  `FlatChanged`, `FlatReplaced`, `FlatRetagged`). The parser is then a run of
  contexts, one per field, and `ContextInv` goes along it: as long as no field was refused, the
  fields hashed so far are those received but the signature, each tag once, and
  `Says` that the metadata has their values, with the flag down and zero where an
  optional field is absent. At the end the accepted signature is over the fields of an issued
  metadata, which are therefore the hashed ones, and fields that say the same
  are of the same metadata (`SignedSays`, `AcceptedIsIssued`).
* `IssuedMetadataIsUnderstood`: `IssuedIsUnderstood` always holds. If the fields
  other than the signature are those the service signed, in its order, with the
  signature once anywhere among them, every step of the run accepts: no tag is
  repeated (`SignedTags`), each is handled with a value its decoder takes
  (`SignedHandled`, `StepAccepts`), none of the mandatory ones is missing at the
  end; what was understood is what the fields say (`SignedIsUnderstood`).
* Both count up the fields of a payload with `CountingUp`, which follows from the
  library's well-founded minimum: a set of numbers that has zero and successors has all.
* `AmountsAreShownFaithfully`: the amount read off the screen is the amount
  packed by the host, for words of every width; the run `wire` composes it with
  the bytes of the field.

**Only model-checked.**

* `NewSessionAlwaysPossible`: liveness under fairness, out of the prover's reach.
* `AcceptedSaysWhatWasUnderstood` and `UnderstoodAsMeant` of `Payloads`: a
  payload of an action nests lists of fields up to five deep, and both
  compare the client's encoding with what a parser per structure returns. A run of
  contexts as above would be needed for every structure, and inside each for its members.
* `EncodersAgree`, `FieldsReadBack` and `ShownAmountIsMeant` of `TlvWire`: the
  reader of the bytes is a recursive operator, the numbers of the wire are powers of
  the base, of which the provers know nothing, and what a fold over the bytes
  computes is an induction over data.

## 5. Where the code and its documents disagree

* **A failed signature after a confirmed review** (`failed_review`).
  `review_choice` takes any result but -1 for success. When hashing or signing
  fails `sign_action` answers `SWO_INCORRECT_DATA`, whose result is not
  negative: the device announces a signed message and keeps the batch, where
  `doc/architecture.md:127` says the context is zeroed on error recovery. The
  consequences are bounded: `ReleaseNeedsConsent` shows that the next SIGN_ACTION opens a
  new review.
* **Silent approvals** (`all_described`). `handler/sign_action.c:88-90` says
  all actions of a batch are described before any is signed;
  `action.c:205-207` signs builder fee approvals and abstraction changes silently
  by design. `OnlyApprovalsAreSilent` shows there is no third kind.
* **The side of an order** (`screen_side`). `handler/sign_action.c:93-94` says
  what is signed matches what was shown; a reduce-only buy under ORDER reads
  "short", as a plain sell does.
* **The terms of a closing** (`close_terms`). Against the same words, `ui_close`
  (`op_close.c:8-66`) neither shows nor checks the time in force and the price of
  its order, where `ui_order` shows a GTC price and refuses ALO: a reduce-only
  order that rests on the book at any price has the screen of one that closes the position
  at once.

`APP_SPECIFICATION.md:168` also lists UPDATE_LEVERAGE among the operation types
of the metadata, and `handle_operation_type` (`action_metadata.c:50-73`) refuses it:
it is absent from `OpTypes`, and the metadata issued for it in `payloads` are refused.

## 6. What is not modelled

* The certificate of the PKI and the signature check behind it: a signature is
  a record of the fields it was made over, and a certificate that fails is a
  refused payload. Third-party code (the SDK, cmp) is modelled as external,
  from how the code uses it.
* Keccak and ECDSA: digests, signatures and addresses are injective terms, and any call
  may fail (`FailToSign`, `RefuseReview`).
* MessagePack items are not spelled out as bytes: an item has a kind, a value
  and a width. Integers above 2^31 are out of the checker's range, so the bound
  at which an integer takes nine bytes is a constant.
* What the texts on the screens say beyond their length and their variable parts:
  wording, icons, the digits that `format_fpu64_trimmed` makes.
* The `dump_` functions of the parsers, which only log.
* The transport of the client (`command_sender.py`, `response_unpacker.py`): the
  run `chunks` takes every way of splitting a payload. The MessagePack reader of the unit
  tests (`ser_helpers.h`) and the test suites.
* Status words are named by kind: the refusals of the dispatcher are one
  `INVALID_COMMAND`.
* The NVM flag, the menu pages.

## 7. Plan

Done, in this order: `HlContext`, `HlAction`, `HlReview`, `SigningSession` with
its abstract specification; `ReviewBatches`; `ChunkedPayload` with its abstract
specification; `HyperliquidApp`; the proofs of the session and of the buffer
with both refinements; `ActionTlv`, `MetadataTlv` and the payloads of the client;
`Serialization`, `Serializer` and `Eip712` with their proofs; `ScreenTexts`;
`MarginAmount` and `TlvWire`; the proofs of the composition, of the screens of
every batch, of the buffers they are written to, of the bytes that are hashed and
of the metadata that is accepted.

Next:

1. The parsers of actions: the run of contexts of `PayloadsProofs` for each
   structure of an action, from the innermost outwards.
2. Liveness of a transfer that is retried after a refusal.
