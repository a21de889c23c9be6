--------------------------- MODULE HyperliquidApp ---------------------------
(***************************************************************************)
(* The application: the main loop (app_main.c), the dispatcher             *)
(* (apdu/dispatcher.c), the reception of chunked payloads and the signing  *)
(* session together.  The host interleaves commands as it likes: a         *)
(* transfer may be under way while an address is asked for, while a review *)
(* is opened, answered or refused, and while the session it belongs to     *)
(* ends.                                                                   *)
(*                                                                         *)
(* A command is a record [cla, ins, p1, p2, data].  The data of a transfer *)
(* command is a chunk, that of SIGN_ACTION a path; NoData is an empty      *)
(* command.  The bytes of a payload are its parts, <<payload, n>>.         *)
(***************************************************************************)
EXTENDS Integers, Sequences

CONSTANTS
    NoMetadata, MaxActionCount, BulkMaxSize, Metadata, Actions, Malformed, Paths,
    NoPath, NoSignature, NoReview,
    ZeroByte, BufferSize, NoHandler, NoSize, NothingHanded, Chunks,
    CLA,         \* the class byte of the application
    Commands,    \* the commands the host may send
    NoData,      \* Lc is zero: the parser leaves cmd->data NULL
    BadPath,     \* data that does not parse as a path
    Parts(_)     \* the number of parts of a payload

VARIABLES
    ctx, signing_ctx, comm_enabled, display, ui, response, reviewed, released,
    g_payload, handed,
    stale        \* history: the session has changed since the transfer that
                 \* is under way began

session == <<ctx, signing_ctx, comm_enabled, display, ui, response, reviewed, released>>

vars == <<session, g_payload, handed, stale>>

Handlers == {"parse_action_metadata", "parse_action"}

Byte == {<<payload, n>> : payload \in Metadata \cup Actions, n \in 1..BufferSize} \cup {ZeroByte}

Session == INSTANCE SigningSession

Transfer == INSTANCE ChunkedPayload

Init == Session!Init /\ Transfer!Init /\ stale = FALSE

-----------------------------------------------------------------------------
(* What the parsers make of the bytes of a payload *)
Decode(payloads, bytes) ==
    LET whole == {payload \in payloads : bytes = [n \in 1..Parts(payload) |-> <<payload, n>>]}
    IN  IF whole = {} THEN Malformed ELSE CHOOSE payload \in whole : TRUE

(* apdu_dispatcher: the tests of a command before its handler is called *)
P1_FIRST == 1
P1_FOLLOWING == 0

IsTransfer(cmd) == cmd.ins \in {"PROVIDE_ACTION_METADATA", "SET_ACTION"}

Dispatched(cmd) ==
    /\ cmd.cla = CLA
    /\ cmd.ins \in {"GET_ADDRESS", "PROVIDE_ACTION_METADATA", "SET_ACTION", "SIGN_ACTION"}
    /\ cmd.p1 = 0 \/ (IsTransfer(cmd) /\ cmd.p1 \in {P1_FIRST, P1_FOLLOWING})
    /\ cmd.p2 = 0
    /\ cmd.data # NoData

(* The data of a command the dispatcher lets through is what its handler   *)
(* reads: a path or none for SIGN_ACTION, a chunk for a transfer.          *)
ASSUME CommandsAssumption ==
    \A cmd \in Commands :
        Dispatched(cmd) =>
            /\ cmd.ins = "SIGN_ACTION" => cmd.data \in Paths \cup {BadPath}
            /\ IsTransfer(cmd) => cmd.data \in Chunks

(* The session is over, or another one. *)
SessionChanges ==
    \/ ctx'.metadata # ctx.metadata
    \/ Len(ctx'.actions) < Len(ctx.actions)

KeepTransfer ==
    /\ stale' = (stale \/ (g_payload.handler # NoHandler /\ SessionChanges))
    /\ handed' = NothingHanded
    /\ UNCHANGED g_payload

(* apdu_parser or apdu_dispatcher refuses the command; a transfer under    *)
(* way is not disturbed.                                                   *)
RefuseCommand(cmd) ==
    /\ ~Dispatched(cmd)
    /\ Session!RefuseCommand
    /\ KeepTransfer

GetAddress(cmd) ==
    /\ Dispatched(cmd)
    /\ cmd.ins = "GET_ADDRESS"
    /\ Session!GetAddress
    /\ KeepTransfer

(* handler_provide_action_metadata and handler_set_action: the answer is   *)
(* that of process_chunked_payload, which is that of the parser when the   *)
(* chunk completes a payload.                                              *)
RefuseChunk(first, chunk, handler) ==
    /\ Transfer!RefuseChunk(first, chunk, handler)
    /\ Session!RefuseMetadata
    /\ stale' = FALSE

(* A faulty variant of BufferChunk: the session is dropped as soon as new  *)
(* metadata begin to arrive, before their signature is verified.           *)
BufferChunkAndReset(first, chunk, handler) ==
    /\ Transfer!BufferChunk(first, chunk, handler)
    /\ comm_enabled
    /\ ctx' = IF handler = "parse_action_metadata" THEN Session!EmptyCtx ELSE ctx
    /\ Session!SendSw("SUCCESS")
    /\ UNCHANGED <<signing_ctx, comm_enabled, display, ui, reviewed, released, stale>>

BufferChunk(first, chunk, handler) ==
    /\ Transfer!BufferChunk(first, chunk, handler)
    /\ Session!AcknowledgeChunk
    /\ UNCHANGED stale

CompleteMetadata(first, chunk) ==
    /\ Transfer!HandOver(first, chunk, "parse_action_metadata")
    /\ Session!ProvideActionMetadata(Decode(Metadata, handed'.bytes))
    /\ stale' = FALSE

CompleteAction(first, chunk) ==
    /\ Transfer!HandOver(first, chunk, "parse_action")
    /\ Session!SetAction(Decode(Actions, handed'.bytes))
    /\ stale' = FALSE

TransferChunk(cmd) ==
    /\ Dispatched(cmd)
    /\ IsTransfer(cmd)
    /\ LET first   == cmd.p1 = P1_FIRST
           handler == IF cmd.ins = "SET_ACTION" THEN "parse_action"
                                                ELSE "parse_action_metadata"
       IN  \/ RefuseChunk(first, cmd.data, handler)
           \/ BufferChunk(first, cmd.data, handler)
           \/ handler = "parse_action_metadata" /\ CompleteMetadata(first, cmd.data)
           \/ handler = "parse_action" /\ CompleteAction(first, cmd.data)

SignAction(cmd) ==
    /\ Dispatched(cmd)
    /\ cmd.ins = "SIGN_ACTION"
    /\ IF cmd.data = BadPath THEN Session!RefusePath ELSE Session!SignAction(cmd.data)
    /\ KeepTransfer

(* While a review is on screen no command reaches the dispatcher. *)
RefuseWhileReviewing ==
    /\ Session!RefuseWhileReviewing
    /\ KeepTransfer

ReceiveCommand ==
    \/ \E cmd \in Commands :
           \/ RefuseCommand(cmd)
           \/ GetAddress(cmd)
           \/ TransferChunk(cmd)
           \/ SignAction(cmd)
    \/ RefuseWhileReviewing

UserChoice ==
    /\ Session!UserChoice
    /\ KeepTransfer

Exit == Session!Exit /\ Transfer!Exit /\ stale' = FALSE

Next == ReceiveCommand \/ UserChoice \/ Exit

Spec == Init /\ [][Next]_vars

-----------------------------------------------------------------------------
(* Properties *)

(* An action that came in several chunks is queued in the session in which *)
(* its first chunk was accepted, although reviews, answers, signatures and *)
(* other transfers may have come between its chunks: what ends the session *)
(* leaves no metadata to queue it under, and the metadata of a new session *)
(* cannot arrive without giving up the transfer (chunked_payload.c:28-56,  *)
(* action.c:236-264, action_metadata.c:236-246).                           *)
QueuedInItsSession ==
    [][ Len(ctx'.actions) > Len(ctx.actions) => ~stale ]_vars

(* Seen from the session, a command that completes a payload carries it    *)
(* whole, and every other chunk leaves the session alone: the interleaving *)
(* of chunks with other commands adds no behaviour to SigningSession       *)
(* (handler/provide_action_metadata.c, handler/set_action.c).              *)
ImplementsSession == Session!Spec
=============================================================================
