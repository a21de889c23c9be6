--------------------------- MODULE ChunkedPayload ---------------------------
(***************************************************************************)
(* Payloads longer than a command (chunked_payload.c): the host sends a    *)
(* size and the bytes in chunks, the application gathers them in the       *)
(* static g_payload and hands them to the handler of the command once all  *)
(* are there.  A chunk is a record [size, data]; the two bytes of the size *)
(* exist in a first chunk only.                                            *)
(***************************************************************************)
EXTENDS Integers, Sequences

CONSTANTS
    Byte,         \* the contents of a buffer cell
    ZeroByte,     \* the contents explicit_bzero leaves
    BufferSize,   \* PAYLOAD_BUFFER_SIZE
    Handlers,     \* the functions process_chunked_payload is called with
    NoHandler,    \* the NULL handler
    NoSize,       \* a first chunk of fewer than two bytes
    NothingHanded,\* the last chunk completed no payload
    Chunks        \* the chunks the host may send

ASSUME BufferSizeAssumption == BufferSize \in Nat \ {0} /\ BufferSize <= 65535

ASSUME ZeroByteAssumption == ZeroByte \in Byte

ASSUME NoHandlerAssumption ==
    /\ NoHandler \notin Handlers
    /\ NoHandler \notin [handler : Handlers, size : 1..BufferSize, bytes : Seq(Byte)]

ASSUME ChunksAssumption == \A chunk \in Chunks : chunk.data \in Seq(Byte)

VARIABLES
    g_payload,   \* g_payload
    handed       \* history: the payload the last chunk handed to its handler

vars == <<g_payload, handed>>

-----------------------------------------------------------------------------
(* process_chunked_payload_internal, as operators on the s_chunked_payload *)

Wiped ==
    [buffer |-> [i \in 1..BufferSize |-> ZeroByte], size |-> 0, received |-> 0,
     handler |-> NoHandler]

AcceptsFirst(payload, chunk) ==
    /\ payload.handler = NoHandler
    /\ chunk.size # NoSize
    /\ chunk.size \in 1..BufferSize

(* Faulty variants of AcceptsFollowing and Fits: a chunk of either command *)
(* goes on with the transfer; the bound is tested before the bytes count.  *)
AcceptsFollowingForAnyHandler(payload, chunk, handler) ==
    chunk.data # <<>> /\ payload.handler # NoHandler

FitsBeforeTheBytes(payload, data) == payload.received <= payload.size

AcceptsFollowing(payload, chunk, handler) ==
    /\ chunk.data # <<>>
    /\ payload.handler = handler

(* The payload the bytes of the chunk are added to *)
Opened(payload, first, chunk, handler) ==
    IF first
    THEN [buffer |-> payload.buffer, size |-> chunk.size, received |-> 0, handler |-> handler]
    ELSE payload

Fits(payload, data) == payload.received + Len(data) <= payload.size

Accepts(payload, first, chunk, handler) ==
    /\ IF first THEN AcceptsFirst(payload, chunk)
                ELSE AcceptsFollowing(payload, chunk, handler)
    /\ Fits(Opened(payload, first, chunk, handler), chunk.data)

Copied(payload, data) ==
    [payload EXCEPT
        !.buffer = [i \in 1..BufferSize |->
                       IF i \in (payload.received + 1)..(payload.received + Len(data))
                       THEN data[i - payload.received]
                       ELSE payload.buffer[i]],
        !.received = payload.received + Len(data)]

Filled(payload, first, chunk, handler) ==
    Copied(Opened(payload, first, chunk, handler), chunk.data)

IsComplete(payload) == payload.received = payload.size

(* The buffer_t given to the handler, and the bytes received so far *)
Content(payload) == [i \in 1..payload.size |-> payload.buffer[i]]

Received(payload) == [i \in 1..payload.received |-> payload.buffer[i]]

-----------------------------------------------------------------------------
(* process_chunked_payload.  A handler that fails and a chunk that is      *)
(* refused wipe the payload, as does a completed payload: what tells them  *)
(* apart is the answer of the command, which is not part of this module.   *)

Init == g_payload = Wiped /\ handed = NothingHanded

(* A faulty variant of RefuseChunk: the transfer is closed, its bytes stay. *)
RefuseChunkKeepingBytes(first, chunk, handler) ==
    /\ ~Accepts(g_payload, first, chunk, handler)
    /\ g_payload' = [g_payload EXCEPT !.handler = NoHandler]
    /\ handed' = NothingHanded

RefuseChunk(first, chunk, handler) ==
    /\ ~Accepts(g_payload, first, chunk, handler)
    /\ g_payload' = Wiped
    /\ handed' = NothingHanded

BufferChunk(first, chunk, handler) ==
    /\ Accepts(g_payload, first, chunk, handler)
    /\ g_payload' = Filled(g_payload, first, chunk, handler)
    /\ ~IsComplete(g_payload')
    /\ handed' = NothingHanded

HandOver(first, chunk, handler) ==
    /\ Accepts(g_payload, first, chunk, handler)
    /\ LET filled == Filled(g_payload, first, chunk, handler)
       IN  /\ IsComplete(filled)
           /\ handed' = [handler |-> handler, bytes |-> Content(filled)]
    /\ g_payload' = Wiped

ProcessChunkedPayload(first, chunk, handler) ==
    \/ RefuseChunk(first, chunk, handler)
    \/ BufferChunk(first, chunk, handler)
    \/ HandOver(first, chunk, handler)

(* The application exits and is launched again. *)
Exit == g_payload' = Wiped /\ handed' = NothingHanded

Next ==
    \/ \E first \in BOOLEAN, chunk \in Chunks, handler \in Handlers :
           ProcessChunkedPayload(first, chunk, handler)
    \/ Exit

Spec == Init /\ [][Next]_vars

-----------------------------------------------------------------------------
(* Properties *)

(* Types and bounds: a transfer under way has a size the buffer can hold   *)
(* and lacks at least a byte, so that no memcpy passes the end of the      *)
(* buffer (chunked_payload.c:38, 58-64).                                   *)
TypeOK ==
    /\ g_payload \in [buffer   : [1..BufferSize -> Byte],
                      size     : 0..BufferSize,
                      received : Nat,
                      handler  : Handlers \cup {NoHandler}]
    /\ g_payload.received <= g_payload.size
    /\ g_payload.handler # NoHandler => g_payload.received < g_payload.size

(* Nothing of a finished, failed or interrupted transfer is left in the    *)
(* buffer, whatever ended it (chunked_payload.c:66-85).                    *)
IdleIsWiped == g_payload.handler = NoHandler => g_payload = Wiped

(* The two invariants together are inductive. *)
Inv == TypeOK /\ IdleIsWiped

(* The fixed buffer, its offset and its wipes implement the reassembly of  *)
(* whole payloads: a handler gets exactly the bytes of the chunks of one   *)
(* transfer, all sent for that handler, never a part of another transfer   *)
(* (chunked_payload.c:17-85).                                              *)
Promise == INSTANCE Reassembly WITH
    MaxSize    <- BufferSize,
    NoTransfer <- NoHandler,
    Nothing    <- NothingHanded,
    transfer   <- IF g_payload.handler = NoHandler
                  THEN NoHandler
                  ELSE [handler |-> g_payload.handler, size |-> g_payload.size,
                        bytes |-> Received(g_payload)],
    handed     <- handed

ImplementsReassembly == Promise!Spec
=============================================================================
