------------------------ MODULE ChunkedPayloadProofs ------------------------
(***************************************************************************)
(* Proofs about ChunkedPayload, for every buffer size, every chunk and     *)
(* every set of handlers.                                                  *)
(***************************************************************************)
EXTENDS ChunkedPayload, TLAPS

Payloads ==
    [buffer : [1..BufferSize -> Byte], size : 0..BufferSize, received : Nat,
     handler : Handlers \cup {NoHandler}]

(* The constants, as the facts the proofs use *)
LEMMA Constants ==
    /\ BufferSize \in Nat
    /\ 1 <= BufferSize
    /\ ZeroByte \in Byte
    /\ NoHandler \notin Handlers
    /\ \A chunk \in Chunks : chunk.data \in Seq(Byte)
<1>1. BufferSize \in Nat /\ 1 <= BufferSize
  BY BufferSizeAssumption DEF BufferSizeAssumption
<1>2. ZeroByte \in Byte
  BY ZeroByteAssumption DEF ZeroByteAssumption
<1>3. NoHandler \notin Handlers
  BY NoHandlerAssumption DEF NoHandlerAssumption
<1>4. \A chunk \in Chunks : chunk.data \in Seq(Byte)
  BY ChunksAssumption DEF ChunksAssumption
<1> QED
  BY <1>1, <1>2, <1>3, <1>4

(* The payload explicit_bzero leaves is a payload, and keeps no byte. *)
LEMMA WipedInv ==
    /\ Wiped \in Payloads
    /\ g_payload' = Wiped => Inv'
<1>1. Wiped.buffer \in [1..BufferSize -> Byte] /\ Wiped.size = 0 /\ Wiped.received = 0
      /\ Wiped.handler = NoHandler
  BY Constants DEF Wiped
<1>2. Wiped \in Payloads
  BY Constants DEF Wiped, Payloads
<1>3. ASSUME g_payload' = Wiped PROVE Inv'
  <2>1. TypeOK'
    BY <1>1, <1>2, <1>3 DEF TypeOK, Payloads
  <2>2. IdleIsWiped'
    BY <1>3 DEF IdleIsWiped, Wiped
  <2> QED
    BY <2>1, <2>2 DEF Inv
<1> QED
  BY <1>2, <1>3

(* The bytes of the payload a chunk is added to: none for a first chunk. *)
Before(first) == IF first THEN 0 ELSE g_payload.received

(* An accepted chunk adds its bytes after those that were received, inside *)
(* the buffer, and keeps the size and the handler of the transfer          *)
(* (chunked_payload.c:28-64).                                              *)
LEMMA FilledPayload ==
    ASSUME Inv, NEW first \in BOOLEAN, NEW chunk \in Chunks,
           NEW handler \in Handlers,
           Accepts(g_payload, first, chunk, handler)
    PROVE  LET filled == Filled(g_payload, first, chunk, handler)
           IN  /\ filled \in Payloads
               /\ filled.handler = handler
               /\ filled.size \in 1..BufferSize
               /\ first => filled.size = chunk.size
               /\ ~first => /\ filled.size = g_payload.size
                            /\ g_payload.handler = handler
                            /\ chunk.data # <<>>
               /\ first => g_payload.handler = NoHandler
               /\ filled.received = Before(first) + Len(chunk.data)
               /\ filled.received <= filled.size
               /\ \A i \in 1..Before(first) : filled.buffer[i] = g_payload.buffer[i]
<1> DEFINE opened == Opened(g_payload, first, chunk, handler)
           filled == Filled(g_payload, first, chunk, handler)
<1>1. chunk.data \in Seq(Byte) /\ Len(chunk.data) \in Nat
  BY Constants
<1>2. /\ opened \in Payloads
      /\ opened.buffer = g_payload.buffer
      /\ opened.handler = handler
      /\ opened.size \in 1..BufferSize
      /\ opened.received = Before(first)
      /\ first => opened.size = chunk.size /\ g_payload.handler = NoHandler
      /\ ~first => /\ opened.size = g_payload.size
                   /\ g_payload.handler = handler
                   /\ chunk.data # <<>>
  <2>1. CASE first
    <3>1. chunk.size \in 1..BufferSize /\ g_payload.handler = NoHandler
      BY <2>1 DEF Accepts, AcceptsFirst
    <3>2. opened = [buffer |-> g_payload.buffer, size |-> chunk.size, received |-> 0,
                    handler |-> handler]
      BY <2>1 DEF Opened
    <3>3. g_payload \in Payloads /\ chunk.size \in 0..BufferSize
      BY <3>1, Constants DEF Inv, TypeOK, Payloads
    <3>4. opened \in Payloads
      BY <3>2, <3>3 DEF Payloads
    <3>5. /\ opened.buffer = g_payload.buffer
          /\ opened.handler = handler
          /\ opened.size = chunk.size
          /\ opened.received = 0
      BY <3>2, <3>3 DEF Payloads
    <3> QED
      BY <2>1, <3>1, <3>4, <3>5 DEF Before
  <2>2. CASE ~first
    <3>1. chunk.data # <<>> /\ g_payload.handler = handler /\ opened = g_payload
      BY <2>2 DEF Accepts, AcceptsFollowing, Opened
    <3>2. g_payload.size \in 1..BufferSize
      BY <3>1, Constants DEF Inv, TypeOK
    <3>3. g_payload \in Payloads
      BY DEF Inv, TypeOK, Payloads
    <3> QED
      BY <2>2, <3>1, <3>2, <3>3 DEF Before
  <2> QED
    BY <2>1, <2>2
<1>3. opened.received + Len(chunk.data) <= opened.size
  BY DEF Accepts, Fits
<1> HIDE DEF opened
<1>4. /\ filled.handler = opened.handler
      /\ filled.size = opened.size
      /\ filled.received = opened.received + Len(chunk.data)
      /\ filled.buffer = [i \in 1..BufferSize |->
                             IF i \in (opened.received + 1)..(opened.received + Len(chunk.data))
                             THEN chunk.data[i - opened.received]
                             ELSE opened.buffer[i]]
  BY <1>2 DEF Filled, Copied, Payloads, opened
<1>5. filled.buffer \in [1..BufferSize -> Byte]
  <2> SUFFICES ASSUME NEW i \in 1..BufferSize,
                      i \in (opened.received + 1)..(opened.received + Len(chunk.data))
               PROVE  chunk.data[i - opened.received] \in Byte
    BY <1>2, <1>4 DEF Payloads
  <2>1. i - opened.received \in 1..Len(chunk.data)
    BY <1>1, <1>2 DEF Payloads
  <2> QED
    BY <1>1, <2>1
<1>6. filled \in Payloads
  <2>1. filled = [opened EXCEPT !.buffer = filled.buffer, !.received = filled.received]
    BY <1>2, <1>4 DEF Filled, Copied, Payloads, opened
  <2>2. filled.received \in Nat
    BY <1>1, <1>2, <1>4 DEF Payloads
  <2> HIDE DEF filled
  <2> QED
    BY <1>2, <1>5, <2>1, <2>2 DEF Payloads
<1>7. \A i \in 1..Before(first) : filled.buffer[i] = g_payload.buffer[i]
  <2>1. Before(first) \in 0..BufferSize
    BY Constants DEF Before, Inv, TypeOK
  <2>2. SUFFICES ASSUME NEW i \in 1..Before(first)
                 PROVE  filled.buffer[i] = g_payload.buffer[i]
    OBVIOUS
  <2>3. i \in 1..BufferSize /\ i <= opened.received
    BY <1>2, <2>1, Constants
  <2>4. i \notin (opened.received + 1)..(opened.received + Len(chunk.data))
    BY <1>2, <2>1, <2>3
  <2> HIDE DEF filled
  <2> QED
    BY <1>2, <1>4, <2>3, <2>4
<1> HIDE DEF filled
<1> QED
  BY <1>2, <1>3, <1>4, <1>6, <1>7 DEF filled

LEMMA InvStep ==
    Inv /\ [Next]_vars => Inv'
<1> SUFFICES ASSUME Inv, [Next]_vars PROVE Inv'
  OBVIOUS
<1>1. CASE g_payload' = Wiped
  BY <1>1, WipedInv
<1>2. ASSUME NEW first \in BOOLEAN, NEW chunk \in Chunks, NEW handler \in Handlers,
             BufferChunk(first, chunk, handler)
      PROVE  Inv'
  <2>1. /\ g_payload' \in Payloads
        /\ g_payload'.handler = handler
        /\ g_payload'.size \in 1..BufferSize
        /\ g_payload'.received <= g_payload'.size
        /\ g_payload'.received # g_payload'.size
    BY <1>2, FilledPayload DEF BufferChunk, IsComplete
  <2>2. g_payload'.handler # NoHandler
    BY <2>1, Constants
  <2> QED
    BY <2>1, <2>2, Constants DEF Inv, TypeOK, IdleIsWiped, Payloads
<1>3. CASE UNCHANGED vars
  BY <1>3 DEF vars, Inv, TypeOK, IdleIsWiped
<1> QED
  BY <1>1, <1>2, <1>3 DEF Next, ProcessChunkedPayload, RefuseChunk, HandOver, Exit

LEMMA InvAlways == Spec => []Inv
<1>1. Init => Inv
  BY Constants DEF Init, Inv, TypeOK, IdleIsWiped, Wiped
<1> QED
  BY <1>1, InvStep, PTL DEF Spec

(* No transfer ever writes past the end of g_payload: the bytes received   *)
(* never exceed the declared size, nor that size the buffer                *)
(* (chunked_payload.c:38, 58-64).                                          *)
THEOREM BufferNeverOverflows == Spec => []TypeOK
<1>1. Inv => TypeOK
  BY DEF Inv
<1> QED
  BY <1>1, InvAlways, PTL

(* A transfer that ends, however it ends, leaves no byte behind            *)
(* (chunked_payload.c:66-85).                                              *)
THEOREM NothingIsLeft == Spec => []IdleIsWiped
<1>1. Inv => IdleIsWiped
  BY DEF Inv
<1> QED
  BY <1>1, InvAlways, PTL

-----------------------------------------------------------------------------
(* Refinement: the fixed buffer implements Reassembly. *)

(* The bytes received so far, as a sequence: the cells before the offset   *)
(* of the next memcpy (chunked_payload.c:63-64).                           *)
LEMMA ReceivedBytes ==
    ASSUME NEW payload \in Payloads, payload.received <= payload.size
    PROVE  /\ Received(payload) \in Seq(Byte)
           /\ Len(Received(payload)) = payload.received
           /\ \A i \in 1..payload.received : Received(payload)[i] = payload.buffer[i]
<1>1. payload.received \in 0..BufferSize
  BY Constants DEF Payloads
<1>2. Received(payload) \in [1..payload.received -> Byte]
  BY <1>1, Constants DEF Received, Payloads
<1> QED
  BY <1>1, <1>2 DEF Received

(* What a handler is given once everything came, as a sequence *)
LEMMA ContentBytes ==
    ASSUME NEW payload \in Payloads, IsComplete(payload)
    PROVE  Content(payload) = Received(payload)
BY DEF IsComplete, Content, Received

(* A sequence that goes on another one starts with it. *)
LEMMA GoesOn ==
    ASSUME NEW short \in Seq(Byte), NEW long \in Seq(Byte), Len(short) <= Len(long),
           \A i \in 1..Len(short) : long[i] = short[i]
    PROVE  SubSeq(long, 1, Len(short)) = short
<1>1. /\ SubSeq(long, 1, Len(short)) \in Seq(Byte)
      /\ Len(SubSeq(long, 1, Len(short))) = Len(short)
      /\ \A i \in 1..Len(short) : SubSeq(long, 1, Len(short))[i] = long[i]
  OBVIOUS
<1> QED
  BY <1>1

(* The transfer a payload under way stands for *)
AsTransfer(payload) ==
    [handler |-> payload.handler, size |-> payload.size, bytes |-> Received(payload)]

LEMMA TransferTypes ==
    ASSUME NEW payload \in Payloads, payload.received <= payload.size,
           payload.size \in 1..BufferSize, payload.handler \in Handlers
    PROVE  /\ AsTransfer(payload) \in Promise!Transfers
           /\ AsTransfer(payload) # NoHandler
<1>1. Received(payload) \in Seq(Byte)
  BY ReceivedBytes
<1>2. AsTransfer(payload) \in [handler : Handlers, size : 1..BufferSize, bytes : Seq(Byte)]
  BY <1>1 DEF AsTransfer
<1> QED
  BY <1>2, NoHandlerAssumption DEF NoHandlerAssumption, Promise!Transfers

(* A payload under way goes on with the bytes it had (chunked_payload.c:   *)
(* 45-64).                                                                 *)
LEMMA FollowingBytes ==
    ASSUME Inv, NEW chunk \in Chunks, NEW handler \in Handlers,
           Accepts(g_payload, FALSE, chunk, handler)
    PROVE  LET filled == Filled(g_payload, FALSE, chunk, handler)
           IN  /\ Len(Received(g_payload)) < Len(Received(filled))
               /\ SubSeq(Received(filled), 1, Len(Received(g_payload))) = Received(g_payload)
<1> DEFINE filled == Filled(g_payload, FALSE, chunk, handler)
<1>1. /\ filled \in Payloads
      /\ filled.received = g_payload.received + Len(chunk.data)
      /\ filled.received <= filled.size
      /\ chunk.data # <<>>
      /\ \A i \in 1..g_payload.received : filled.buffer[i] = g_payload.buffer[i]
  BY FilledPayload DEF Before
<1>2. g_payload \in Payloads /\ g_payload.received <= g_payload.size
  BY DEF Inv, TypeOK, Payloads
<1> HIDE DEF filled
<1>3. /\ Received(filled) \in Seq(Byte)
      /\ Len(Received(filled)) = filled.received
      /\ \A i \in 1..filled.received : Received(filled)[i] = filled.buffer[i]
  BY <1>1, ReceivedBytes
<1>4. /\ Received(g_payload) \in Seq(Byte)
      /\ Len(Received(g_payload)) = g_payload.received
      /\ \A i \in 1..g_payload.received : Received(g_payload)[i] = g_payload.buffer[i]
  BY <1>2, ReceivedBytes
<1>5. Len(chunk.data) \in Nat \ {0}
  BY <1>1, Constants
<1>6. g_payload.received \in Nat /\ g_payload.received < filled.received
  BY <1>1, <1>2, <1>5 DEF Payloads
<1>7. \A i \in 1..Len(Received(g_payload)) : Received(filled)[i] = Received(g_payload)[i]
  BY <1>1, <1>3, <1>4, <1>6
<1>8. SubSeq(Received(filled), 1, Len(Received(g_payload))) = Received(g_payload)
  BY <1>3, <1>4, <1>6, <1>7, GoesOn
<1> QED
  BY <1>3, <1>4, <1>6, <1>8 DEF filled

LEMMA StepRefines == Inv /\ [Next]_vars => [Promise!Next]_Promise!vars
<1> SUFFICES ASSUME Inv, [Next]_vars PROVE [Promise!Next]_Promise!vars
  OBVIOUS
<1>1. CASE g_payload' = Wiped /\ handed' = NothingHanded
  <2>1. Promise!Drop
    BY <1>1 DEF Promise!Drop, Wiped
  <2> QED
    BY <2>1 DEF Promise!Next
<1>2. ASSUME NEW first \in BOOLEAN, NEW chunk \in Chunks, NEW handler \in Handlers,
             BufferChunk(first, chunk, handler)
      PROVE  Promise!Open \/ Promise!Extend
  <2>1. /\ g_payload' \in Payloads
        /\ g_payload'.handler = handler
        /\ g_payload'.size \in 1..BufferSize
        /\ g_payload'.received <= g_payload'.size
        /\ g_payload'.received # g_payload'.size
        /\ first => g_payload.handler = NoHandler
        /\ ~first => g_payload.handler = handler /\ g_payload'.size = g_payload.size
    BY <1>2, FilledPayload DEF BufferChunk, IsComplete
  <2>2. /\ AsTransfer(g_payload') \in Promise!Transfers
        /\ AsTransfer(g_payload') # NoHandler
    BY <2>1, TransferTypes
  <2>3. /\ Len(Received(g_payload')) = g_payload'.received
        /\ g_payload'.received < g_payload'.size
    BY <2>1, ReceivedBytes DEF Payloads
  <2>4. handed' = NothingHanded /\ handler # NoHandler
    BY <1>2, Constants DEF BufferChunk
  <2>5. CASE first
    <3>1. Promise!Open
      BY <2>1, <2>2, <2>3, <2>4, <2>5 DEF Promise!Open, AsTransfer
    <3> QED
      BY <3>1
  <2>6. CASE ~first
    <3>1. /\ Len(Received(g_payload)) < Len(Received(g_payload'))
          /\ SubSeq(Received(g_payload'), 1, Len(Received(g_payload))) = Received(g_payload)
      BY <1>2, <2>6, FollowingBytes DEF BufferChunk
    <3>2. g_payload.size \in 1..BufferSize /\ g_payload \in Payloads
          /\ g_payload.received <= g_payload.size
      BY <2>1, <2>6 DEF Inv, TypeOK, Payloads
    <3>3. AsTransfer(g_payload) # NoHandler
      BY <2>1, <2>6, <3>2, TransferTypes
    <3>4. Len(Received(g_payload)) \in Nat
      BY <3>2, ReceivedBytes DEF Payloads
    <3>5. Len(Received(g_payload')) \in
              (Len(Received(g_payload)) + 1)..(g_payload.size - 1)
      BY <2>1, <2>3, <2>6, <3>1, <3>2, <3>4 DEF Payloads
    <3>6. Promise!Extend
      BY <2>1, <2>2, <2>4, <2>6, <3>1, <3>3, <3>5 DEF Promise!Extend, AsTransfer
    <3> QED
      BY <3>6
  <2> QED
    BY <2>5, <2>6
<1>3. ASSUME NEW first \in BOOLEAN, NEW chunk \in Chunks, NEW handler \in Handlers,
             HandOver(first, chunk, handler)
      PROVE  Promise!Complete
  <2> DEFINE filled == Filled(g_payload, first, chunk, handler)
  <2>1. /\ filled \in Payloads
        /\ filled.handler = handler
        /\ filled.size \in 1..BufferSize
        /\ filled.received = filled.size
        /\ first => g_payload.handler = NoHandler
        /\ ~first => g_payload.handler = handler /\ filled.size = g_payload.size
    BY <1>3, FilledPayload DEF HandOver, IsComplete
  <2>2. handed' = [handler |-> handler, bytes |-> Content(filled)] /\ g_payload' = Wiped
    BY <1>3 DEF HandOver
  <2>3. CASE first
    <3> HIDE DEF filled
    <3>1. /\ Content(filled) = Received(filled)
          /\ Received(filled) \in Seq(Byte)
          /\ Len(Received(filled)) = filled.size
      BY <2>1, ContentBytes, ReceivedBytes DEF IsComplete, Payloads
    <3> QED
      BY <2>1, <2>2, <2>3, <3>1 DEF Promise!Complete, Wiped
  <2>4. CASE ~first
    <3>1. SubSeq(Received(filled), 1, Len(Received(g_payload))) = Received(g_payload)
      BY <1>3, <2>4, FollowingBytes DEF HandOver
    <3> HIDE DEF filled
    <3>2. /\ Content(filled) = Received(filled)
          /\ Received(filled) \in Seq(Byte)
          /\ Len(Received(filled)) = filled.size
      BY <2>1, ContentBytes, ReceivedBytes DEF IsComplete, Payloads
    <3>3. handler # NoHandler
      BY Constants
    <3> QED
      BY <2>1, <2>2, <2>4, <3>1, <3>2, <3>3 DEF Promise!Complete, Wiped
  <2> QED
    BY <2>3, <2>4
<1>4. CASE UNCHANGED vars
  BY <1>4 DEF vars, Promise!vars
<1> QED
  BY <1>1, <1>2, <1>3, <1>4
     DEF Next, ProcessChunkedPayload, RefuseChunk, Exit, Promise!Next

(* A handler only ever gets the bytes of one transfer, all of them and in  *)
(* order, every chunk of which was sent to that handler                    *)
(* (chunked_payload.c:17-85).                                              *)
THEOREM BufferRefines == Spec => ImplementsReassembly
<1>1. Init => Promise!Init
  BY DEF Init, Wiped, Promise!Init
<1> QED
  BY <1>1, StepRefines, InvAlways, PTL DEF Spec, ImplementsReassembly, Promise!Spec
=============================================================================
