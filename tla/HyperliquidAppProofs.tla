------------------------ MODULE HyperliquidAppProofs ------------------------
(***************************************************************************)
(* Proofs about the application as a whole: the commands of the host       *)
(* interleave with the chunks of a transfer as they like, for every set of *)
(* commands, payloads and chunks.                                          *)
(***************************************************************************)
EXTENDS HyperliquidApp, TLAPS

Contexts == [metadata : Metadata \cup {NoMetadata}, actions : Seq(Actions), index : Nat]

-----------------------------------------------------------------------------
(* What a command does to the session *)

(* The parsers return one of the payloads the bytes may stand for, or      *)
(* reject them (action_metadata.c:190-246, action.c:236-264).              *)
LEMMA DecodedPayload ==
    ASSUME NEW payloads, NEW bytes
    PROVE  Decode(payloads, bytes) \in payloads \cup {Malformed}
<1> DEFINE whole == {payload \in payloads :
                        bytes = [n \in 1..Parts(payload) |-> <<payload, n>>]}
<1>1. whole # {} => (CHOOSE payload \in whole : TRUE) \in whole
  OBVIOUS
<1> QED
  BY <1>1 DEF Decode

(* A signature ends the session or moves it to its next action, and a      *)
(* failure leaves it alone (sign_action.c:20-60).                          *)
LEMMA SigningContext ==
    ASSUME Session!ReleaseSignature \/ Session!FailToSign
    PROVE  ctx' \in {ctx, Session!EmptyCtx, Session!CtxSwitchToNextAction(ctx)}
BY DEF Session!ReleaseSignature, Session!FailToSign

(* SIGN_ACTION and the answer to a review load nothing.                    *)
LEMMA SignActionContext ==
    ASSUME NEW cmd \in Commands, SignAction(cmd)
    PROVE  ctx' \in {ctx, Session!EmptyCtx, Session!CtxSwitchToNextAction(ctx)}
<1>1. CASE Session!RefusePath
  BY <1>1 DEF Session!RefusePath
<1>2. CASE Session!SignAction(cmd.data)
  BY <1>2, SigningContext
     DEF Session!SignAction, Session!OpenReview, Session!RefuseReview,
         Session!SignNextAction, Session!RefuseOtherPath
<1> QED
  BY <1>1, <1>2 DEF SignAction

LEMMA UserChoiceContext ==
    ASSUME UserChoice
    PROVE  ctx' \in {ctx, Session!EmptyCtx, Session!CtxSwitchToNextAction(ctx)}
BY SigningContext
   DEF UserChoice, Session!UserChoice, Session!Confirm, Session!Reject, Session!DismissStatus

(* A completed metadata payload empties the queue or leaves it alone.      *)
LEMMA MetadataContext ==
    ASSUME NEW payload \in Metadata \cup {Malformed}, Session!ProvideActionMetadata(payload)
    PROVE  \/ ctx' \in {ctx, Session!EmptyCtx}
           \/ /\ payload \in Metadata
              /\ ctx' = Session!CtxSaveActionMetadata(Session!EmptyCtx, payload)
BY DEF Session!ProvideActionMetadata, Session!RefuseMetadata, Session!InterruptSession,
       Session!LoadMetadata

(* A completed action joins the queue of a session that has metadata       *)
(* (action.c:236-264).                                                     *)
LEMMA ActionContext ==
    ASSUME NEW payload \in Actions \cup {Malformed}, Session!SetAction(payload)
    PROVE  \/ ctx' = ctx
           \/ /\ payload \in Actions
              /\ ctx.metadata # NoMetadata
              /\ ctx' = Session!CtxPushAction(ctx, payload)
BY DEF Session!SetAction, Session!StoreAction, Session!RefuseAction, Session!ParsesAction,
       Session!AcceptsAction

-----------------------------------------------------------------------------
(* The commands that complete no payload leave the context alone or end    *)
(* the session; two of the handlers change more.                           *)
LEMMA StepContext ==
    ASSUME Next
    PROVE  \/ /\ KeepTransfer
              /\ ctx' \in {ctx, Session!EmptyCtx, Session!CtxSwitchToNextAction(ctx)}
           \/ /\ \E first, chunk : \E handler \in Handlers :
                     Transfer!BufferChunk(first, chunk, handler)
              /\ UNCHANGED <<ctx, stale>>
           \/ /\ \E first, chunk : Transfer!HandOver(first, chunk, "parse_action")
              /\ \E payload \in Actions \cup {Malformed} : Session!SetAction(payload)
              /\ ~stale'
           \/ /\ ~stale'
              /\ g_payload' = Transfer!Wiped
              /\ \/ ctx' \in {ctx, Session!EmptyCtx}
                 \/ \E metadata \in Metadata :
                        ctx' = Session!CtxSaveActionMetadata(Session!EmptyCtx, metadata)
<1>1. CASE RefuseWhileReviewing
  BY <1>1 DEF RefuseWhileReviewing, Session!RefuseWhileReviewing
<1>2. CASE UserChoice
  BY <1>2, UserChoiceContext DEF UserChoice
<1>3. CASE Exit
  BY <1>3 DEF Exit, Session!Exit, Transfer!Exit
<1>4. ASSUME NEW cmd \in Commands, RefuseCommand(cmd) \/ GetAddress(cmd)
      PROVE  KeepTransfer /\ ctx' = ctx
  BY <1>4 DEF RefuseCommand, GetAddress, Session!RefuseCommand, Session!GetAddress
<1>5. ASSUME NEW cmd \in Commands, SignAction(cmd)
      PROVE  /\ KeepTransfer
             /\ ctx' \in {ctx, Session!EmptyCtx, Session!CtxSwitchToNextAction(ctx)}
  <2>1. KeepTransfer
    BY <1>5 DEF SignAction
  <2> QED
    BY <1>5, <2>1, SignActionContext
<1>6. ASSUME NEW first, NEW chunk, NEW handler, RefuseChunk(first, chunk, handler)
      PROVE  ~stale' /\ g_payload' = Transfer!Wiped /\ ctx' = ctx
  BY <1>6 DEF RefuseChunk, Transfer!RefuseChunk, Session!RefuseMetadata
<1>7. ASSUME NEW first, NEW chunk, NEW handler \in Handlers, BufferChunk(first, chunk, handler)
      PROVE  Transfer!BufferChunk(first, chunk, handler) /\ UNCHANGED <<ctx, stale>>
  BY <1>7 DEF BufferChunk, Session!AcknowledgeChunk
<1>8. ASSUME NEW first, NEW chunk, CompleteMetadata(first, chunk)
      PROVE  /\ ~stale'
             /\ g_payload' = Transfer!Wiped
             /\ \/ ctx' \in {ctx, Session!EmptyCtx}
                \/ \E metadata \in Metadata :
                       ctx' = Session!CtxSaveActionMetadata(Session!EmptyCtx, metadata)
  <2> DEFINE payload == Decode(Metadata, handed'.bytes)
  <2>1. /\ Session!ProvideActionMetadata(payload)
        /\ ~stale'
        /\ g_payload' = Transfer!Wiped
    BY <1>8 DEF CompleteMetadata, Transfer!HandOver
  <2>2. payload \in Metadata \cup {Malformed}
    BY DecodedPayload
  <2> HIDE DEF payload
  <2> QED
    BY <2>1, <2>2, MetadataContext
<1>9. ASSUME NEW first, NEW chunk, CompleteAction(first, chunk)
      PROVE  /\ Transfer!HandOver(first, chunk, "parse_action")
             /\ \E payload \in Actions \cup {Malformed} : Session!SetAction(payload)
             /\ ~stale'
  BY <1>9, DecodedPayload DEF CompleteAction
<1>10. ASSUME NEW cmd \in Commands, TransferChunk(cmd)
       PROVE  \E first, chunk :
                  \/ \E handler \in Handlers : RefuseChunk(first, chunk, handler)
                  \/ \E handler \in Handlers : BufferChunk(first, chunk, handler)
                  \/ CompleteMetadata(first, chunk)
                  \/ CompleteAction(first, chunk)
  BY <1>10 DEF TransferChunk, Handlers
<1> QED
  BY <1>1, <1>2, <1>3, <1>4, <1>5, <1>6, <1>7, <1>8, <1>9, <1>10 DEF Next, ReceiveCommand

-----------------------------------------------------------------------------
(* Stale transfers.  A transfer outlives the session it began in only as   *)
(* long as no other session begins: the end of a session leaves no         *)
(* metadata, and the chunks of new metadata give up the transfer.          *)
StaleInv ==
    /\ ctx \in Contexts
    /\ "handler" \in DOMAIN g_payload
    /\ stale => /\ g_payload.handler # NoHandler
                /\ ctx.metadata = NoMetadata

LEMMA StaleInit == Init => StaleInv
<1> SUFFICES ASSUME Init PROVE StaleInv
  OBVIOUS
<1>1. ctx = Session!EmptyCtx /\ g_payload = Transfer!Wiped /\ ~stale
  BY DEF Init, Session!Init, Transfer!Init
<1>2. ctx \in Contexts
  BY <1>1 DEF Session!EmptyCtx, Contexts
<1>3. "handler" \in DOMAIN g_payload
  BY <1>1 DEF Transfer!Wiped
<1> QED
  BY <1>1, <1>2, <1>3 DEF StaleInv

(* The contexts a step leads to *)
LEMMA ContextTypes ==
    ASSUME ctx \in Contexts
    PROVE  /\ Session!EmptyCtx \in Contexts
           /\ Session!EmptyCtx.metadata = NoMetadata
           /\ Len(Session!EmptyCtx.actions) = 0
           /\ Session!CtxSwitchToNextAction(ctx) \in Contexts
           /\ Session!CtxSwitchToNextAction(ctx).metadata = ctx.metadata
           /\ Session!CtxSwitchToNextAction(ctx).actions = ctx.actions
           /\ \A metadata \in Metadata :
                  LET loaded == Session!CtxSaveActionMetadata(Session!EmptyCtx, metadata)
                  IN  loaded \in Contexts /\ Len(loaded.actions) = 0
           /\ \A action \in Actions : Session!CtxPushAction(ctx, action) \in Contexts
<1>1. /\ Session!EmptyCtx \in Contexts
      /\ Session!EmptyCtx.metadata = NoMetadata
      /\ Len(Session!EmptyCtx.actions) = 0
  BY DEF Contexts, Session!EmptyCtx
<1>2. /\ Session!CtxSwitchToNextAction(ctx) \in Contexts
      /\ Session!CtxSwitchToNextAction(ctx).metadata = ctx.metadata
      /\ Session!CtxSwitchToNextAction(ctx).actions = ctx.actions
  BY DEF Contexts, Session!CtxSwitchToNextAction
<1>3. ASSUME NEW metadata \in Metadata
      PROVE  LET loaded == Session!CtxSaveActionMetadata(Session!EmptyCtx, metadata)
             IN  loaded \in Contexts /\ Len(loaded.actions) = 0
  <2> DEFINE loaded == Session!CtxSaveActionMetadata(Session!EmptyCtx, metadata)
  <2>1. loaded = [metadata |-> metadata, actions |-> <<>>, index |-> 0]
    BY DEF Session!CtxSaveActionMetadata, Session!EmptyCtx
  <2> QED
    BY <2>1 DEF Contexts
<1>4. ASSUME NEW action \in Actions PROVE Session!CtxPushAction(ctx, action) \in Contexts
  <2>1. Append(ctx.actions, action) \in Seq(Actions)
    BY DEF Contexts
  <2> QED
    BY <2>1 DEF Contexts, Session!CtxPushAction
<1> QED
  BY <1>1, <1>2, <1>3, <1>4

(* A chunk that goes on with a transfer keeps its handler, and no chunk    *)
(* opens one while another is under way (chunked_payload.c:28-56).         *)
LEMMA TransferGoesOn ==
    ASSUME StaleInv, NEW first, NEW chunk, NEW handler, Transfer!BufferChunk(first, chunk, handler)
    PROVE  /\ "handler" \in DOMAIN g_payload'
           /\ stale => g_payload'.handler = g_payload.handler
<1>1. /\ Transfer!Accepts(g_payload, first, chunk, handler)
      /\ g_payload' = Transfer!Copied(Transfer!Opened(g_payload, first, chunk, handler),
                                      chunk.data)
  BY DEF Transfer!BufferChunk, Transfer!Filled
<1>2. "handler" \in DOMAIN Transfer!Opened(g_payload, first, chunk, handler)
  BY DEF Transfer!Opened, StaleInv
<1>3. /\ "handler" \in DOMAIN g_payload'
      /\ g_payload'.handler = Transfer!Opened(g_payload, first, chunk, handler).handler
  BY <1>1, <1>2 DEF Transfer!Copied
<1>4. ASSUME stale PROVE ~first
  BY <1>1, <1>4 DEF StaleInv, Transfer!Accepts, Transfer!AcceptsFirst
<1>5. ~first => Transfer!Opened(g_payload, first, chunk, handler) = g_payload
  BY DEF Transfer!Opened
<1> QED
  BY <1>3, <1>4, <1>5

LEMMA StaleStep == StaleInv /\ [Next]_vars => StaleInv'
<1> SUFFICES ASSUME StaleInv, [Next]_vars PROVE StaleInv'
  OBVIOUS
<1>0. ctx \in Contexts
  BY DEF StaleInv
<1>1. CASE UNCHANGED vars
  BY <1>1 DEF vars, session, StaleInv
<1>2. CASE /\ KeepTransfer
           /\ ctx' \in {ctx, Session!EmptyCtx, Session!CtxSwitchToNextAction(ctx)}
  <2>1. /\ ctx' \in Contexts
        /\ ctx'.metadata \in {ctx.metadata, NoMetadata}
    BY <1>0, <1>2, ContextTypes
  <2>2. ASSUME SessionChanges PROVE ctx'.metadata = NoMetadata
    <3>1. CASE ctx' = Session!EmptyCtx
      BY <1>0, <3>1, ContextTypes
    <3>2. CASE ctx' # Session!EmptyCtx
      <4>1. ctx'.metadata = ctx.metadata /\ ctx'.actions = ctx.actions
        BY <1>0, <1>2, <3>2, ContextTypes
      <4>2. Len(ctx.actions) \in Nat
        BY <1>0 DEF Contexts
      <4> QED
        BY <2>2, <4>1, <4>2 DEF SessionChanges
    <3> QED
      BY <3>1, <3>2
  <2>3. /\ g_payload' = g_payload
        /\ stale' => stale \/ (g_payload.handler # NoHandler /\ SessionChanges)
    BY <1>2 DEF KeepTransfer
  <2> QED
    BY <2>1, <2>2, <2>3 DEF StaleInv
<1>3. ASSUME NEW first, NEW chunk, NEW handler, Transfer!BufferChunk(first, chunk, handler),
             UNCHANGED <<ctx, stale>>
      PROVE  StaleInv'
  BY <1>3, TransferGoesOn DEF StaleInv
<1>4. ASSUME NEW first, NEW chunk, Transfer!HandOver(first, chunk, "parse_action"),
             NEW payload \in Actions \cup {Malformed}, Session!SetAction(payload), ~stale'
      PROVE  StaleInv'
  <2>1. ctx' \in Contexts
    BY <1>0, <1>4, ActionContext, ContextTypes
  <2>2. "handler" \in DOMAIN g_payload'
    BY <1>4 DEF Transfer!HandOver, Transfer!Wiped
  <2> QED
    BY <1>4, <2>1, <2>2 DEF StaleInv
<1>5. ASSUME ~stale', g_payload' = Transfer!Wiped, ctx' \in Contexts PROVE StaleInv'
  BY <1>5 DEF StaleInv, Transfer!Wiped
<1>6. ASSUME \/ ctx' \in {ctx, Session!EmptyCtx}
             \/ \E metadata \in Metadata :
                    ctx' = Session!CtxSaveActionMetadata(Session!EmptyCtx, metadata)
      PROVE  ctx' \in Contexts
  BY <1>0, <1>6, ContextTypes
<1> QED
  BY <1>1, <1>2, <1>3, <1>4, <1>5, <1>6, StepContext

LEMMA StaleAlways == Spec => []StaleInv
BY StaleInit, StaleStep, PTL DEF Spec

(* An action whose chunks were spread over two sessions is never queued,   *)
(* whatever the host sent and the user answered between its chunks         *)
(* (chunked_payload.c:28-56, action.c:236-264, action_metadata.c:236-246). *)
THEOREM NoActionCrossesSessions == Spec => QueuedInItsSession
<1> DEFINE A == Len(ctx'.actions) > Len(ctx.actions) => ~stale
<1>1. StaleInv /\ [Next]_vars => [A]_vars
  <2> SUFFICES ASSUME StaleInv, Next, Len(ctx'.actions) > Len(ctx.actions), stale
               PROVE  FALSE
    OBVIOUS
  <2>1. /\ ctx \in Contexts
        /\ Len(ctx.actions) \in Nat
        /\ ctx.metadata = NoMetadata
        /\ g_payload.handler # NoHandler
    BY DEF StaleInv, Contexts
  <2>2. ctx' \notin {ctx, Session!EmptyCtx, Session!CtxSwitchToNextAction(ctx)}
    BY <2>1, ContextTypes
  <2>3. \A metadata \in Metadata :
            ctx' # Session!CtxSaveActionMetadata(Session!EmptyCtx, metadata)
    BY <2>1, ContextTypes
  <2>4. \E payload \in Actions \cup {Malformed} : Session!SetAction(payload)
    BY <2>2, <2>3, StepContext
  <2> QED
    BY <2>1, <2>2, <2>4, ActionContext
<1> QED
  BY <1>1, StaleAlways, PTL DEF Spec, QueuedInItsSession

-----------------------------------------------------------------------------
(* Seen from the session: every command is one of its commands, a chunk    *)
(* that completes nothing is an acknowledgement or a refusal.              *)

LEMMA CommandRefines ==
    ASSUME ReceiveCommand PROVE Session!HostCommand
<1>1. CASE RefuseWhileReviewing
  BY <1>1 DEF RefuseWhileReviewing, Session!HostCommand
<1>2. ASSUME NEW cmd \in Commands, RefuseCommand(cmd) PROVE Session!HostCommand
  BY <1>2 DEF RefuseCommand, Session!HostCommand
<1>3. ASSUME NEW cmd \in Commands, GetAddress(cmd) PROVE Session!HostCommand
  BY <1>3 DEF GetAddress, Session!HostCommand
<1>4. ASSUME NEW cmd \in Commands, SignAction(cmd) PROVE Session!HostCommand
  <2>1. Dispatched(cmd) /\ cmd.ins = "SIGN_ACTION"
    BY <1>4 DEF SignAction
  <2>2. cmd.data \in Paths \cup {BadPath}
    BY <2>1, CommandsAssumption DEF CommandsAssumption
  <2>3. CASE cmd.data = BadPath
    BY <1>4, <2>3 DEF SignAction, Session!HostCommand
  <2>4. CASE cmd.data # BadPath
    BY <1>4, <2>2, <2>4 DEF SignAction, Session!HostCommand
  <2> QED
    BY <2>3, <2>4
<1>5. ASSUME NEW cmd \in Commands, TransferChunk(cmd) PROVE Session!HostCommand
  <2>1. ASSUME NEW first, NEW chunk, NEW handler, RefuseChunk(first, chunk, handler)
        PROVE  Session!HostCommand
    <3>1. Session!ProvideActionMetadata(Malformed)
      BY <2>1 DEF RefuseChunk, Session!ProvideActionMetadata
    <3> QED
      BY <3>1 DEF Session!HostCommand
  <2>2. ASSUME NEW first, NEW chunk, NEW handler, BufferChunk(first, chunk, handler)
        PROVE  Session!HostCommand
    BY <2>2 DEF BufferChunk, Session!HostCommand
  <2>3. ASSUME NEW first, NEW chunk, CompleteMetadata(first, chunk)
        PROVE  Session!HostCommand
    BY <2>3, DecodedPayload DEF CompleteMetadata, Session!HostCommand
  <2>4. ASSUME NEW first, NEW chunk, CompleteAction(first, chunk)
        PROVE  Session!HostCommand
    BY <2>4, DecodedPayload DEF CompleteAction, Session!HostCommand
  <2> QED
    BY <1>5, <2>1, <2>2, <2>3, <2>4 DEF TransferChunk
<1> QED
  BY <1>1, <1>2, <1>3, <1>4, <1>5 DEF ReceiveCommand

(* The chunks of transfers, and the commands between them, add no          *)
(* behaviour to the session: what is proved of SigningSession holds of the *)
(* application (handler/provide_action_metadata.c, handler/set_action.c,   *)
(* apdu/dispatcher.c).                                                     *)
THEOREM AppRefines == Spec => ImplementsSession
<1>1. Init => Session!Init
  BY DEF Init
<1>2. [Next]_vars => [Session!Next]_(Session!vars)
  <2> SUFFICES ASSUME [Next]_vars PROVE [Session!Next]_(Session!vars)
    OBVIOUS
  <2>1. CASE ReceiveCommand
    BY <2>1, CommandRefines DEF Session!Next
  <2>2. CASE UserChoice
    BY <2>2 DEF UserChoice, Session!Next
  <2>3. CASE Exit
    BY <2>3 DEF Exit, Session!Next
  <2>4. CASE UNCHANGED vars
    BY <2>4 DEF vars, session, Session!vars
  <2> QED
    BY <2>1, <2>2, <2>3, <2>4 DEF Next
<1> QED
  BY <1>1, <1>2, PTL DEF Spec, ImplementsSession, Session!Spec
=============================================================================
