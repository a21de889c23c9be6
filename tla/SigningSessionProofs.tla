------------------------ MODULE SigningSessionProofs ------------------------
(***************************************************************************)
(* Proofs about SigningSession, for every set of metadata, actions and     *)
(* paths and every MAX_ACTION_COUNT a uint8_t can count.                   *)
(***************************************************************************)
EXTENDS SigningSession, TLAPS

Contexts == [metadata : Metadata \cup {NoMetadata}, actions : Seq(Actions), index : Nat]

Wallets == {DeriveAddr(path) : path \in Paths} \cup {NoWallet}

(* An empty context is a context, and so is one that got metadata, got an  *)
(* action or moved to its next action (hl_context.c).                      *)
LEMMA ContextTypes ==
    /\ EmptyCtx \in Contexts
    /\ \A m \in Metadata : CtxSaveActionMetadata(EmptyCtx, m) \in Contexts
    /\ \A c \in Contexts : \A a \in Actions : CtxPushAction(c, a) \in Contexts
    /\ \A c \in Contexts : CtxSwitchToNextAction(c) \in Contexts
<1>1. EmptyCtx \in Contexts
  BY DEF Contexts, EmptyCtx
<1>2. ASSUME NEW m \in Metadata PROVE CtxSaveActionMetadata(EmptyCtx, m) \in Contexts
  BY <1>1 DEF Contexts, CtxSaveActionMetadata
<1>3. ASSUME NEW c \in Contexts, NEW a \in Actions PROVE CtxPushAction(c, a) \in Contexts
  <2>1. Append(c.actions, a) \in Seq(Actions)
    BY DEF Contexts
  <2> QED
    BY <2>1 DEF Contexts, CtxPushAction
<1>4. ASSUME NEW c \in Contexts PROVE CtxSwitchToNextAction(c) \in Contexts
  BY DEF Contexts, CtxSwitchToNextAction
<1> QED
  BY <1>1, <1>2, <1>3, <1>4

(* The bound of the queue, as a number *)
LEMMA Bound == MaxActionCount \in Nat /\ 1 <= MaxActionCount /\ MaxActionCount <= 255
BY MaxActionCountAssumption DEF MaxActionCountAssumption

(* The next action is found before the end of the queue, and moving to it  *)
(* keeps the index in the queue (hl_context.c:50-59).                      *)
LEMMA CurrentAction ==
    ASSUME NEW c \in Contexts, CtxHasCurrentAction(c)
    PROVE  /\ CtxCurrentAction(c) \in Actions
           /\ CtxCurrentAction(c) = c.actions[c.index + 1]
           /\ c.index + 1 \in DOMAIN c.actions
           /\ CtxSwitchToNextAction(c).index = c.index + 1
           /\ CtxSwitchToNextAction(c).actions = c.actions
           /\ CtxSwitchToNextAction(c).metadata = c.metadata
BY DEF Contexts, CtxHasCurrentAction, CtxCurrentAction, CtxSwitchToNextAction

(* What is left never wraps around: the queue fits a uint8_t and the index *)
(* stays in it (hl_context.c:74-76).                                       *)
LEMMA RemainingActions ==
    ASSUME NEW c \in Contexts, Len(c.actions) <= MaxActionCount, c.index <= Len(c.actions)
    PROVE  CtxRemainingActions(c) = Len(c.actions) - c.index
<1>1. Len(c.actions) \in Nat /\ c.index \in Nat
  BY DEF Contexts
<1>2. \A n, i \in Nat : n <= 255 /\ i <= n => (n - i) % 256 = n - i
  OBVIOUS
<1>3. Len(c.actions) <= 255
  BY <1>1, Bound
<1> QED
  BY <1>1, <1>2, <1>3 DEF CtxRemainingActions

-----------------------------------------------------------------------------
(* Types, and the bounds of the queue and of its index *)

LEMMA TypeInit == Init => TypeOK
BY ContextTypes, Bound
   DEF Init, TypeOK, EmptyCtx, Contexts

(* A signature moves the session to its next action or ends it. *)
LEMMA ReleaseTypes ==
    ASSUME TypeOK, ReleaseSignature
    PROVE  /\ ctx' \in Contexts
           /\ Len(ctx'.actions) <= MaxActionCount
           /\ ctx'.index <= Len(ctx'.actions)
<1>1. ctx \in Contexts /\ CtxHasCurrentAction(ctx)
  BY DEF TypeOK, Contexts, ReleaseSignature, Signable
<1>2. CASE ctx' = EmptyCtx
  BY <1>2, ContextTypes, Bound DEF EmptyCtx
<1>3. CASE ctx' = CtxSwitchToNextAction(ctx)
  <2>1. ctx' \in Contexts
    BY <1>1, <1>3, ContextTypes
  <2>2. ctx'.index = ctx.index + 1 /\ ctx'.actions = ctx.actions
    BY <1>1, <1>3, CurrentAction
  <2>3. ctx.index + 1 <= Len(ctx.actions)
    BY <1>1 DEF Contexts, CtxHasCurrentAction
  <2> QED
    BY <2>1, <2>2, <2>3 DEF TypeOK
<1> QED
  BY <1>2, <1>3 DEF ReleaseSignature

LEMMA TypeStep == TypeOK /\ [Next]_vars => TypeOK'
<1> SUFFICES ASSUME TypeOK, [Next]_vars PROVE TypeOK'
  OBVIOUS
<1> USE DEF TypeOK
<1>1. CASE GetAddress \/ RefuseCommand \/ RefuseWhileReviewing \/ AcknowledgeChunk
           \/ RefuseMetadata \/ RefuseAction \/ RefusePath \/ UNCHANGED vars
  BY <1>1 DEF GetAddress, RefuseCommand, RefuseWhileReviewing, AcknowledgeChunk,
              RefuseMetadata, RefuseAction, RefusePath, vars
<1>2. CASE InterruptSession
  BY <1>2, ContextTypes, Bound
     DEF InterruptSession, Contexts, EmptyCtx
<1>3. ASSUME NEW metadata \in Metadata, LoadMetadata(metadata) PROVE TypeOK'
  BY <1>3, ContextTypes, Bound
     DEF LoadMetadata, Contexts, EmptyCtx, CtxSaveActionMetadata
<1>4. ASSUME NEW action \in Actions, StoreAction(action) PROVE TypeOK'
  <2>1. ctx' = CtxPushAction(ctx, action) /\ CtxCanPush(ctx, action)
    BY <1>4 DEF StoreAction, ParsesAction, AcceptsAction
  <2>2. Len(ctx'.actions) = Len(ctx.actions) + 1 /\ ctx'.index = ctx.index
    BY <2>1 DEF CtxPushAction
  <2>3. ctx' \in Contexts
    BY <2>1, ContextTypes DEF Contexts
  <2>4. Len(ctx'.actions) <= MaxActionCount /\ ctx'.index <= Len(ctx'.actions)
    BY <2>1, <2>2, Bound DEF CtxCanPush
  <2> QED
    BY <1>4, <2>3, <2>4 DEF StoreAction, Contexts
<1>5. ASSUME NEW path \in Paths, OpenReview(path) \/ RefuseReview(path) PROVE TypeOK'
  <2>1. /\ signing_ctx'.path = path
        /\ signing_ctx'.wallet \in {DeriveAddr(path), NoWallet}
    BY <1>5 DEF OpenReview, RefuseReview
  <2>2. /\ ctx' = ctx
        /\ comm_enabled' \in BOOLEAN
        /\ display' \in {"menu", "review", "message_signed"}
    BY <1>5 DEF OpenReview, RefuseReview
  <2> QED
    BY <2>1, <2>2
<1>6. ASSUME NEW path \in Paths, SignNextAction(path) \/ RefuseOtherPath(path) PROVE TypeOK'
  <2>1. CASE SignNextAction(path) /\ ReleaseSignature
    BY <2>1, ReleaseTypes DEF SignNextAction, Contexts
  <2>2. CASE SignNextAction(path) /\ FailToSign
    BY <2>2 DEF SignNextAction, FailToSign
  <2>3. CASE RefuseOtherPath(path)
    BY <2>3 DEF RefuseOtherPath
  <2> QED
    BY <1>6, <2>1, <2>2, <2>3 DEF SignNextAction
<1>7. CASE Confirm
  <2>1. CASE ReleaseSignature /\ display' = "message_signed"
    BY <1>7, <2>1, ReleaseTypes DEF Confirm, Contexts
  <2>2. CASE FailToSign /\ display' = "message_signed"
    BY <1>7, <2>2 DEF Confirm, FailToSign
  <2>3. CASE ctx' = EmptyCtx /\ display' = "menu"
    BY <1>7, <2>3, ContextTypes, Bound DEF Confirm, Contexts, EmptyCtx
  <2> QED
    BY <1>7, <2>1, <2>2, <2>3 DEF Confirm
<1>8. CASE Reject \/ DismissStatus \/ Exit
  <2>1. CASE Reject
    BY <2>1, ContextTypes, Bound DEF Reject, Contexts, EmptyCtx
  <2>2. CASE DismissStatus
    BY <2>2 DEF DismissStatus
  <2>3. CASE Exit
    BY <2>3, ContextTypes, Bound DEF Exit, Contexts, EmptyCtx
  <2> QED
    BY <1>8, <2>1, <2>2, <2>3
<1> QED
  BY <1>1, <1>2, <1>3, <1>4, <1>5, <1>6, <1>7, <1>8
     DEF Next, HostCommand, UserChoice, ProvideActionMetadata, SetAction, SignAction,
         StoreAction, ParsesAction

(* The queued actions fit g_ctx, the index stays in the queue and the      *)
(* state is well typed in every run of the session (hl_context.c:10-12,    *)
(* 31-59).                                                                 *)
THEOREM TypeCorrect == Spec => []TypeOK
BY TypeInit, TypeStep, PTL DEF Spec

-----------------------------------------------------------------------------
(* The queue.  Together with the types, that the queued actions suit the   *)
(* operation is inductive: an empty queue suits every operation.           *)

LEMMA EmptyQueueFits ==
    ASSUME ctx'.actions = <<>> PROVE StoredActionsFitOperation'
BY DEF StoredActionsFitOperation

LEMMA SameQueueFits ==
    ASSUME StoredActionsFitOperation, ctx'.actions = ctx.actions, ctx'.metadata = ctx.metadata
    PROVE  StoredActionsFitOperation'
BY DEF StoredActionsFitOperation

(* An action that parse_action lets through suits the operation and those  *)
(* that were queued before it (action.c:202-264, hl_context.c:31-48).      *)
LEMMA StoredActionFits ==
    ASSUME TypeOK, StoredActionsFitOperation, NEW action \in Actions, StoreAction(action)
    PROVE  StoredActionsFitOperation'
<1> DEFINE n == Len(ctx.actions)
<1>1. /\ ctx.actions \in Seq(Actions)
      /\ n \in Nat
  BY DEF TypeOK
<1>2. /\ ctx'.actions = Append(ctx.actions, action)
      /\ ctx'.metadata = ctx.metadata
      /\ ctx.metadata # NoMetadata
      /\ ParseBody(action, ctx.metadata)
      /\ IsActionCompatible(ctx.actions, action.type, ctx.metadata.op_type)
      /\ ~CtxHasAction(ctx.actions, action.type)
  BY DEF TypeOK, StoreAction, ParsesAction, AcceptsAction, CtxCanPush, CtxPushAction
<1>3. /\ Len(ctx'.actions) = n + 1
      /\ \A i \in 1..n : ctx'.actions[i] = ctx.actions[i]
      /\ ctx'.actions[n + 1] = action
      /\ DOMAIN ctx.actions = 1..n
      /\ DOMAIN ctx'.actions = 1..(n + 1)
  BY <1>1, <1>2
<1>4. action.type \in TypesOf(ctx.metadata.op_type)
  BY <1>2 DEF IsActionCompatible
<1>5. \A i \in 1..n : ctx.actions[i].type # action.type
  BY <1>2, <1>3 DEF CtxHasAction
<1>6. ctx.metadata.op_type = "MODIFY" => n = 0
  <2> SUFFICES ASSUME ctx.metadata.op_type = "MODIFY", n # 0 PROVE FALSE
    OBVIOUS
  <2>1. 1 \in DOMAIN ctx.actions
    BY <1>1, <1>3
  <2>2. ctx.actions[1].type \in {"BULK_MODIFY", "BULK_ORDER"}
    BY <2>1 DEF StoredActionsFitOperation, TypesOf
  <2> QED
    BY <1>2, <2>1, <2>2 DEF IsActionCompatible, CtxHasAction
<1> HIDE DEF n
<1> SUFFICES ASSUME NEW i \in 1..(n + 1)
             PROVE  /\ ctx'.actions[i].type \in TypesOf(ctx.metadata.op_type)
                    /\ ParseBody(ctx'.actions[i], ctx.metadata)
                    /\ \A j \in 1..(n + 1) :
                           ctx'.actions[j].type = ctx'.actions[i].type => i = j
  BY <1>2, <1>3, <1>6 DEF StoredActionsFitOperation
<1>7. CASE i = n + 1
  BY <1>1, <1>2, <1>3, <1>4, <1>5, <1>7 DEF n
<1>8. CASE i # n + 1
  <2>1. i \in 1..n
    BY <1>1, <1>8 DEF n
  <2>2. ctx'.actions[i] = ctx.actions[i] /\ i \in DOMAIN ctx.actions
    BY <1>3, <2>1
  <2>3. /\ ctx.actions[i].type \in TypesOf(ctx.metadata.op_type)
        /\ ParseBody(ctx.actions[i], ctx.metadata)
    BY <2>2 DEF StoredActionsFitOperation
  <2>4. \A j \in 1..n : ctx.actions[j].type = ctx.actions[i].type => i = j
    BY <1>3, <2>2 DEF StoredActionsFitOperation
  <2>5. ASSUME NEW j \in 1..(n + 1), ctx'.actions[j].type = ctx'.actions[i].type PROVE i = j
    <3>1. CASE j = n + 1
      BY <1>3, <1>5, <2>1, <2>2, <2>5, <3>1
    <3>2. CASE j # n + 1
      <4>1. j \in 1..n
        BY <1>1, <3>2 DEF n
      <4> QED
        BY <1>3, <2>2, <2>4, <2>5, <4>1
    <3> QED
      BY <3>1, <3>2
  <2> QED
    BY <2>2, <2>3, <2>5
<1> QED
  BY <1>7, <1>8

LEMMA QueueStep ==
    TypeOK /\ StoredActionsFitOperation /\ [Next]_vars => StoredActionsFitOperation'
<1> SUFFICES ASSUME TypeOK, StoredActionsFitOperation, [Next]_vars
             PROVE  StoredActionsFitOperation'
  OBVIOUS
<1>1. CASE UNCHANGED ctx
  BY <1>1, SameQueueFits
<1>2. CASE ctx' = EmptyCtx
  BY <1>2, EmptyQueueFits DEF EmptyCtx
<1>3. CASE ReleaseSignature
  <2>1. CASE ctx' = CtxSwitchToNextAction(ctx)
    BY <2>1, SameQueueFits DEF CtxSwitchToNextAction, TypeOK
  <2> QED
    BY <1>2, <1>3, <2>1 DEF ReleaseSignature
<1>4. ASSUME NEW metadata \in Metadata, LoadMetadata(metadata)
      PROVE  StoredActionsFitOperation'
  BY <1>4, EmptyQueueFits DEF LoadMetadata, CtxSaveActionMetadata, EmptyCtx
<1>5. ASSUME NEW action \in Actions, StoreAction(action) PROVE StoredActionsFitOperation'
  BY <1>5, StoredActionFits
<1>6. \/ UNCHANGED ctx
      \/ ctx' = EmptyCtx
      \/ ReleaseSignature
      \/ \E metadata \in Metadata : LoadMetadata(metadata)
      \/ \E action \in Actions : StoreAction(action)
  BY DEF Next, HostCommand, UserChoice, GetAddress, RefuseCommand, RefuseWhileReviewing,
         AcknowledgeChunk, ProvideActionMetadata, RefuseMetadata, InterruptSession,
         SetAction, StoreAction, ParsesAction, RefuseAction, RefusePath, SignAction, OpenReview,
         RefuseReview, SignNextAction, RefuseOtherPath, FailToSign, Confirm, Reject,
         DismissStatus, Exit, vars
<1> QED
  BY <1>1, <1>2, <1>3, <1>4, <1>5, <1>6

(* The queue only holds actions that suit the operation they will be       *)
(* reviewed and signed for (action.c:202-264, hl_context.c:31-48).         *)
THEOREM QueueSuitsOperation == Spec => []StoredActionsFitOperation
<1>1. Init => StoredActionsFitOperation
  BY DEF Init, EmptyCtx, StoredActionsFitOperation
<1> QED
  BY <1>1, QueueStep, TypeCorrect, PTL DEF Spec

-----------------------------------------------------------------------------
(* Consent.  The four properties about reviews and signatures are proved   *)
(* together: each of them is the hypothesis of a step of another.  What    *)
(* they lack to be inductive is that no signature was made since the       *)
(* review on screen was opened, and that a session in which signatures     *)
(* were made still uses the address of its path.                           *)

Signatures ==
    [path      : Paths \cup {NoPath},
     digest    : {ActionHash(a, m, w) : a \in Actions, m \in Metadata, w \in Wallets},
     remaining : Int]

SessionInv ==
    /\ released \in Seq(Signatures)
    /\ display = "review" => released = <<>>
    /\ ctx.index > 0 => signing_ctx.wallet = DeriveAddr(signing_ctx.path)

IInv ==
    /\ TypeOK
    /\ ReviewShowsContext
    /\ OpenSessionTracksReview
    /\ SignedAsReviewed
    /\ SessionInv

LEMMA InvInit == Init => IInv
<1> SUFFICES ASSUME Init PROVE IInv
  OBVIOUS
<1>1. TypeOK
  BY TypeInit
<1>2. ctx.index = 0 /\ released = <<>>
  BY DEF Init, EmptyCtx
<1>3. comm_enabled = TRUE /\ display = "menu"
  BY DEF Init
<1>4. ReviewShowsContext
  BY <1>3 DEF ReviewShowsContext
<1>5. OpenSessionTracksReview /\ SignedAsReviewed
  BY <1>2 DEF OpenSessionTracksReview, SignedAsReviewed
<1>6. SessionInv
  BY <1>2 DEF SessionInv
<1> QED
  BY <1>1, <1>4, <1>5, <1>6 DEF IInv

(* Either way a signature leaves it is the next one the reviewed batch     *)
(* calls for (sign_action.c:20-60).                                        *)
LEMMA ReleasedIsExpected ==
    ASSUME IInv, ReleaseSignature,
           display = "review" \/ ctx.index > 0
    PROVE  /\ reviewed = Snapshot
           /\ Len(released) = ctx.index
           /\ ctx.index + 1 \in DOMAIN reviewed.actions
           /\ CurrentSignature = ExpectedSignature(reviewed, ctx.index + 1)
           /\ CurrentSignature \in Signatures
<1> USE DEF IInv
<1>1. /\ ctx \in Contexts
      /\ CtxHasCurrentAction(ctx)
      /\ ctx.metadata \in Metadata
  BY DEF ReleaseSignature, Signable, TypeOK, Contexts
<1>2. /\ reviewed = Snapshot
      /\ Len(released) = ctx.index
      /\ signing_ctx.wallet = DeriveAddr(signing_ctx.path)
  <2>1. CASE display = "review"
    BY <2>1 DEF ReviewShowsContext, SessionInv
  <2>2. CASE ctx.index > 0
    BY <2>2 DEF OpenSessionTracksReview, SessionInv
  <2> QED
    BY <2>1, <2>2
<1>3. /\ reviewed.actions = ctx.actions
      /\ reviewed.metadata = ctx.metadata
      /\ reviewed.path = signing_ctx.path
  BY <1>2 DEF Snapshot
<1>4. /\ CtxCurrentAction(ctx) \in Actions
      /\ CtxCurrentAction(ctx) = reviewed.actions[ctx.index + 1]
      /\ ctx.index + 1 \in DOMAIN reviewed.actions
  BY <1>1, <1>3, CurrentAction
<1>5. CtxRemainingActions(CtxSwitchToNextAction(ctx)) = Len(reviewed.actions) - (ctx.index + 1)
  <2> DEFINE next == CtxSwitchToNextAction(ctx)
  <2>1. next.actions = ctx.actions /\ next.index = ctx.index + 1
    BY <1>1, CurrentAction
  <2>2. next \in Contexts
    BY <1>1, ContextTypes
  <2>3. Len(next.actions) <= MaxActionCount /\ next.index <= Len(next.actions)
    BY <1>1, <2>1 DEF TypeOK, Contexts, CtxHasCurrentAction
  <2> HIDE DEF next
  <2>4. CtxRemainingActions(next) = Len(next.actions) - next.index
    BY <2>2, <2>3, RemainingActions
  <2> QED
    BY <2>1, <2>4, <1>3 DEF next
<1>6. CurrentSignature = ExpectedSignature(reviewed, ctx.index + 1)
  BY <1>2, <1>3, <1>4, <1>5 DEF CurrentSignature, ExpectedSignature
<1>7. CurrentSignature \in Signatures
  <2>1. signing_ctx.wallet \in Wallets /\ signing_ctx.path \in Paths \cup {NoPath}
    BY DEF TypeOK, Wallets
  <2>2. Len(reviewed.actions) - (ctx.index + 1) \in Int
    BY <1>1, <1>3 DEF Contexts
  <2> QED
    BY <1>1, <1>4, <1>5, <2>1, <2>2 DEF CurrentSignature, Signatures
<1> QED
  BY <1>2, <1>4, <1>6, <1>7

(* What follows from a release for the record of signatures *)
LEMMA ReleasePreserves ==
    ASSUME IInv, ReleaseSignature, TypeOK',
           display = "review" \/ ctx.index > 0,
           UNCHANGED <<signing_ctx, reviewed>>,
           display' # "review"
    PROVE  OpenSessionTracksReview' /\ SignedAsReviewed' /\ SessionInv'
<1> DEFINE sig == CurrentSignature
<1>1. /\ reviewed = Snapshot
      /\ Len(released) = ctx.index
      /\ ctx.index + 1 \in DOMAIN reviewed.actions
      /\ sig = ExpectedSignature(reviewed, ctx.index + 1)
      /\ sig \in Signatures
  BY ReleasedIsExpected
<1>2. released' = Append(released, sig) /\ released \in Seq(Signatures)
  BY DEF ReleaseSignature, IInv, SessionInv
<1> HIDE DEF sig
<1>3. /\ released' \in Seq(Signatures)
      /\ Len(released') = ctx.index + 1
      /\ \A k \in 1..Len(released) : released'[k] = released[k]
      /\ released'[ctx.index + 1] = sig
  BY <1>1, <1>2
<1>4. ctx \in Contexts /\ CtxHasCurrentAction(ctx) /\ reviewed.actions = ctx.actions
  BY <1>1 DEF IInv, TypeOK, Contexts, ReleaseSignature, Signable, Snapshot
<1>5. Len(released') <= Len(reviewed'.actions)
  BY <1>3, <1>4 DEF Contexts, CtxHasCurrentAction
<1>6. \A k \in DOMAIN released' : released'[k] = ExpectedSignature(reviewed', k)
  <2> SUFFICES ASSUME NEW k \in DOMAIN released'
               PROVE  released'[k] = ExpectedSignature(reviewed, k)
    OBVIOUS
  <2>1. k \in 1..(ctx.index + 1) /\ ctx.index \in Nat
    BY <1>3, <1>4 DEF Contexts
  <2>2. CASE k = ctx.index + 1
    BY <2>2, <1>1, <1>3
  <2>3. CASE k # ctx.index + 1
    <3>1. k \in 1..Len(released) /\ released # <<>>
      BY <2>1, <2>3, <1>1
    <3>2. k \in DOMAIN released
      BY <3>1, <1>2
    <3> QED
      BY <3>1, <3>2, <1>3 DEF IInv, SignedAsReviewed
  <2> QED
    BY <2>2, <2>3
<1>7. SignedAsReviewed'
  BY <1>5, <1>6 DEF SignedAsReviewed
<1>8. CASE CtxRemainingActions(CtxSwitchToNextAction(ctx)) = 0
  <2>1. ctx'.index = 0
    BY <1>8 DEF ReleaseSignature, EmptyCtx
  <2> QED
    BY <2>1, <1>3, <1>7 DEF OpenSessionTracksReview, SessionInv
<1>9. CASE CtxRemainingActions(CtxSwitchToNextAction(ctx)) # 0
  <2>1. ctx' = CtxSwitchToNextAction(ctx)
    BY <1>9 DEF ReleaseSignature
  <2>2. /\ ctx'.index = ctx.index + 1
        /\ ctx'.actions = ctx.actions
        /\ ctx'.metadata = ctx.metadata
    BY <2>1, <1>4, CurrentAction
  <2>3. reviewed' = Snapshot'
    BY <2>2, <1>1 DEF Snapshot
  <2>4. ctx'.index < Len(ctx'.actions)
    <3>1. ctx' \in Contexts /\ Len(ctx'.actions) <= MaxActionCount
          /\ ctx'.index <= Len(ctx'.actions)
      BY DEF TypeOK, Contexts
    <3>2. Len(ctx'.actions) - ctx'.index # 0
      BY <3>1, <2>1, <1>9, RemainingActions
    <3> QED
      BY <3>1, <3>2 DEF Contexts
  <2>5. signing_ctx.wallet = DeriveAddr(signing_ctx.path)
    BY DEF IInv, ReviewShowsContext, SessionInv
  <2> QED
    BY <2>2, <2>3, <2>4, <2>5, <1>3, <1>7 DEF OpenSessionTracksReview, SessionInv
<1> QED
  BY <1>8, <1>9, <1>7

(* A command that answers and changes nothing of the session *)
Unchanged == UNCHANGED <<ctx, signing_ctx, comm_enabled, display, ui, reviewed, released>>

LEMMA UnchangedPreserves == ASSUME IInv, Unchanged PROVE IInv'
BY DEF Unchanged, IInv, TypeOK, ReviewShowsContext, OpenSessionTracksReview, SignedAsReviewed,
       SessionInv, Snapshot

(* A context that changes before the first signature and outside a review, *)
(* or is emptied when the menu is shown, disturbs nothing that was signed. *)
LEMMA ContextPreserves ==
    ASSUME IInv, TypeOK', ctx'.index = 0,
           display' # "review", comm_enabled',
           UNCHANGED <<reviewed, released>>
    PROVE  IInv'
<1>1. ReviewShowsContext'
  <2>1. comm_enabled' = TRUE
    BY DEF TypeOK
  <2> QED
    BY <2>1 DEF ReviewShowsContext
<1>2. OpenSessionTracksReview' /\ SignedAsReviewed' /\ SessionInv'
  BY DEF IInv, OpenSessionTracksReview, SignedAsReviewed, SessionInv
<1> QED
  BY <1>1, <1>2 DEF IInv

LEMMA InvStep == IInv /\ [Next]_vars => IInv'
<1> SUFFICES ASSUME IInv, [Next]_vars PROVE IInv'
  OBVIOUS
<1>1. TypeOK /\ TypeOK'
  BY TypeStep DEF IInv
<1>2. /\ ctx \in Contexts
      /\ comm_enabled => display # "review"
      /\ ~comm_enabled => display = "review"
  BY <1>1 DEF IInv, TypeOK, Contexts, ReviewShowsContext
<1>3. CASE GetAddress \/ RefuseCommand \/ RefuseWhileReviewing \/ AcknowledgeChunk
           \/ RefuseMetadata \/ RefuseAction \/ RefusePath \/ UNCHANGED vars
  BY <1>3, UnchangedPreserves
     DEF Unchanged, GetAddress, RefuseCommand, RefuseWhileReviewing, AcknowledgeChunk,
         RefuseMetadata, RefuseAction, RefusePath, vars
<1>4. CASE InterruptSession
  BY <1>1, <1>2, <1>4, ContextPreserves DEF InterruptSession, EmptyCtx
<1>5. ASSUME NEW metadata \in Metadata, LoadMetadata(metadata) PROVE IInv'
  <2>1. ctx'.index = 0
    BY <1>5 DEF LoadMetadata, CtxSaveActionMetadata, EmptyCtx
  <2> QED
    BY <1>1, <1>2, <1>5, <2>1, ContextPreserves DEF LoadMetadata
<1>6. ASSUME NEW action \in Actions, StoreAction(action) PROVE IInv'
  <2>1. ctx'.index = 0
    BY <1>2, <1>6
       DEF StoreAction, ParsesAction, AcceptsAction, CtxCanPush, CtxPushAction, Contexts
  <2> QED
    BY <1>1, <1>2, <1>6, <2>1, ContextPreserves DEF StoreAction
<1>7. ASSUME NEW path \in Paths, OpenReview(path) PROVE IInv'
  <2>1. ctx.index = 0 /\ ctx.actions # <<>> /\ ctx' = ctx
    <3>1. ctx.index = 0 /\ CtxRemainingActions(ctx) # 0 /\ ctx' = ctx
      BY <1>7 DEF OpenReview, CtxCurrentActionIsFirst
    <3>2. CtxRemainingActions(ctx) = Len(ctx.actions) - ctx.index
      BY <1>1, <1>2, RemainingActions DEF TypeOK
    <3> QED
      BY <3>1, <3>2
  <2>2. /\ signing_ctx' = [path |-> path, wallet |-> DeriveAddr(path)]
        /\ display' = "review"
        /\ comm_enabled' = FALSE
        /\ ui' = Screen(ctx.metadata, ctx.actions)
        /\ reviewed' = [metadata |-> ctx.metadata, actions |-> ctx.actions, path |-> path]
        /\ released' = <<>>
    BY <1>7 DEF OpenReview
  <2>3. reviewed' = Snapshot'
    BY <2>1, <2>2 DEF Snapshot
  <2>4. signing_ctx'.wallet = DeriveAddr(signing_ctx'.path)
    BY <2>2
  <2>5. comm_enabled' = (display' # "review")
    BY <2>2
  <2>6. ReviewShowsContext'
    BY <2>1, <2>2, <2>3, <2>4, <2>5 DEF ReviewShowsContext
  <2>7. OpenSessionTracksReview' /\ SignedAsReviewed' /\ SessionInv'
    BY <2>1, <2>2 DEF OpenSessionTracksReview, SignedAsReviewed, SessionInv
  <2> QED
    BY <1>1, <2>6, <2>7 DEF IInv
<1>8. ASSUME NEW path \in Paths, RefuseReview(path) PROVE IInv'
  <2>1. ctx'.index = 0
    BY <1>8 DEF RefuseReview, CtxCurrentActionIsFirst
  <2> QED
    BY <1>1, <1>2, <1>8, <2>1, ContextPreserves DEF RefuseReview
<1>9. ASSUME NEW path \in Paths, SignNextAction(path) PROVE IInv'
  <2>1. /\ ctx.index > 0
        /\ comm_enabled
        /\ UNCHANGED <<signing_ctx, comm_enabled, display, ui, reviewed>>
    BY <1>2, <1>9 DEF SignNextAction, CtxCurrentActionIsFirst, Contexts
  <2>2. CASE ReleaseSignature
    <3>1. OpenSessionTracksReview' /\ SignedAsReviewed' /\ SessionInv'
      BY <1>1, <1>2, <2>1, <2>2, ReleasePreserves
    <3>2. ReviewShowsContext'
      BY <1>2, <2>1 DEF IInv, ReviewShowsContext
    <3> QED
      BY <1>1, <3>1, <3>2 DEF IInv
  <2>3. CASE FailToSign
    BY <2>1, <2>3, UnchangedPreserves DEF FailToSign, Unchanged
  <2> QED
    BY <1>9, <2>2, <2>3 DEF SignNextAction
<1>10. ASSUME NEW path \in Paths, RefuseOtherPath(path) PROVE IInv'
  BY <1>10, UnchangedPreserves DEF RefuseOtherPath, Unchanged
<1>11. CASE Confirm
  <2>1. /\ display = "review"
        /\ display' # "review"
        /\ comm_enabled'
        /\ UNCHANGED <<signing_ctx, reviewed>>
    BY <1>11 DEF Confirm
  <2>2. CASE ReleaseSignature
    <3>1. OpenSessionTracksReview' /\ SignedAsReviewed' /\ SessionInv'
      BY <1>1, <2>1, <2>2, ReleasePreserves
    <3>2. comm_enabled' = TRUE
      BY <1>11 DEF Confirm
    <3>3. ReviewShowsContext'
      BY <2>1, <3>2 DEF ReviewShowsContext
    <3> QED
      BY <1>1, <3>1, <3>3 DEF IInv
  <2>3. CASE FailToSign
    <3>1. ctx'.index = 0
      BY <2>1, <2>3 DEF FailToSign, IInv, ReviewShowsContext
    <3> QED
      BY <1>1, <2>1, <2>3, <3>1, ContextPreserves DEF FailToSign
  <2>4. CASE ctx' = EmptyCtx /\ UNCHANGED <<response, released>>
    BY <1>1, <2>1, <2>4, ContextPreserves DEF EmptyCtx
  <2> QED
    BY <1>11, <2>2, <2>3, <2>4 DEF Confirm
<1>12. CASE Reject
  BY <1>1, <1>12, ContextPreserves DEF Reject, EmptyCtx
<1>13. CASE DismissStatus
  <2>1. display = "message_signed" /\ display' = "menu" /\ comm_enabled
    BY <1>2, <1>13 DEF DismissStatus
  <2>2. UNCHANGED <<ctx, signing_ctx, comm_enabled, ui, reviewed, released>>
    BY <1>13 DEF DismissStatus
  <2>3. ReviewShowsContext'
    <3>1. comm_enabled' = TRUE
      BY <1>1, <2>1, <2>2 DEF TypeOK
    <3> QED
      BY <2>1, <3>1 DEF ReviewShowsContext
  <2>4. OpenSessionTracksReview' /\ SignedAsReviewed' /\ SessionInv'
    BY <2>1, <2>2 DEF IInv, OpenSessionTracksReview, SignedAsReviewed, SessionInv, Snapshot
  <2> QED
    BY <1>1, <2>3, <2>4 DEF IInv
<1>14. CASE Exit
  <2>1. /\ ctx'.index = 0
        /\ released' = <<>>
        /\ display' = "menu"
        /\ comm_enabled' = TRUE
    BY <1>14 DEF Exit, EmptyCtx
  <2>2. ReviewShowsContext'
    BY <2>1 DEF ReviewShowsContext
  <2>3. OpenSessionTracksReview' /\ SignedAsReviewed' /\ SessionInv'
    BY <2>1 DEF OpenSessionTracksReview, SignedAsReviewed, SessionInv
  <2> QED
    BY <1>1, <2>2, <2>3 DEF IInv
<1> QED
  BY <1>3, <1>4, <1>5, <1>6, <1>7, <1>8, <1>9, <1>10, <1>11, <1>12, <1>13, <1>14
     DEF Next, HostCommand, UserChoice, ProvideActionMetadata, SetAction, SignAction,
         StoreAction, ParsesAction

(* The inductive invariant holds in every run of the session. *)
THEOREM Invariance == Spec => []IInv
BY InvInit, InvStep, PTL DEF Spec

(* The signatures the host gets are those of the actions the user          *)
(* reviewed, in order, each once, with the key and for the network that    *)
(* were reviewed (sign_action.c:20-118).                                   *)
THEOREM SignaturesAreReviewed == Spec => []SignedAsReviewed
<1>1. IInv => SignedAsReviewed
  BY DEF IInv
<1> QED
  BY <1>1, Invariance, PTL

(* What the user reads is what the context holds, and nothing is served    *)
(* meanwhile (operation.c:94-103, app_main.c:61-85).                       *)
THEOREM ReviewIsCurrent == Spec => []ReviewShowsContext
<1>1. IInv => ReviewShowsContext
  BY DEF IInv
<1> QED
  BY <1>1, Invariance, PTL

(* A half signed session is still the reviewed one, and has an action left *)
(* to sign (sign_action.c:48-58, hl_context.c:31-59).                      *)
THEOREM SessionIsReviewed == Spec => []OpenSessionTracksReview
<1>1. IInv => OpenSessionTracksReview
  BY DEF IInv
<1> QED
  BY <1>1, Invariance, PTL

-----------------------------------------------------------------------------
(* What a step may never do *)

(* A signature leaves as the answer to the review on screen, or in the     *)
(* session such an answer opened (sign_action.c:95-118, operation.c:24-38).*)
THEOREM ConsentPrecedesRelease == Spec => ReleaseNeedsConsent
<1> DEFINE A == released' # released /\ released' # <<>> =>
                    IF released = <<>> THEN display = "review" ELSE ctx.index = Len(released)
<1>1. IInv /\ [Next]_vars => [A]_vars
  <2> SUFFICES ASSUME IInv, Next, released' # released, released' # <<>>
               PROVE  IF released = <<>> THEN display = "review" ELSE ctx.index = Len(released)
    BY DEF vars
  <2>1. CASE Confirm
    BY <2>1 DEF Confirm, IInv, SessionInv
  <2>2. ASSUME NEW path \in Paths, SignNextAction(path)
        PROVE  ctx.index = Len(released) /\ released # <<>>
    <3>1. ctx.index > 0
      BY <2>2 DEF SignNextAction, CtxCurrentActionIsFirst, IInv, TypeOK
    <3> QED
      BY <3>1 DEF IInv, OpenSessionTracksReview, SessionInv
  <2>3. ASSUME ~Confirm, \A path \in Paths : ~SignNextAction(path) PROVE FALSE
    BY <2>3
       DEF Next, HostCommand, UserChoice, GetAddress, RefuseCommand, RefuseWhileReviewing,
           AcknowledgeChunk, ProvideActionMetadata, RefuseMetadata, InterruptSession,
           LoadMetadata, SetAction, StoreAction, RefuseAction, RefusePath, SignAction,
           OpenReview, RefuseReview, RefuseOtherPath, Reject, DismissStatus, Exit
  <2> QED
    BY <2>1, <2>2, <2>3
<1> QED
  BY <1>1, Invariance, PTL DEF Spec, ReleaseNeedsConsent

(* After the first signature the session only goes on or ends: its         *)
(* metadata and its actions are never replaced (hl_context.c:35-38,        *)
(* action_metadata.c:236-242).                                             *)
THEOREM SessionIsNeverReplaced == Spec => NoSubstitution
<1> DEFINE A == ctx.index > 0 => \/ ctx' = EmptyCtx
                                 \/ ctx' = ctx
                                 \/ ctx' = CtxSwitchToNextAction(ctx)
<1>1. IInv /\ [Next]_vars => [A]_vars
  <2> SUFFICES ASSUME IInv, Next, ctx.index > 0
               PROVE  ctx' \in {EmptyCtx, ctx, CtxSwitchToNextAction(ctx)}
    BY DEF vars
  <2>1. ctx.index # 0
    BY DEF IInv, TypeOK
  <2>2. ReleaseSignature => ctx' \in {EmptyCtx, CtxSwitchToNextAction(ctx)}
    BY DEF ReleaseSignature
  <2>3. \A a : ~LoadMetadata(a) /\ ~StoreAction(a)
    BY <2>1 DEF LoadMetadata, StoreAction, CtxCurrentActionIsFirst, ParsesAction,
                AcceptsAction, CtxCanPush
  <2> QED
    BY <2>2, <2>3
       DEF Next, HostCommand, UserChoice, GetAddress, RefuseCommand, RefuseWhileReviewing,
           AcknowledgeChunk, ProvideActionMetadata, RefuseMetadata, InterruptSession,
           SetAction, RefuseAction, RefusePath, SignAction, OpenReview, RefuseReview,
           SignNextAction, RefuseOtherPath, FailToSign, Confirm, Reject, DismissStatus, Exit
<1> QED
  BY <1>1, Invariance, PTL DEF Spec, NoSubstitution

-----------------------------------------------------------------------------
(* Refinement: the session implements ReviewedSigning. *)

(* The batch of the abstract specification is never the absent one. *)
LEMMA SnapshotIsABatch == TypeOK => Snapshot # NoReview
BY NoReviewAssumption DEF NoReviewAssumption, TypeOK, Snapshot

(* The initial states of the session show, approve and sign nothing. *)
LEMMA InitRefines == Init => Promise!Init
BY DEF Init, EmptyCtx, Promise!Init

(* Nothing happens to a batch as long as the session is neither reviewed   *)
(* nor half signed.                                                        *)
LEMMA IdleStutters ==
    ASSUME display # "review", display' # "review",
           ctx.index = 0, ctx'.index = 0, UNCHANGED released
    PROVE  UNCHANGED Promise!vars
BY DEF Promise!vars

(* A command that answers and leaves the session alone is a stutter. *)
LEMMA UnchangedStutters == ASSUME Unchanged PROVE UNCHANGED Promise!vars
BY DEF Unchanged, Promise!vars, Snapshot

(* A signature of the session is the signature of the batch that was shown *)
(* or approved, and leaves the batch approved as long as another one is    *)
(* due (sign_action.c:20-60).                                              *)
LEMMA ReleaseRefines ==
    ASSUME IInv, IInv', ReleaseSignature, UNCHANGED signing_ctx,
           display = "review" \/ ctx.index > 0
    PROVE  /\ released' = Append(released, ExpectedSignature(Snapshot, ctx.index + 1))
           /\ Len(released) = ctx.index
           /\ (IF ctx'.index > 0 THEN Snapshot' ELSE NoReview)
                  = (IF ctx.index + 1 = BatchSize(Snapshot) THEN NoReview ELSE Snapshot)
<1>1. /\ reviewed = Snapshot
      /\ Len(released) = ctx.index
      /\ CurrentSignature = ExpectedSignature(Snapshot, ctx.index + 1)
  BY ReleasedIsExpected
<1>2. /\ ctx \in Contexts
      /\ CtxHasCurrentAction(ctx)
      /\ BatchSize(Snapshot) = Len(ctx.actions)
  BY DEF IInv, TypeOK, Contexts, ReleaseSignature, Signable, BatchSize, Snapshot
<1> DEFINE next == CtxSwitchToNextAction(ctx)
<1>3. /\ next \in Contexts
      /\ next.index = ctx.index + 1
      /\ next.actions = ctx.actions
      /\ next.metadata = ctx.metadata
  BY <1>2, ContextTypes, CurrentAction
<1> HIDE DEF next
<1>4. CtxRemainingActions(next) = Len(ctx.actions) - (ctx.index + 1)
  <2>1. Len(next.actions) <= MaxActionCount /\ next.index <= Len(next.actions)
    BY <1>2, <1>3 DEF IInv, TypeOK, Contexts, CtxHasCurrentAction
  <2> QED
    BY <1>3, <2>1, RemainingActions
<1>5. ctx' = IF CtxRemainingActions(next) = 0 THEN EmptyCtx ELSE next
  BY DEF ReleaseSignature, next
<1>6. CASE ctx.index + 1 = Len(ctx.actions)
  <2>1. ctx' = EmptyCtx
    BY <1>4, <1>5, <1>6, <1>2 DEF Contexts
  <2> QED
    BY <1>1, <1>2, <1>6, <2>1 DEF ReleaseSignature, EmptyCtx
<1>7. CASE ctx.index + 1 # Len(ctx.actions)
  <2>1. ctx' = next
    BY <1>4, <1>5, <1>7, <1>2 DEF Contexts
  <2>2. ctx'.index > 0 /\ Snapshot' = Snapshot
    BY <1>2, <1>3, <2>1 DEF Contexts, Snapshot
  <2> QED
    BY <1>1, <1>2, <1>7, <2>2 DEF ReleaseSignature
<1> QED
  BY <1>6, <1>7

LEMMA StepRefines == IInv /\ IInv' /\ [Next]_vars => [Promise!Next]_Promise!vars
<1> SUFFICES ASSUME IInv, IInv', [Next]_vars PROVE [Promise!Next]_Promise!vars
  OBVIOUS
<1>1. /\ comm_enabled => display # "review"
      /\ ctx \in Contexts
      /\ ctx' \in Contexts
      /\ Snapshot # NoReview
      /\ Snapshot' # NoReview
      /\ display = "review" => ctx.index = 0
  <2>1. TypeOK /\ TypeOK'
    BY DEF IInv
  <2>2. Snapshot' # NoReview
    BY <2>1, NoReviewAssumption DEF NoReviewAssumption, TypeOK, Snapshot
  <2> QED
    BY <2>1, <2>2, SnapshotIsABatch DEF IInv, TypeOK, Contexts, ReviewShowsContext
<1>2. CASE GetAddress \/ RefuseCommand \/ RefuseWhileReviewing \/ AcknowledgeChunk
           \/ RefuseMetadata \/ RefuseAction \/ RefusePath \/ UNCHANGED vars
  BY <1>2, UnchangedStutters
     DEF Unchanged, GetAddress, RefuseCommand, RefuseWhileReviewing, AcknowledgeChunk,
         RefuseMetadata, RefuseAction, RefusePath, vars
<1>3. CASE InterruptSession
  <2>1. /\ ctx.index > 0
        /\ display # "review"
        /\ display' # "review"
        /\ ctx'.index = 0
        /\ UNCHANGED released
    BY <1>1, <1>3 DEF InterruptSession, CtxCurrentActionIsFirst, EmptyCtx, Contexts
  <2>2. Promise!Abandon
    BY <1>1, <2>1 DEF Promise!Abandon
  <2> QED
    BY <2>2 DEF Promise!Next
<1>4. ASSUME NEW metadata \in Metadata, LoadMetadata(metadata) PROVE UNCHANGED Promise!vars
  BY <1>1, <1>4, IdleStutters
     DEF LoadMetadata, CtxCurrentActionIsFirst, CtxSaveActionMetadata, EmptyCtx
<1>5. ASSUME NEW action \in Actions, StoreAction(action) PROVE UNCHANGED Promise!vars
  <2>1. ctx.index = 0 /\ ctx'.index = 0
    BY <1>1, <1>5
       DEF StoreAction, ParsesAction, AcceptsAction, CtxCanPush, CtxPushAction, Contexts
  <2> QED
    BY <1>1, <1>5, <2>1, IdleStutters DEF StoreAction
<1>6. ASSUME NEW path \in Paths, OpenReview(path) PROVE Promise!Show
  <2>1. /\ display # "review"
        /\ display' = "review"
        /\ ctx.index = 0
        /\ ctx' = ctx
        /\ UiAccepts(ctx.metadata, ctx.actions)
        /\ released' = <<>>
    BY <1>1, <1>6 DEF OpenReview, CtxCurrentActionIsFirst
  <2>2. ctx'.actions # <<>>
    BY <2>1 DEF IInv, ReviewShowsContext
  <2>3. IsReviewable(Snapshot')
    BY <2>1, <2>2 DEF IsReviewable, Snapshot
  <2> QED
    BY <1>1, <2>1, <2>3 DEF Promise!Show
<1>7. ASSUME NEW path \in Paths, RefuseReview(path) PROVE UNCHANGED Promise!vars
  BY <1>1, <1>7, IdleStutters DEF RefuseReview, CtxCurrentActionIsFirst
<1>8. ASSUME NEW path \in Paths, SignNextAction(path)
      PROVE  Promise!SignNext \/ UNCHANGED Promise!vars
  <2>1. /\ ctx.index > 0
        /\ display # "review"
        /\ UNCHANGED <<signing_ctx, comm_enabled, display, ui, reviewed>>
    BY <1>1, <1>8 DEF SignNextAction, CtxCurrentActionIsFirst, Contexts
  <2>2. CASE ReleaseSignature
    BY <1>1, <2>1, <2>2, ReleaseRefines DEF Promise!SignNext, Promise!Release
  <2>3. CASE FailToSign
    BY <2>1, <2>3, UnchangedStutters DEF FailToSign, Unchanged
  <2> QED
    BY <1>8, <2>2, <2>3 DEF SignNextAction
<1>9. ASSUME NEW path \in Paths, RefuseOtherPath(path) PROVE UNCHANGED Promise!vars
  BY <1>9, UnchangedStutters DEF RefuseOtherPath, Unchanged
<1>10. CASE Confirm
  <2>1. /\ display = "review"
        /\ display' # "review"
        /\ ctx.index = 0
        /\ UNCHANGED <<signing_ctx, reviewed>>
        /\ released = <<>>
    BY <1>1, <1>10 DEF Confirm, IInv, SessionInv
  <2>2. CASE ReleaseSignature
    <3>1. Promise!Approve
      BY <1>1, <2>1, <2>2, ReleaseRefines DEF Promise!Approve, Promise!Release
    <3> QED
      BY <3>1 DEF Promise!Next
  <2>3. CASE FailToSign \/ (ctx' = EmptyCtx /\ UNCHANGED released)
    <3>1. ctx'.index = 0 /\ UNCHANGED released
      BY <2>1, <2>3 DEF FailToSign, EmptyCtx
    <3>2. Promise!Decline
      BY <1>1, <2>1, <3>1 DEF Promise!Decline
    <3> QED
      BY <3>2 DEF Promise!Next
  <2> QED
    BY <1>10, <2>2, <2>3 DEF Confirm
<1>11. CASE Reject
  <2>1. /\ display = "review"
        /\ display' # "review"
        /\ ctx'.index = 0
        /\ UNCHANGED released
    BY <1>11 DEF Reject, EmptyCtx
  <2>2. Promise!Decline
    BY <1>1, <2>1 DEF Promise!Decline
  <2> QED
    BY <2>2 DEF Promise!Next
<1>12. CASE DismissStatus
  BY <1>12 DEF DismissStatus, Promise!vars, Snapshot
<1>13. CASE Exit
  <2>1. display' # "review" /\ ctx'.index = 0 /\ released' = <<>>
    BY <1>13 DEF Exit, EmptyCtx
  <2>2. Promise!Restart
    BY <2>1 DEF Promise!Restart
  <2> QED
    BY <2>2 DEF Promise!Next
<1> QED
  BY <1>2, <1>3, <1>4, <1>5, <1>6, <1>7, <1>8, <1>9, <1>10, <1>11, <1>12, <1>13
     DEF Next, HostCommand, UserChoice, ProvideActionMetadata, SetAction, SignAction,
         StoreAction, ParsesAction, Promise!Next

(* What the user approves is what was shown, and what is signed is what    *)
(* was approved, action after action, whatever commands the host sends and *)
(* wherever the application fails (sign_action.c, operation.c,             *)
(* hl_context.c together).                                                 *)
THEOREM SessionRefines == Spec => ImplementsReviewedSigning
<1>1. IInv /\ IInv' /\ [Next]_vars => [Promise!Next]_Promise!vars
  BY StepRefines
<1> QED
  BY <1>1, InitRefines, Invariance, PTL DEF Spec, ImplementsReviewedSigning, Promise!Spec
=============================================================================
