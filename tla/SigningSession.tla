--------------------------- MODULE SigningSession ---------------------------
(***************************************************************************)
(* The signing session: what the commands of the host and the choices of   *)
(* the user do to the application (handler/*.c, action_metadata.c,         *)
(* action.c, ui/operation.c, app_main.c).  The application is one loop:    *)
(* a command is handled from start to end before the next one is read, and *)
(* the review callback runs between two commands.  A step is one command   *)
(* or one choice.                                                          *)
(*                                                                         *)
(* Here a command carries a whole payload; ChunkedPayload.tla models how a *)
(* payload is put together out of chunks and HyperliquidApp.tla composes   *)
(* the two.                                                                *)
(*                                                                         *)
(* When a handler fails to send its response, apdu_dispatcher returns a    *)
(* negative value, app_main returns and the application exits: whatever    *)
(* the handler changed in RAM is lost.  These steps are all the step Exit. *)
(***************************************************************************)
EXTENDS HlReview

CONSTANTS
    Metadata,      \* metadata the PKI signed, as the parser decodes it
    Actions,       \* actions the TLV parsers decode, whatever they name
    Malformed,     \* a payload the parsers or the PKI check reject
    Paths,         \* BIP32 paths the host may ask for
    NoPath,        \* the zeroed path, and the address it has not derived
    NoSignature,   \* a response without a signature
    NoReview       \* nothing was reviewed yet, or no screen was built yet

ASSUME NoReviewAssumption ==
    NoReview \notin [metadata : Metadata \cup {NoMetadata}, actions : Seq(Actions),
                     path : Paths \cup {NoPath}]

VARIABLES
    ctx,           \* g_ctx (hl_context.c)
    signing_ctx,   \* g_signing_ctx (sign_action.c): path and wallet address
    comm_enabled,  \* g_comm_enabled (comm_enabler.c)
    display,       \* the NBGL page: "menu", "review" or "message_signed"
    ui,            \* g_ui_ctx (operation.c): the content of the last review
    response,      \* the last response sent to the host
    reviewed,      \* history: the context when the last review was opened
    released       \* history: signatures the host got since then

vars == <<ctx, signing_ctx, comm_enabled, display, ui, response, reviewed, released>>

(* The address of a key is an injective function of its path. *)
DeriveAddr(path) == <<"address of", path>>

NoWallet == <<"address of", NoPath>>

Snapshot == [metadata |-> ctx.metadata, actions |-> ctx.actions, path |-> signing_ctx.path]

Init ==
    /\ ctx = EmptyCtx
    /\ signing_ctx = [path |-> NoPath, wallet |-> NoWallet]
    /\ comm_enabled = TRUE
    /\ display = "menu"
    /\ ui = NoReview
    /\ response = [sw |-> "NONE", signature |-> NoSignature]
    /\ reviewed = NoReview
    /\ released = <<>>

(* io_send_sw and io_send_response_pointer, when they succeed *)
Send(sw, signature) == response' = [sw |-> sw, signature |-> signature]

SendSw(sw) == Send(sw, NoSignature)

-----------------------------------------------------------------------------
(* GET_ADDRESS, and commands refused before they reach a handler *)

(* A path that does not parse is refused, any other gets its address; the  *)
(* handler keeps no state.                                                 *)
GetAddress ==
    /\ comm_enabled
    /\ SendSw("SUCCESS") \/ SendSw("INCORRECT_DATA")
    /\ UNCHANGED <<ctx, signing_ctx, comm_enabled, display, ui, reviewed, released>>

(* apdu_parser or apdu_dispatcher refuses the command. *)
RefuseCommand ==
    /\ comm_enabled
    /\ SendSw("INVALID_COMMAND")
    /\ UNCHANGED <<ctx, signing_ctx, comm_enabled, display, ui, reviewed, released>>

(* While a review is on screen app_main answers every command itself. *)
RefuseWhileReviewing ==
    /\ ~comm_enabled
    /\ SendSw("COMMAND_ERROR_NO_INFO")
    /\ UNCHANGED <<ctx, signing_ctx, comm_enabled, display, ui, reviewed, released>>

-----------------------------------------------------------------------------
(* PROVIDE_ACTION_METADATA and SET_ACTION *)

(* process_chunked_payload buffers a chunk that does not complete a payload. *)
AcknowledgeChunk ==
    /\ comm_enabled
    /\ SendSw("SUCCESS")
    /\ UNCHANGED <<ctx, signing_ctx, comm_enabled, display, ui, reviewed, released>>

(* parse_action_metadata: a payload that does not decode or that the PKI   *)
(* did not sign leaves the context alone; genuine metadata interrupts a    *)
(* session in which a signature was made, and otherwise starts a new one.  *)
RefuseMetadata ==
    /\ comm_enabled
    /\ SendSw("INCORRECT_DATA")
    /\ UNCHANGED <<ctx, signing_ctx, comm_enabled, display, ui, reviewed, released>>

(* Faulty variants of InterruptSession and LoadMetadata: the session goes  *)
(* on; the actions of the previous session stay.                           *)
InterruptSessionWithoutReset ==
    /\ comm_enabled
    /\ ~CtxCurrentActionIsFirst(ctx)
    /\ SendSw("INCORRECT_DATA")
    /\ UNCHANGED <<ctx, signing_ctx, comm_enabled, display, ui, reviewed, released>>

LoadMetadataKeepingActions(metadata) ==
    /\ comm_enabled
    /\ CtxCurrentActionIsFirst(ctx)
    /\ ctx' = CtxSaveActionMetadata(ctx, metadata)
    /\ SendSw("SUCCESS")
    /\ UNCHANGED <<signing_ctx, comm_enabled, display, ui, reviewed, released>>

InterruptSession ==
    /\ comm_enabled
    /\ ~CtxCurrentActionIsFirst(ctx)
    /\ ctx' = EmptyCtx
    /\ SendSw("INCORRECT_DATA")
    /\ UNCHANGED <<signing_ctx, comm_enabled, display, ui, reviewed, released>>

LoadMetadata(metadata) ==
    /\ comm_enabled
    /\ CtxCurrentActionIsFirst(ctx)
    /\ ctx' = CtxSaveActionMetadata(EmptyCtx, metadata)
    /\ SendSw("SUCCESS")
    /\ UNCHANGED <<signing_ctx, comm_enabled, display, ui, reviewed, released>>

ProvideActionMetadata(payload) ==
    \/ payload = Malformed /\ RefuseMetadata
    \/ payload # Malformed /\ (InterruptSession \/ LoadMetadata(payload))

(* parse_action *)
ParsesAction(payload) == payload # Malformed /\ AcceptsAction(ctx, payload)

StoreAction(action) ==
    /\ comm_enabled
    /\ ParsesAction(action)
    /\ ctx' = CtxPushAction(ctx, action)
    /\ SendSw("SUCCESS")
    /\ UNCHANGED <<signing_ctx, comm_enabled, display, ui, reviewed, released>>

RefuseAction ==
    /\ comm_enabled
    /\ SendSw("INCORRECT_DATA")
    /\ UNCHANGED <<ctx, signing_ctx, comm_enabled, display, ui, reviewed, released>>

SetAction(payload) ==
    \/ StoreAction(payload)
    \/ ~ParsesAction(payload) /\ RefuseAction

-----------------------------------------------------------------------------
(* sign_action: signs the current action and moves on before it sends; the *)
(* context is reset after the last signature left.                         *)

Signable == CtxHasCurrentAction(ctx) /\ ctx.metadata # NoMetadata

CurrentSignature ==
    [path      |-> signing_ctx.path,
     digest    |-> ActionHash(CtxCurrentAction(ctx), ctx.metadata, signing_ctx.wallet),
     remaining |-> CtxRemainingActions(CtxSwitchToNextAction(ctx))]

(* Faulty variants of ReleaseSignature and FailToSign: the context is not  *)
(* reset after the last action; the action that failed is skipped.         *)
ReleaseSignatureWithoutReset ==
    /\ Signable
    /\ ctx' = CtxSwitchToNextAction(ctx)
    /\ Send("SUCCESS", CurrentSignature)
    /\ released' = Append(released, CurrentSignature)

FailToSignAndSkip ==
    /\ ctx' = IF Signable THEN CtxSwitchToNextAction(ctx) ELSE ctx
    /\ SendSw("INCORRECT_DATA")
    /\ UNCHANGED released

ReleaseSignature ==
    /\ Signable
    /\ ctx' = LET next == CtxSwitchToNextAction(ctx)
              IN  IF CtxRemainingActions(next) = 0 THEN EmptyCtx ELSE next
    /\ Send("SUCCESS", CurrentSignature)
    /\ released' = Append(released, CurrentSignature)

(* No current action or no metadata, or a failure of the cryptographic     *)
(* library, which can happen at any call.                                  *)
FailToSign ==
    /\ SendSw("INCORRECT_DATA")
    /\ UNCHANGED <<ctx, released>>

(* handler_sign_action.  A path that does not parse is refused first. *)
RefusePath ==
    /\ comm_enabled
    /\ SendSw("INCORRECT_DATA")
    /\ UNCHANGED <<ctx, signing_ctx, comm_enabled, display, ui, reviewed, released>>

(* Faulty variants of OpenReview, SignNextAction and RefuseOtherPath:      *)
(* commands are served during the review; the first action needs none; the *)
(* path is recorded before it is compared.                                 *)
OpenReviewAndListen(path) ==
    /\ comm_enabled
    /\ CtxCurrentActionIsFirst(ctx)
    /\ CtxRemainingActions(ctx) # 0
    /\ UiAccepts(ctx.metadata, ctx.actions)
    /\ signing_ctx' = [path |-> path, wallet |-> DeriveAddr(path)]
    /\ ui' = Screen(ctx.metadata, ctx.actions)
    /\ display' = "review"
    /\ reviewed' = [metadata |-> ctx.metadata, actions |-> ctx.actions, path |-> path]
    /\ released' = <<>>
    /\ UNCHANGED <<ctx, comm_enabled, response>>

SignAnyAction(path) ==
    /\ comm_enabled
    /\ path = signing_ctx.path
    /\ ReleaseSignature \/ FailToSign
    /\ UNCHANGED <<signing_ctx, comm_enabled, display, ui, reviewed>>

RefuseButKeepOtherPath(path) ==
    /\ comm_enabled
    /\ ~CtxCurrentActionIsFirst(ctx)
    /\ path # signing_ctx.path
    /\ signing_ctx' = [signing_ctx EXCEPT !.path = path]
    /\ SendSw("INCORRECT_DATA")
    /\ UNCHANGED <<ctx, comm_enabled, display, ui, reviewed, released>>

(* Before the first signature the path is recorded, the address derived    *)
(* and the review opened; no response is sent yet.                         *)
OpenReview(path) ==
    /\ comm_enabled
    /\ CtxCurrentActionIsFirst(ctx)
    /\ CtxRemainingActions(ctx) # 0
    /\ UiAccepts(ctx.metadata, ctx.actions)
    /\ signing_ctx' = [path |-> path, wallet |-> DeriveAddr(path)]
    /\ ui' = Screen(ctx.metadata, ctx.actions)
    /\ display' = "review"
    /\ comm_enabled' = FALSE
    /\ reviewed' = [metadata |-> ctx.metadata, actions |-> ctx.actions, path |-> path]
    /\ released' = <<>>
    /\ UNCHANGED <<ctx, response>>

(* The path is recorded even when there is nothing to sign, the address    *)
(* cannot be derived or the batch cannot be shown, in which case the       *)
(* content of the screen is wiped and what was filled in is never shown.   *)
RefuseReview(path) ==
    /\ comm_enabled
    /\ CtxCurrentActionIsFirst(ctx)
    /\ \/ /\ signing_ctx' = [path |-> path, wallet |-> NoWallet]
          /\ UNCHANGED ui
       \/ /\ CtxRemainingActions(ctx) # 0
          /\ ~UiAccepts(ctx.metadata, ctx.actions)
          /\ signing_ctx' = [path |-> path, wallet |-> DeriveAddr(path)]
          /\ ui' = NoReview
    /\ SendSw("INCORRECT_DATA")
    /\ UNCHANGED <<ctx, comm_enabled, display, reviewed, released>>

(* After the first signature the path must be the recorded one, and the    *)
(* next action is signed without a review.                                 *)
SignNextAction(path) ==
    /\ comm_enabled
    /\ ~CtxCurrentActionIsFirst(ctx)
    /\ path = signing_ctx.path
    /\ ReleaseSignature \/ FailToSign
    /\ UNCHANGED <<signing_ctx, comm_enabled, display, ui, reviewed>>

RefuseOtherPath(path) ==
    /\ comm_enabled
    /\ ~CtxCurrentActionIsFirst(ctx)
    /\ path # signing_ctx.path
    /\ SendSw("INCORRECT_DATA")
    /\ UNCHANGED <<ctx, signing_ctx, comm_enabled, display, ui, reviewed, released>>

SignAction(path) ==
    OpenReview(path) \/ RefuseReview(path) \/ SignNextAction(path) \/ RefuseOtherPath(path)

-----------------------------------------------------------------------------
(* review_choice.  It runs in the event loop: a response that cannot be    *)
(* sent resets the context and does not end the application.               *)

Confirm ==
    /\ display = "review"
    /\ comm_enabled' = TRUE
    /\ \/ /\ ReleaseSignature \/ FailToSign
          /\ display' = "message_signed"
       \/ /\ ctx' = EmptyCtx
          /\ display' = "menu"
          /\ UNCHANGED <<response, released>>
    /\ UNCHANGED <<signing_ctx, ui, reviewed>>

(* A faulty variant of Reject: the metadata stay for another attempt. *)
RejectKeepingMetadata ==
    /\ display = "review"
    /\ comm_enabled' = TRUE
    /\ ctx' = [EmptyCtx EXCEPT !.metadata = ctx.metadata]
    /\ SendSw("CONDITIONS_NOT_SATISFIED")
    /\ display' = "menu"
    /\ UNCHANGED <<signing_ctx, ui, reviewed, released>>

Reject ==
    /\ display = "review"
    /\ comm_enabled' = TRUE
    /\ ctx' = EmptyCtx
    /\ SendSw("CONDITIONS_NOT_SATISFIED") \/ UNCHANGED response
    /\ display' = "menu"
    /\ UNCHANGED <<signing_ctx, ui, reviewed, released>>

(* The status page of a confirmed review gives way to the menu. *)
DismissStatus ==
    /\ display = "message_signed"
    /\ display' = "menu"
    /\ UNCHANGED <<ctx, signing_ctx, comm_enabled, ui, response, reviewed, released>>

(* The application ends (the user quits it, the device loses power, a      *)
(* command cannot be received or a handler cannot send its response) and   *)
(* is launched again: its RAM and its session are gone.                    *)
Exit ==
    /\ ctx' = EmptyCtx
    /\ signing_ctx' = [path |-> NoPath, wallet |-> NoWallet]
    /\ comm_enabled' = TRUE
    /\ display' = "menu"
    /\ ui' = NoReview
    /\ response' = [sw |-> "NONE", signature |-> NoSignature]
    /\ reviewed' = NoReview
    /\ released' = <<>>

-----------------------------------------------------------------------------
HostCommand ==
    \/ GetAddress
    \/ RefuseCommand
    \/ RefuseWhileReviewing
    \/ AcknowledgeChunk
    \/ \E payload \in Metadata \cup {Malformed} : ProvideActionMetadata(payload)
    \/ \E payload \in Actions \cup {Malformed} : SetAction(payload)
    \/ RefusePath
    \/ \E path \in Paths : SignAction(path)

UserChoice == Confirm \/ Reject \/ DismissStatus

Next == HostCommand \/ UserChoice \/ Exit

Spec == Init /\ [][Next]_vars

-----------------------------------------------------------------------------
(* Properties *)

(* Types and bounds: the queued actions fit the array actions[] of g_ctx,  *)
(* and the index never passes their number, so that ctx_remaining_actions  *)
(* never wraps (hl_context.c:10-12, 74-76).                                *)
TypeOK ==
    /\ ctx \in [metadata : Metadata \cup {NoMetadata}, actions : Seq(Actions), index : Nat]
    /\ Len(ctx.actions) <= MaxActionCount
    /\ ctx.index <= Len(ctx.actions)
    /\ signing_ctx.path \in Paths \cup {NoPath}
    /\ signing_ctx.wallet \in {DeriveAddr(path) : path \in Paths} \cup {NoWallet}
    /\ comm_enabled \in BOOLEAN
    /\ display \in {"menu", "review", "message_signed"}

(* The queue only ever holds actions that suit the operation on whose      *)
(* metadata they will be shown and signed: compatible types, the asset of  *)
(* the metadata, no two of a type, a single one for a MODIFY               *)
(* (action.c:202-264, hl_context.c:31-48), however commands interleave.    *)
StoredActionsFitOperation ==
    \A i \in DOMAIN ctx.actions :
        LET action == ctx.actions[i]
        IN  /\ ctx.metadata # NoMetadata
            /\ action.type \in TypesOf(ctx.metadata.op_type)
            /\ ParseBody(action, ctx.metadata)
            /\ ctx.metadata.op_type = "MODIFY" => Len(ctx.actions) = 1
            /\ \A j \in DOMAIN ctx.actions : ctx.actions[j].type = action.type => i = j

(* While the user reads a review nothing it was built from changes: the    *)
(* screen is still that of the context and the address still that of the   *)
(* recorded path, and commands are refused (operation.c:94-103,            *)
(* app_main.c:61-85).  Commands are accepted at any other time.            *)
ReviewShowsContext ==
    /\ comm_enabled = (display # "review")
    /\ display = "review" =>
           /\ ctx.index = 0
           /\ ctx.actions # <<>>
           /\ reviewed = Snapshot
           /\ ui = Screen(ctx.metadata, ctx.actions)
           /\ signing_ctx.wallet = DeriveAddr(signing_ctx.path)

(* What the k-th signature of a reviewed batch has to be *)
ExpectedSignature(batch, k) ==
    [path      |-> batch.path,
     digest    |-> ActionHash(batch.actions[k], batch.metadata, DeriveAddr(batch.path)),
     remaining |-> Len(batch.actions) - k]

(* The signatures the host got after a review are those of the actions of  *)
(* the reviewed batch, in order, each at most once, made with the key and  *)
(* for the network and the user that were reviewed, and each announces how *)
(* many are left (sign_action.c:20-60, 85-118).                            *)
SignedAsReviewed ==
    released # <<>> =>
        /\ Len(released) <= Len(reviewed.actions)
        /\ \A k \in DOMAIN released : released[k] = ExpectedSignature(reviewed, k)

(* A session in which a signature was made still holds the reviewed batch, *)
(* has released exactly the signatures before its index, and has one left  *)
(* to make: after the last one the context is reset and signs no more      *)
(* (sign_action.c:48-58).                                                  *)
OpenSessionTracksReview ==
    ctx.index > 0 =>
        /\ reviewed = Snapshot
        /\ Len(released) = ctx.index
        /\ ctx.index < Len(ctx.actions)

(* The first signature of a batch leaves only as the answer to a review    *)
(* that is on screen, and the others only in a session that answer opened  *)
(* (sign_action.c:95-118, operation.c:24-38).                              *)
ReleaseNeedsConsent ==
    [][ released' # released /\ released' # <<>> =>
            IF released = <<>> THEN display = "review" ELSE ctx.index = Len(released) ]_vars

(* Once a signature was made nothing replaces the metadata or the actions  *)
(* of the session: it goes on to the next action or it is dropped whole    *)
(* (hl_context.c:35-38, action_metadata.c:236-242).                        *)
NoSubstitution ==
    [][ ctx.index > 0 => \/ ctx' = EmptyCtx
                         \/ ctx' = ctx
                         \/ ctx' = CtxSwitchToNextAction(ctx) ]_vars

(* The error path of a confirmed review, against doc/architecture.md: a    *)
(* review that ends without a signature leaves an empty context.  The code *)
(* keeps the batch when sign_action fails and its error response is sent   *)
(* (operation.c:26-28), and announces a signed message.                    *)
FailedReviewLeavesNoBatch ==
    [][ display = "review" /\ display' # "review" /\ released' = <<>> =>
            ctx' = EmptyCtx ]_vars

-----------------------------------------------------------------------------
(* The session implements ReviewedSigning: the batch shown and the batch   *)
(* approved are the contents of the context, before and after the first    *)
(* signature, together with the recorded path.                             *)

BatchSize(batch) == Len(batch.actions)

IsReviewable(batch) ==
    batch.actions # <<>> /\ UiAccepts(batch.metadata, batch.actions)

Promise == INSTANCE ReviewedSigning WITH
    NoBatch    <- NoReview,
    Size       <- BatchSize,
    Reviewable <- IsReviewable,
    Signature  <- ExpectedSignature,
    shown      <- IF display = "review" THEN Snapshot ELSE NoReview,
    approved   <- IF ctx.index > 0 THEN Snapshot ELSE NoReview,
    signed     <- released

(* Every step of the session is a step of the abstract promise, or changes *)
(* nothing of what it speaks of: in particular what the user approves is   *)
(* what was shown and what gets signed (sign_action.c, operation.c,        *)
(* hl_context.c together).                                                 *)
ImplementsReviewedSigning == Promise!Spec

-----------------------------------------------------------------------------
(* Liveness.  The user answers the review that is on screen, and a host    *)
(* that wants to start an operation goes on providing genuine metadata.    *)

Fairness ==
    /\ WF_vars(Confirm \/ Reject)
    /\ SF_vars(\E payload \in Metadata : ProvideActionMetadata(payload))

FairSpec == Spec /\ Fairness

(* A host that keeps providing genuine metadata eventually starts a new    *)
(* session, whatever was under way: no state refuses it for ever           *)
(* (action_metadata.c:236-246, operation.c:24-38).                         *)
NewSessionAlwaysPossible ==
    []<>(ctx.metadata # NoMetadata /\ ctx.actions = <<>> /\ ctx.index = 0)
=============================================================================
