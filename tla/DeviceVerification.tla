------------------------- MODULE DeviceVerification -------------------------
(***************************************************************************)
(* Verification of devices by comparing emojis                             *)
(* (events/emoji_verification.rs): the command verify_device asks another  *)
(* device, the event handlers accept its requests, a handler follows each  *)
(* SAS exchange, and one task for each waits for the user's comparison,    *)
(* through the only receiver there is.                                     *)
(*                                                                         *)
(* The SDK's state machines of the request and of the SAS exchange are one *)
(* phase here. changes() yields what comes after it is called, so that     *)
(* what happens before, while a call of the SDK is awaited, is not heard   *)
(* of; and it yields the latest state, so that one that is left again soon *)
(* may not be seen.                                                        *)
(***************************************************************************)
EXTENDS Naturals, Sequences, SequencesExt, FiniteSets

CONSTANTS
    Incoming,   \* the verifications that other devices may ask for
    Outgoing,   \* those that this one may ask for
    None

Verification == Incoming \cup Outgoing

ASSUME VerificationAssumption == None \notin Verification

VARIABLES
    phase,      \* per verification, its state in the SDK
    outgoing,   \* those that verify_device has begun
    accepted,   \* those whose SAS exchange this device has begun or accepted
    requester,  \* verify_device, or request_verification_handler
    seen,       \* the request state it has seen last, or found on subscribing
    handler,    \* sas_verification_handler
    sasSeen,    \* the SAS state it has seen last, or found on subscribing
    waiter,     \* wait_for_confirmation
    lockQueue,  \* the waiters at the receiver's lock; the first one has it
    shown,      \* the verification whose emojis the user is to compare
    responses,  \* VERIFICATION_RESPONSE_RECEIVER
    status,     \* per verification, the events verify_device has sent
    overlapped,   \* history: a comparison began while another was under way
    mistaken      \* history: a response was taken for another verification

sdkVars == <<phase, accepted>>
requesterVars == <<outgoing, requester, seen, status>>
handlerVars == <<handler, sasSeen>>
waiterVars == <<waiter, lockQueue>>
userVars == <<shown, responses>>
history == <<overlapped, mistaken>>
vars == <<sdkVars, requesterVars, handlerVars, waiterVars, userVars, history>>

Over == {"done", "cancelled"}
RequestState == {"Requested", "Ready", "Transitioned", "Done", "Cancelled"}
SasState == {"Started", "KeysExchanged", "Confirmed", "Done", "Cancelled"}

TypeOK ==
    /\ phase \in [Verification ->
            {"none", "requested", "ready", "started", "keys", "confirmed"} \cup Over]
    /\ outgoing \subseteq Verification /\ accepted \subseteq Verification
    /\ requester \in [Verification -> {"none", "accepting", "requesting", "subscribing",
                                       "watching", "starting", "ended", "failed"}]
    /\ seen \in [Verification -> RequestState \cup {None}]
    /\ handler \in [Verification ->
            {"none", "accepting", "subscribing", "watching", "ended", "failed"}]
    /\ sasSeen \in [Verification -> SasState \cup {None}]
    /\ waiter \in [Verification -> {"none", "emitting", "locking", "queued", "ended"}]
    /\ ToSet(lockQueue) = {v \in Verification : waiter[v] = "queued"}
    /\ Len(lockQueue) = Cardinality(ToSet(lockQueue))
    /\ shown \in Verification \cup {None}
    /\ responses \in Seq([of : Verification, confirmed : BOOLEAN])
    /\ status \in [Verification -> Seq({"Requested", "Done", "Cancelled"})]
    /\ overlapped \in BOOLEAN /\ mistaken \in BOOLEAN

Init ==
    /\ phase = [v \in Verification |-> "none"]
    /\ outgoing = {} /\ accepted = {}
    /\ requester = [v \in Verification |-> "none"]
    /\ seen = [v \in Verification |-> None]
    /\ handler = [v \in Verification |-> "none"]
    /\ sasSeen = [v \in Verification |-> None]
    /\ waiter = [v \in Verification |-> "none"]
    /\ lockQueue = <<>>
    /\ shown = None
    /\ responses = <<>>
    /\ status = [v \in Verification |-> <<>>]
    /\ overlapped = FALSE /\ mistaken = FALSE

RequestStateOf(v) ==
    CASE phase[v] = "requested" -> "Requested"
      [] phase[v] = "ready" -> "Ready"
      [] phase[v] \in {"started", "keys", "confirmed"} -> "Transitioned"
      [] phase[v] = "done" -> "Done"
      [] OTHER -> "Cancelled"

SasStateOf(v) ==
    CASE phase[v] = "started" -> "Started"
      [] phase[v] = "keys" -> "KeysExchanged"
      [] phase[v] = "confirmed" -> "Confirmed"
      [] phase[v] = "done" -> "Done"
      [] OTHER -> "Cancelled"

Active(v) == phase[v] \notin {"none"} \cup Over

(* The user's comparison of v is under way, up to the task that uses it.   *)
Comparing(v) == waiter[v] \in {"emitting", "locking", "queued"}

Becomes(v, p) == phase' = [phase EXCEPT ![v] = p] /\ UNCHANGED history

Return(v, how) == requester' = [requester EXCEPT ![v] = how]

----------------------------------------------------------------------------
(* The other device, and the time: a verification can always be cancelled. *)

OtherDevice(v) ==
    /\ \/ phase[v] = "requested" /\ v \in outgoing /\ Becomes(v, "ready")
       \/ phase[v] = "ready" /\ Becomes(v, "started")
       \/ phase[v] = "started" /\ v \in accepted /\ Becomes(v, "keys")
       \/ phase[v] = "confirmed" /\ Becomes(v, "done")
       \/ Active(v) /\ Becomes(v, "cancelled")
    /\ UNCHANGED <<accepted, requesterVars, handlerVars, waiterVars, userVars>>

(* The handlers of request events, in a room and to the device.            *)
IncomingRequest(v) ==
    /\ v \in Incoming
    /\ requester[v] = "none"
    /\ Becomes(v, "requested")
    /\ Return(v, "accepting")
    /\ UNCHANGED <<accepted, outgoing, seen, status, handlerVars, waiterVars, userVars>>

----------------------------------------------------------------------------
(* request_verification_handler.                                           *)

(* accept().await: nothing is left to accept of a request that is over     *)
(* meanwhile. If it fails, with or without effect, the task panics.        *)
AcceptRequest(v) ==
    /\ requester[v] = "accepting"
    /\ \/ /\ phase[v] = "requested" /\ Becomes(v, "ready")
          /\ Return(v, "subscribing") \/ Return(v, "failed")
       \/ /\ phase[v] # "requested" /\ UNCHANGED <<phase, history>>
          /\ Return(v, "subscribing")
       \/ Return(v, "failed") /\ UNCHANGED <<phase, history>>
    /\ UNCHANGED <<accepted, outgoing, seen, status, handlerVars, waiterVars, userVars>>

(* request.changes(), of either side.                                      *)
SubscribeRequest(v) ==
    /\ requester[v] = "subscribing"
    /\ Return(v, "watching")
    /\ seen' = [seen EXCEPT ![v] = RequestStateOf(v)]
    /\ UNCHANGED <<sdkVars, outgoing, status, handlerVars, waiterVars, userVars, history>>

News(v) == requester[v] = "watching" /\ RequestStateOf(v) # seen[v]
See(v) == seen' = [seen EXCEPT ![v] = RequestStateOf(v)]

(* A SAS exchange gets its handler, and the task ends.                     *)
WatchIncoming(v) ==
    /\ v \notin outgoing /\ News(v) /\ See(v)
    /\ LET over == RequestStateOf(v) \in {"Transitioned", "Done", "Cancelled"} IN
        requester' = [requester EXCEPT ![v] = IF over THEN "ended" ELSE @]
    /\ handler' = [handler EXCEPT ![v] =
            IF RequestStateOf(v) = "Transitioned" THEN "accepting" ELSE @]
    /\ UNCHANGED <<sdkVars, outgoing, status, sasSeen, waiterVars, userVars, history>>

----------------------------------------------------------------------------
(* verify_device.                                                          *)

VerifyDevice(v) ==
    /\ v \in Outgoing
    /\ requester[v] = "none"
    /\ outgoing' = outgoing \cup {v}
    /\ Return(v, "requesting")
    /\ UNCHANGED <<sdkVars, seen, status, handlerVars, waiterVars, userVars, history>>

(* The device is looked up and asked. Either may fail, the latter with or  *)
(* without effect, and the device may be unknown.                          *)
RequestDevice(v) ==
    /\ requester[v] = "requesting"
    /\ \/ /\ Becomes(v, "requested")
          /\ Return(v, "subscribing") \/ Return(v, "failed")
       \/ Return(v, "failed") /\ UNCHANGED <<phase, history>>
    /\ UNCHANGED <<accepted, outgoing, seen, status, handlerVars, waiterVars, userVars>>

Report(v, event) == status' = [status EXCEPT ![v] = Append(@, event)]

WatchProgress(v) ==
    /\ v \in outgoing /\ News(v) /\ See(v)
    /\ RequestStateOf(v) \in {"Requested", "Transitioned"}
    /\ Report(v, "Requested")
    /\ UNCHANGED <<sdkVars, outgoing, requester, handlerVars, waiterVars, userVars, history>>

WatchReady(v) ==
    /\ v \in outgoing /\ News(v) /\ RequestStateOf(v) = "Ready" /\ See(v)
    /\ Return(v, "starting")
    /\ UNCHANGED <<sdkVars, outgoing, status, handlerVars, waiterVars, userVars, history>>

(* The SAS exchange is begun, unless that fails, or there is none to begin *)
(* because the other device has been faster.                               *)
StartSas(v) ==
    /\ requester[v] = "starting"
    /\ \/ /\ phase[v] = "ready" /\ Becomes(v, "started")
          /\ accepted' = accepted \cup {v}
          /\ handler' = [handler EXCEPT ![v] = "accepting"]
          /\ Return(v, "watching")
       \/ /\ phase[v] # "ready" /\ Return(v, "watching")
          /\ UNCHANGED <<sdkVars, handler, history>>
       \/ Return(v, "failed") /\ UNCHANGED <<sdkVars, handler, history>>
    /\ UNCHANGED <<outgoing, seen, status, sasSeen, waiterVars, userVars>>

(* The request is cancelled, and reported so, or cancelling it fails.      *)
Cancel(v) ==
    /\ \/ /\ IF Active(v) THEN Becomes(v, "cancelled") ELSE UNCHANGED <<phase, history>>
          /\ Report(v, "Cancelled") /\ Return(v, "ended")
       \/ Return(v, "failed") /\ UNCHANGED <<phase, history, status>>
    /\ UNCHANGED <<accepted, outgoing, seen, handlerVars, waiterVars, userVars>>

(* The other device does not support SAS.                                  *)
SasUnavailable(v) == requester[v] = "starting" /\ Cancel(v)

(* Mutant: only the success ends the loop.                                 *)
WatchSuccess(v) ==
    /\ v \in outgoing /\ News(v) /\ See(v)
    /\ RequestStateOf(v) \in {"Done", "Cancelled"}
    /\ Report(v, RequestStateOf(v))
    /\ IF RequestStateOf(v) = "Done" THEN Return(v, "ended") ELSE UNCHANGED requester
    /\ UNCHANGED <<sdkVars, outgoing, handlerVars, waiterVars, userVars, history>>

WatchOutcome(v) ==
    /\ v \in outgoing /\ News(v) /\ See(v)
    /\ RequestStateOf(v) \in {"Done", "Cancelled"}
    /\ Report(v, RequestStateOf(v)) /\ Return(v, "ended")
    /\ UNCHANGED <<sdkVars, outgoing, handlerVars, waiterVars, userVars, history>>

(* Mutant: the loop goes on to hear of the cancellation.                   *)
UserCancelsAndWaits(v) ==
    /\ v \in outgoing /\ requester[v] = "watching"
    /\ IF Active(v) THEN Becomes(v, "cancelled") ELSE UNCHANGED <<phase, history>>
    /\ Report(v, "Cancelled") /\ Len(status[v]) < 3
    /\ UNCHANGED <<accepted, outgoing, requester, seen, handlerVars, waiterVars, userVars>>

(* The signal to cancel, in whatever state. A verification that is over is *)
(* not changed by it, but reported cancelled nevertheless.                 *)
UserCancels(v) == v \in outgoing /\ requester[v] = "watching" /\ Cancel(v)

----------------------------------------------------------------------------
(* sas_verification_handler.                                               *)

(* print_devices and accept are awaited. If one fails, accept with or      *)
(* without effect, the task panics.                                        *)
AcceptSas(v) ==
    /\ handler[v] = "accepting"
    /\ \/ /\ accepted' = accepted \cup {v}
          /\ \E how \in {"subscribing", "failed"} : handler' = [handler EXCEPT ![v] = how]
       \/ handler' = [handler EXCEPT ![v] = "failed"] /\ UNCHANGED accepted
    /\ UNCHANGED <<phase, requesterVars, sasSeen, waiterVars, userVars, history>>

(* sas.changes().                                                          *)
FollowSas(v) ==
    /\ handler[v] = "subscribing"
    /\ handler' = [handler EXCEPT ![v] = "watching"]
    /\ sasSeen' = [sasSeen EXCEPT ![v] = SasStateOf(v)]
    /\ UNCHANGED <<sdkVars, requesterVars, waiterVars, userVars, history>>

WatchSas(v) ==
    /\ handler[v] = "watching" /\ SasStateOf(v) # sasSeen[v]
    /\ sasSeen' = [sasSeen EXCEPT ![v] = SasStateOf(v)]
    /\ handler' = [handler EXCEPT ![v] = IF phase[v] \in Over THEN "ended" ELSE @]
    /\ waiter' = [waiter EXCEPT ![v] = IF phase[v] = "keys" THEN "emitting" ELSE @]
    /\ overlapped' =
        (overlapped \/ (phase[v] = "keys" /\ \E u \in Verification \ {v} : Comparing(u)))
    /\ UNCHANGED <<sdkVars, requesterVars, lockQueue, userVars, mistaken>>

----------------------------------------------------------------------------
(* wait_for_confirmation.                                                  *)

EmitStart(v) ==
    /\ waiter[v] = "emitting"
    /\ waiter' = [waiter EXCEPT ![v] = "locking"]
    /\ shown' = v
    /\ UNCHANGED <<sdkVars, requesterVars, handlerVars, lockQueue, responses, history>>

(* The mutex of tokio is fair: first come, first served.                   *)
LockReceiver(v) ==
    /\ waiter[v] = "locking"
    /\ waiter' = [waiter EXCEPT ![v] = "queued"]
    /\ lockQueue' = Append(lockQueue, v)
    /\ UNCHANGED <<sdkVars, requesterVars, handlerVars, userVars, history>>

(* What is answered to a verification that is over changes nothing.        *)
Use(v, response) ==
    /\ mistaken' = (mistaken \/ response.of # v)
    /\ phase' = [phase EXCEPT ![v] =
            IF @ # "keys" THEN @ ELSE IF response.confirmed THEN "confirmed" ELSE "cancelled"]
    /\ UNCHANGED overlapped

(* Mutant: the lock is never given back.                                   *)
TakeResponseLocked(v) ==
    /\ lockQueue # <<>> /\ Head(lockQueue) = v /\ responses # <<>>
    /\ Use(v, Head(responses))
    /\ responses' = Tail(responses)
    /\ waiter' = [waiter EXCEPT ![v] = "ended"]
    /\ UNCHANGED <<accepted, requesterVars, handlerVars, lockQueue, shown>>

(* Mutant: the response is read, and left for the next one.                *)
TakeResponseAgain(v) ==
    /\ lockQueue # <<>> /\ Head(lockQueue) = v /\ responses # <<>>
    /\ Use(v, Head(responses))
    /\ lockQueue' = Tail(lockQueue)
    /\ waiter' = [waiter EXCEPT ![v] = "ended"]
    /\ UNCHANGED <<accepted, requesterVars, handlerVars, userVars>>

TakeResponse(v) ==
    /\ lockQueue # <<>> /\ Head(lockQueue) = v /\ responses # <<>>
    /\ Use(v, Head(responses))
    /\ responses' = Tail(responses)
    /\ lockQueue' = Tail(lockQueue)
    /\ waiter' = [waiter EXCEPT ![v] = "ended"]
    /\ UNCHANGED <<accepted, requesterVars, handlerVars, shown>>

(* The user compares the emojis shown, once.                               *)
UserResponds(confirmed) ==
    /\ shown # None
    /\ responses' = Append(responses, [of |-> shown, confirmed |-> confirmed])
    /\ shown' = None
    /\ UNCHANGED <<sdkVars, requesterVars, handlerVars, waiterVars, history>>

RequesterNext(v) ==
    \/ AcceptRequest(v) \/ RequestDevice(v) \/ SubscribeRequest(v)
    \/ WatchIncoming(v) \/ WatchProgress(v) \/ WatchReady(v) \/ WatchOutcome(v)
    \/ StartSas(v) \/ SasUnavailable(v)
HandlerNext(v) == AcceptSas(v) \/ FollowSas(v) \/ WatchSas(v)
WaiterNext(v) == EmitStart(v) \/ LockReceiver(v) \/ TakeResponse(v)

Next ==
    \/ \E v \in Verification :
        \/ OtherDevice(v) \/ IncomingRequest(v) \/ VerifyDevice(v) \/ UserCancels(v)
        \/ RequesterNext(v) \/ HandlerNext(v) \/ WaiterNext(v)
    \/ \E confirmed \in BOOLEAN : UserResponds(confirmed)

Spec == Init /\ [][Next]_vars

(* The tasks are polled. Nothing is assumed of the user or other devices.  *)
FairSpec ==
    /\ Spec
    /\ \A v \in Verification :
        WF_vars(RequesterNext(v)) /\ WF_vars(HandlerNext(v)) /\ WF_vars(WaiterNext(v))

----------------------------------------------------------------------------
(* Properties.                                                             *)

IsOutcome(event) == event \in {"Done", "Cancelled"}

(* Whoever waits for verify_device hears how it ended once, and at last,   *)
(* if it returns without error, and not at all before or otherwise.        *)
OutcomeIsReportedOnce ==
    \A v \in outgoing :
        LET outcomes == {i \in DOMAIN status[v] : IsOutcome(status[v][i])} IN
        outcomes = IF requester[v] = "ended" THEN {Len(status[v])} ELSE {}

(* Responses carry no name. Each is taken for the right verification as    *)
(* long as comparisons do not overlap, although the answer may come late,  *)
(* or when the verification is over.                                       *)
ResponsesAreMatched == mistaken => overlapped

(* verify_device returns when its verification is over, whoever ended it,  *)
(* if it was not over before the subscription.                             *)
VerifyDeviceReturns ==
    \A v \in Verification :
        (/\ v \in outgoing /\ requester[v] \in {"watching", "starting"}
         /\ phase[v] \in Over /\ ~IsOutcome(seen[v])) ~> requester[v] \in {"ended", "failed"}

(* If it was, this is false: verify_device waits until the user cancels.   *)
VerifyDeviceAlwaysReturns ==
    \A v \in Verification :
        (v \in outgoing /\ phase[v] \in Over) ~> requester[v] \in {"ended", "failed"}

(* And this is false because the SAS exchange may have come to the emojis  *)
(* before its handler subscribes: a handler that follows an exchange which *)
(* has exchanged its keys lets the user compare them.                      *)
EmojisAreShown ==
    \A v \in Verification :
        (handler[v] = "watching" /\ phase[v] = "keys") ~> (Comparing(v) \/ phase[v] # "keys")

(* What the user does too late makes this false: an outcome reported       *)
(* cancelled was cancelled.                                                *)
CancelledIsTrue ==
    \A v \in outgoing :
        status[v] # <<>> /\ Last(status[v]) = "Cancelled" => phase[v] = "cancelled"

(* And this is false because nothing tells a waiter that its verification  *)
(* was cancelled: it stays, and has the lock.                              *)
WaitersEnd == \A v \in Verification : phase[v] \in Over /\ handler[v] = "ended" => ~Comparing(v)
=============================================================================
